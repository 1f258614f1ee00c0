------------------------------ MODULE FtlProof ------------------------------
(***************************************************************************)
(* Theorems about the translation layer of Ftl.tla, for every chip and     *)
(* every load of requests: first the types, second that no logical block   *)
(* is lost, third the table, fourth what a read finds, fifth that the      *)
(* steps are those of an array of sectors, each under every pattern of     *)
(* faults and power cuts; sixth that the layer implements that array when  *)
(* nothing harms a move.                                                   *)
(***************************************************************************)
EXTENDS FtlInv, TLAPS, FiniteSetTheorems, WellFoundedInduction

(***************************************************************************)
(* Arithmetic                                                              *)
(***************************************************************************)
\* A finite set of integers that is not empty has its maximum in it: what ftl_create_lut
\* and the block searches pick is a block of the set they look in.
LEMMA MaxIn ==
  ASSUME NEW A \in SUBSET Int, IsFiniteSet(A), A # {}
  PROVE  Max(A) \in A /\ \A y \in A : Max(A) >= y
<1> DEFINE Above(x) == {y \in A : y > x}
           T == {Above(x) : x \in A}
<1>0. \A X \in SUBSET A : IsFiniteSet(X)
  BY FS_Subset
<1>1. T \subseteq FiniteSubsetsOf(A) /\ T # {}
  BY <1>0 DEF FiniteSubsetsOf
<1>2. PICK U \in T : \A V \in T : <<V, U>> \notin StrictSubsetOrdering(A)
  BY <1>1, WFMin, FS_StrictSubsetOrderingWellFounded
<1>3. PICK x \in A : U = Above(x)
  OBVIOUS
<1>4. \A y \in A : x >= y
  <2> SUFFICES ASSUME NEW y \in A, y > x PROVE FALSE
    OBVIOUS
  <2>1. Above(y) \subseteq Above(x) /\ Above(y) # Above(x)
    <3>1. y \in Above(x) /\ y \notin Above(y)
      OBVIOUS
    <3>2. \A z \in Above(y) : z \in Above(x)
      OBVIOUS
    <3> HIDE DEF Above
    <3> QED BY <3>1, <3>2
  <2>2. Above(y) \in SUBSET A /\ Above(x) \in SUBSET A
    OBVIOUS
  <2>3. <<Above(y), Above(x)>> \in StrictSubsetOrdering(A)
    BY <2>1, <2>2 DEF StrictSubsetOrdering
  <2> QED BY <1>2, <1>3, <2>3
<1> QED BY <1>4 DEF Max

\* The same of the minimum.
LEMMA MinIn ==
  ASSUME NEW A \in SUBSET Int, IsFiniteSet(A), A # {}
  PROVE  Min(A) \in A /\ \A y \in A : Min(A) =< y
<1> DEFINE Below(x) == {y \in A : y < x}
           T == {Below(x) : x \in A}
<1>0. \A X \in SUBSET A : IsFiniteSet(X)
  BY FS_Subset
<1>1. T \subseteq FiniteSubsetsOf(A) /\ T # {}
  BY <1>0 DEF FiniteSubsetsOf
<1>2. PICK U \in T : \A V \in T : <<V, U>> \notin StrictSubsetOrdering(A)
  BY <1>1, WFMin, FS_StrictSubsetOrderingWellFounded
<1>3. PICK x \in A : U = Below(x)
  OBVIOUS
<1>4. \A y \in A : x =< y
  <2> SUFFICES ASSUME NEW y \in A, y < x PROVE FALSE
    OBVIOUS
  <2>1. Below(y) \subseteq Below(x) /\ Below(y) # Below(x)
    <3>1. y \in Below(x) /\ y \notin Below(y)
      OBVIOUS
    <3>2. \A z \in Below(y) : z \in Below(x)
      OBVIOUS
    <3> HIDE DEF Below
    <3> QED BY <3>1, <3>2
  <2>2. Below(y) \in SUBSET A /\ Below(x) \in SUBSET A
    OBVIOUS
  <2>3. <<Below(y), Below(x)>> \in StrictSubsetOrdering(A)
    BY <2>1, <2>2 DEF StrictSubsetOrdering
  <2> QED BY <1>2, <1>3, <2>3
<1> QED BY <1>4 DEF Min

\* The same of a set of blocks, which is what the searches of ftl.c look in.
LEMMA BlockExtremes ==
  ASSUME NEW A \in SUBSET Block, A # {}
  PROVE  Max(A) \in A /\ Min(A) \in A /\ \A y \in A : Min(A) =< y
<1>0. IsFiniteSet(Block)
  BY FS_Interval, GeometryAssumption DEF Block
<1>1. IsFiniteSet(A)
  BY <1>0, FS_Subset
<1>2. A \in SUBSET Int
  BY GeometryAssumption DEF Block
<1> QED BY <1>1, <1>2, MaxIn, MinIn

\* A block number list has as many good blocks as it has numbers, at most.
LEMMA CountBlocks ==
  ASSUME NEW A \in SUBSET Block
  PROVE  Cardinality(A) \in 0 .. Blocks
<1>1. IsFiniteSet(Block) /\ Cardinality(Block) = Blocks
  BY FS_Interval, GeometryAssumption DEF Block
<1> QED BY <1>1, FS_Subset, FS_CardinalityType, GeometryAssumption

\* The place of a sector in its block and in its page (lines 254-256 of ftl.c).
LEMMA HereFacts ==
  ASSUME job.sec \in Nat, job.i \in Nat
  PROVE  HereCell \in Cell /\ HereCol \in 0 .. PageSectors - 1 /\ PageOf(HereCell) \in Nat
<1>1. BlockSectors \in Nat \ {0}
  BY GeometryAssumption DEF BlockSectors
<1>2. HereCell \in Cell
  BY <1>1 DEF HereCell, CellOf, Here, Cell
<1>3. HereCol \in 0 .. PageSectors - 1
  BY <1>1, <1>2, GeometryAssumption DEF HereCol, Cell
<1>4. PageOf(HereCell) \in Nat
  BY <1>1, <1>2, GeometryAssumption DEF PageOf, Cell
<1> QED BY <1>2, <1>3, <1>4

\* A page ends within its block: from the place c in a block, what follows on c's page.
LEMMA PageEnds ==
  ASSUME NEW c \in Cell, NEW n \in Nat, n <= PageSectors - (c % PageSectors)
  PROVE  c + n <= BlockSectors
<1>1. c \in Nat /\ c < Pages * PageSectors
  BY GeometryAssumption DEF Cell, BlockSectors
<1>2. c = PageSectors * (c \div PageSectors) + (c % PageSectors)
      /\ c \div PageSectors \in Nat /\ c % PageSectors \in 0 .. PageSectors - 1
  BY <1>1, GeometryAssumption
<1> DEFINE q == c \div PageSectors
<1>3. q < Pages
  <2>1. SUFFICES ASSUME q >= Pages PROVE FALSE
    BY <1>2, GeometryAssumption
  <2>2. q \in Nat /\ Pages \in Nat /\ PageSectors \in Nat
    BY <1>2, GeometryAssumption
  <2>3. c >= PageSectors * q
    BY <1>2, <2>2
  <2> HIDE DEF q
  <2>4. PageSectors * q >= PageSectors * Pages
    BY <2>1, <2>2
  <2> QED BY <1>1, <2>2, <2>3, <2>4
<1>4. PageSectors * (q + 1) <= PageSectors * Pages
  <2>1. q + 1 <= Pages /\ q \in Nat /\ Pages \in Nat /\ PageSectors \in Nat
    BY <1>2, <1>3, GeometryAssumption
  <2> HIDE DEF q
  <2> QED BY <2>1
<1> QED BY <1>1, <1>2, <1>4, GeometryAssumption DEF BlockSectors

(***************************************************************************)
(* The chip keeps its types under every command                            *)
(***************************************************************************)
\* Programming one content over another leaves a content.
LEMMA OverlayType ==
  ASSUME NEW u \in Val, NEW v \in Val
  PROVE  Overlay(u, v) \in Val
BY DEF Overlay, Val

\* The item of a list of contents at a place it has is a content.
LEMMA ItemType ==
  ASSUME NEW vals \in Seq(Val), NEW n \in 1 .. Len(vals)
  PROVE  vals[n] \in Val
OBVIOUS

\* nand_eraseblock
LEMMA EraseType ==
  ASSUME FlashTypeOK, NEW b \in Block, Erase(b)
  PROVE  FlashTypeOK'
<1>1. Erased \in [Cell -> Val]
  BY DEF Erased, Val
<1>2. main' \in [Block -> [Cell -> Val]] /\ weak' \subseteq Block \X Cell
  BY <1>1 DEF FlashTypeOK, Erase
<1>3. tag' \in [Block -> 0 .. Blocks]
  BY GeometryAssumption DEF FlashTypeOK, Erase, NoTag
<1>4. used' \subseteq Block /\ bad' \in [{0, 1} -> SUBSET Block]
  BY DEF FlashTypeOK, Erase
<1> QED BY <1>2, <1>3, <1>4 DEF FlashTypeOK

\* nand_writepage
LEMMA ProgramType ==
  ASSUME FlashTypeOK, NEW b \in Block, NEW c, NEW vals \in Seq(Val), Program(b, c, vals)
  PROVE  FlashTypeOK'
<1> DEFINE row == [k \in Cell |-> IF k - c + 1 \in 1 .. Len(vals)
                     THEN Overlay(main[b][k], vals[k - c + 1]) ELSE main[b][k]]
<1>1. \A k \in Cell : row[k] \in Val
  <2> SUFFICES ASSUME NEW k \in Cell PROVE row[k] \in Val
    OBVIOUS
  <2>1. main[b][k] \in Val
    BY DEF FlashTypeOK
  <2>2. CASE k - c + 1 \in 1 .. Len(vals)
    <3>1. vals[k - c + 1] \in Val
      BY <2>2, ItemType
    <3> QED BY <2>1, <2>2, <3>1, OverlayType
  <2> QED BY <2>1, <2>2
<1>2. row \in [Cell -> Val]
  BY <1>1
<1>3. main' = [main EXCEPT ![b] = row] /\ UNCHANGED <<weak, tag, used, bad>>
  BY DEF Program
<1> HIDE DEF row
<1> QED BY <1>2, <1>3 DEF FlashTypeOK

\* nand_write_pageconst
LEMMA FillZeroType ==
  ASSUME FlashTypeOK, NEW b \in Block, NEW p, FillZero(b, p)
  PROVE  FlashTypeOK'
BY DEF FlashTypeOK, FillZero, Val

\* nand_copypage_withwrite, nand_copypage_withoutwrite
LEMMA CopyPageType ==
  ASSUME FlashTypeOK, NEW src \in Block, NEW dst \in Block, NEW p \in Nat, NEW col \in Nat,
         NEW vals \in Seq(Val), CopyPage(src, dst, p, col, vals)
  PROVE  FlashTypeOK'
<1> DEFINE new(k) == k - (p * PageSectors + col) + 1
           fresh  == {k \in Cell : PageOf(k) = p /\ new(k) \notin 1 .. Len(vals)}
           row    == [k \in Cell |-> IF PageOf(k) # p THEN main[dst][k]
                       ELSE Overlay(main[dst][k],
                                    IF k \in fresh THEN main[src][k] ELSE vals[new(k)])]
<1>1. \A k \in Cell : row[k] \in Val
  <2> SUFFICES ASSUME NEW k \in Cell PROVE row[k] \in Val
    OBVIOUS
  <2>1. main[dst][k] \in Val /\ main[src][k] \in Val
    BY DEF FlashTypeOK
  <2>2. CASE PageOf(k) = p /\ new(k) \in 1 .. Len(vals)
    <3>1. vals[new(k)] \in Val
      BY <2>2, ItemType
    <3> QED BY <2>1, <2>2, <3>1, OverlayType
  <2>3. CASE PageOf(k) = p /\ new(k) \notin 1 .. Len(vals)
    BY <2>1, <2>3, OverlayType
  <2> QED BY <2>1, <2>2, <2>3
<1>2. row \in [Cell -> Val]
  BY <1>1
<1>3. main' = [main EXCEPT ![dst] = row]
  BY DEF CopyPage
<1>4. weak' \subseteq Block \X Cell
  <2> DEFINE moved == {j \in fresh : <<src, j>> \in weak}
  <2>1. weak' = weak \cup {<<dst, k>> : k \in moved}
    BY DEF CopyPage
  <2>2. moved \subseteq Cell
    OBVIOUS
  <2> HIDE DEF moved
  <2> QED BY <2>1, <2>2 DEF FlashTypeOK
<1>5. tag' \in [Block -> 0 .. Blocks] /\ used' \subseteq Block
  BY DEF CopyPage, FlashTypeOK
<1>6. bad' \in [{0, 1} -> SUBSET Block]
  BY DEF CopyPage, FlashTypeOK
<1> HIDE DEF row
<1> QED BY <1>2, <1>3, <1>4, <1>5, <1>6 DEF FlashTypeOK

\* nand_writespare, for each of the three things written there
LEMMA WriteTagType ==
  ASSUME FlashTypeOK, NEW b \in Block, NEW l \in 0 .. Blocks, WriteTag(b, l)
  PROVE  FlashTypeOK'
<1>1. \A t \in Merged(tag[b], l) : t \in 0 .. Blocks
  BY GeometryAssumption DEF Merged, Block
<1> QED BY <1>1 DEF FlashTypeOK, WriteTag

\* the used mark
LEMMA MarkUsedType ==
  ASSUME FlashTypeOK, NEW b \in Block, MarkUsed(b)
  PROVE  FlashTypeOK'
BY DEF FlashTypeOK, MarkUsed

\* a bad-block mark
LEMMA MarkBadType ==
  ASSUME FlashTypeOK, NEW b \in Block, NEW p \in {0, 1}, MarkBad(b, p)
  PROVE  FlashTypeOK'
BY DEF FlashTypeOK, MarkBad

\* no command
LEMMA UntouchedType ==
  ASSUME FlashTypeOK, UNCHANGED flashVars
  PROVE  FlashTypeOK'
BY DEF FlashTypeOK, flashVars

\* One command of ftl_badblock_mark, whether it is carried out or not.
LEMMA MarkPageType ==
  ASSUME FlashTypeOK, NEW b \in Block, NEW p \in {0, 1}, MarkPage(b, p)
  PROVE  FlashTypeOK'
BY MarkBadType, UntouchedType DEF MarkPage

\* ftl_create_lut leaves numbers of blocks, or none.
LEMMA CreateLutType ==
  ASSUME valid \in 0 .. Blocks, NEW bd, NEW tg
  PROVE  /\ LutOf(bd, tg) \in [Block -> 0 .. Blocks]
         /\ \A table : ValidOf(table, valid) \in 0 .. Blocks
         /\ Cardinality(Block \ (bd[0] \cup bd[1])) \in 0 .. Blocks
<1>1. \A l \in Block : LutOf(bd, tg)[l] \in 0 .. Blocks
  <2> SUFFICES ASSUME NEW l \in Block PROVE LutOf(bd, tg)[l] \in 0 .. Blocks
    OBVIOUS
  <2>1. Carriers(l, bd, tg) \in SUBSET Block
    BY DEF Carriers
  <2>2. Carriers(l, bd, tg) # {} => Max(Carriers(l, bd, tg)) \in Block
    BY <2>1, BlockExtremes
  <2> QED BY <2>2, GeometryAssumption DEF LutOf, NoBlock, Block
<1>2. \A table : ValidOf(table, valid) \in 0 .. Blocks
  <2> SUFFICES ASSUME NEW table PROVE ValidOf(table, valid) \in 0 .. Blocks
    OBVIOUS
  <2> DEFINE holes == {l \in Block : table[l] = NoBlock}
  <2>1. holes # {} => Min(holes) \in Block
    BY BlockExtremes
  <2>2. ValidOf(table, valid) = IF holes = {} THEN valid ELSE Min(holes)
    BY DEF ValidOf
  <2>3. \A b \in Block : b \in 0 .. Blocks
    BY GeometryAssumption DEF Block
  <2> HIDE DEF holes
  <2> QED BY <2>1, <2>2, <2>3
<1>3. Block \ (bd[0] \cup bd[1]) \in SUBSET Block
  OBVIOUS
<1>4. Cardinality(Block \ (bd[0] \cup bd[1])) \in 0 .. Blocks
  BY <1>3, CountBlocks
<1>5. LutOf(bd, tg) = [l \in Block |-> LutOf(bd, tg)[l]]
  BY DEF LutOf
<1> QED BY <1>1, <1>2, <1>4, <1>5

(***************************************************************************)
(* The locals of a request                                                 *)
(***************************************************************************)
\* The records to which the locals are reset are of their types.
LEMMA Resets ==
  /\ Idle \in Jobs /\ NoCopy \in Copies
  /\ NoLoop \in Loops
  /\ \A r \in {"ok", "error"} : Return(r) \in Jobs
<1>1. Idle \in Jobs
  BY GeometryAssumption DEF Idle, Jobs, NoBlock
<1>2. NoCopy \in Copies
  BY GeometryAssumption DEF NoCopy, Copies, NoBlock
<1>3. NoLoop \in Loops
  BY DEF NoLoop, Loops
<1>4. \A r \in {"ok", "error"} : Return(r) \in Jobs
  BY <1>1 DEF Return, Jobs
<1> QED BY <1>1, <1>2, <1>3, <1>4

\* What ftl_write_sectors computes for the sector it has come to: the block is one
\* of the chip or none, the place is in the block, and the chunks end with the request.
LEMMA HereTypes ==
  ASSUME TypeOK
  PROVE  /\ HereBlk \in 0 .. Blocks /\ (HereBlk # NoBlock => HereBlk \in Block)
         /\ HereCell \in Cell /\ HereCol \in 0 .. PageSectors - 1
         /\ PageOf(HereCell) \in Nat
         /\ InPage \in Nat /\ job.i + InPage <= job.len
         /\ InBlock \in Nat /\ job.i + InBlock <= job.len
<1>1. job.sec \in Nat /\ job.i \in Nat /\ job.len \in Nat /\ job.i <= job.len
  BY DEF TypeOK, JobTypeOK, Jobs
<1>2. HereCell \in Cell /\ HereCol \in 0 .. PageSectors - 1 /\ PageOf(HereCell) \in Nat
  BY <1>1, HereFacts
<1>3. HereBlk \in 0 .. Blocks
  BY GeometryAssumption DEF TypeOK, RamTypeOK, HereBlk, Pbn, NoBlock
<1>4. HereBlk # NoBlock => HereBlk \in Block
  BY <1>3, GeometryAssumption DEF Block, NoBlock
<1>5. InPage \in Nat /\ job.i + InPage <= job.len
  BY <1>1, <1>2, GeometryAssumption DEF InPage, Least, HereCol
<1>6. BlockSectors \in Nat \ {0}
  BY GeometryAssumption DEF BlockSectors
<1>7. InBlock \in Nat /\ job.i + InBlock <= job.len
  BY <1>1, <1>2, <1>6 DEF InBlock, Least, Cell
<1> QED BY <1>2, <1>3, <1>4, <1>5, <1>7

\* The part of the data a chunk takes.
LEMMA ChunkType ==
  ASSUME TypeOK, job.kind = "write", NEW n \in Nat, job.i + n <= job.len
  PROVE  Chunk(n) \in Seq(Val)
<1>1. job.data \in Seq(Datum) /\ job.i \in Nat /\ job.len = Len(job.data)
  BY DEF TypeOK, JobTypeOK, Jobs
<1>2. Chunk(n) \in Seq(Datum)
  BY <1>1 DEF Chunk
<1> QED BY <1>2 DEF Val

\* ftl_copy_and_write_to_block is entered with a source and with no more than the request.
LEMMA StartCopyType ==
  ASSUME TypeOK, NEW n \in Nat, job.i + n <= job.len, NEW buf \in Seq(Val),
         HereBlk \in Block, StartCopy(n, buf)
  PROVE  /\ pc' = "cpFind" /\ cp' \in Copies /\ cp'.src \in Block
         /\ job' \in Jobs /\ job'.i + job'.w <= job'.len /\ job'.i <= job'.len
         /\ job'.kind = job.kind /\ job'.data = job.data /\ job'.len = job.len
<1>1. job \in Jobs /\ job.i <= job.len
  BY DEF TypeOK, JobTypeOK
<1>2. job' = [job EXCEPT !.w = n]
  BY DEF StartCopy
<1>3. job' \in Jobs /\ job'.w = n /\ job'.i = job.i /\ job'.len = job.len
      /\ job'.kind = job.kind /\ job'.data = job.data
  BY <1>1, <1>2 DEF Jobs
<1>4. cp' \in Copies /\ cp'.src \in Block
  BY HereTypes, GeometryAssumption DEF StartCopy, Copies, NoBlock
<1> QED BY <1>1, <1>3, <1>4 DEF StartCopy

(***************************************************************************)
(* Every step keeps the types: one lemma per group of actions              *)
(***************************************************************************)
\* ftl_init
LEMMA BootType == TypeOK /\ Boot => TypeOK'
<1> SUFFICES ASSUME TypeOK, Boot PROVE TypeOK'
  OBVIOUS
<1>1. FlashTypeOK' /\ JobTypeOK' /\ cp' \in Copies
  BY UntouchedType DEF TypeOK, Boot, JobTypeOK
<1>2. lut' \in [Block -> 0 .. Blocks] /\ valid' \in 0 .. Blocks
  BY CreateLutType DEF TypeOK, RamTypeOK, Boot
<1>3. Cardinality(Block \ (bad[0] \cup bad[1])) \in 0 .. Blocks
  BY CreateLutType DEF TypeOK, RamTypeOK
<1>4. good' \in 0 .. Blocks /\ cap' \in 0 .. Blocks /\ cur' \in 0 .. Blocks
  BY <1>2, <1>3, GeometryAssumption DEF TypeOK, RamTypeOK, Boot, StartFormat, Bad
<1>5. \/ pc' = "ready" /\ loop' = loop
      \/ pc' = "fmtErase" /\ loop' = NoLoop /\ good' = 0
  BY DEF Boot, StartFormat
<1>6. loop' \in Loops
  BY <1>5, Resets DEF TypeOK
<1>7. ControlOK'
  BY <1>5, GeometryAssumption DEF ControlOK, PCs, Copying, Refreshing, NoLoop
<1> QED BY <1>1, <1>2, <1>4, <1>6, <1>7 DEF TypeOK, RamTypeOK

\* ftl_format
LEMMA FormatType ==
  TypeOK /\ (FmtErase \/ FmtMark \/ FmtMark2 \/ FmtErased \/ FmtTag \/ FmtTagged) => TypeOK'
<1> SUFFICES ASSUME TypeOK
             PROVE  FmtErase \/ FmtMark \/ FmtMark2 \/ FmtErased \/ FmtTag \/ FmtTagged => TypeOK'
  OBVIOUS
<1>0. loop.i \in Nat /\ loop.n \in Nat /\ good \in 0 .. Blocks
  BY DEF TypeOK, Loops, RamTypeOK
<1>1. ASSUME FmtErase PROVE TypeOK'
  <2>1. loop.i \in Block /\ loop.i < Blocks /\ good <= loop.i
    BY <1>0, <1>1, GeometryAssumption DEF TypeOK, ControlOK, FmtErase, Block
  <2>2. FlashTypeOK'
    BY <1>1, <2>1, UntouchedType, EraseType DEF TypeOK, FmtErase
  <2>3. /\ pc = "fmtErase" /\ UNCHANGED <<lut, valid, cur, job, cp, ghostVars>>
        /\ \/ pc' = pc /\ loop' = [loop EXCEPT !.i = @ + 1] /\ good' \in {good, good + 1}
           \/ pc' = "fmtMark" /\ loop' = loop /\ good' = good
    BY <1>1 DEF FmtErase
  <2>4. \/ loop' \in Loops /\ loop'.i = loop.i + 1 /\ pc' = "fmtErase"
           /\ good' \in {good, good + 1}
        \/ loop' \in Loops /\ loop'.i = loop.i /\ pc' = "fmtMark" /\ good' = good
    BY <2>3 DEF TypeOK, Loops
  <2>5. RamTypeOK' /\ JobTypeOK' /\ cp' \in Copies
    BY <1>0, <2>1, <2>3, GeometryAssumption DEF TypeOK, RamTypeOK, JobTypeOK, ghostVars
  <2>6. ControlOK'
    BY <1>0, <2>1, <2>4, GeometryAssumption DEF ControlOK, PCs, Copying, Refreshing
  <2> QED BY <2>2, <2>4, <2>5, <2>6 DEF TypeOK
<1>5. ASSUME FmtMark \/ FmtMark2 PROVE TypeOK'
  <2>1. loop.i \in Block /\ good <= loop.i
    BY <1>5 DEF TypeOK, ControlOK, FmtMark, FmtMark2
  <2>2. FlashTypeOK'
    BY <1>5, <2>1, MarkPageType DEF TypeOK, FmtMark, FmtMark2
  <2>3. /\ UNCHANGED <<ramVars, job, cp, ghostVars>>
        /\ \/ pc' = "fmtMark2" /\ loop' = loop
           \/ pc' = "fmtErase" /\ loop' = [loop EXCEPT !.i = @ + 1]
    BY <1>5 DEF FmtMark, FmtMark2
  <2>4. \/ loop' \in Loops /\ loop'.i = loop.i + 1 /\ pc' = "fmtErase"
        \/ loop' \in Loops /\ loop'.i = loop.i /\ pc' = "fmtMark2"
    BY <2>3 DEF TypeOK, Loops
  <2>5. RamTypeOK' /\ JobTypeOK' /\ cp' \in Copies
    BY <2>3 DEF TypeOK, RamTypeOK, JobTypeOK, ghostVars, ramVars
  <2>6. ControlOK'
    BY <1>0, <2>1, <2>3, <2>4, GeometryAssumption
       DEF ControlOK, PCs, Copying, Refreshing, ramVars, Block
  <2> QED BY <2>2, <2>4, <2>5, <2>6 DEF TypeOK
<1>2. ASSUME FmtErased PROVE TypeOK'
  <2>1. pc' \in {"off", "fmtTag"} /\ loop' = NoLoop
        /\ UNCHANGED <<flashVars, ramVars, job, cp, cap>>
    BY <1>2 DEF FmtErased
  <2>2. FlashTypeOK' /\ RamTypeOK' /\ JobTypeOK' /\ cp' \in Copies /\ loop' \in Loops
    BY <2>1, Resets, UntouchedType DEF TypeOK, RamTypeOK, JobTypeOK, ramVars
  <2>3. ControlOK'
    BY <2>1, GeometryAssumption DEF ControlOK, PCs, Copying, Refreshing, NoLoop
  <2> QED BY <2>2, <2>3 DEF TypeOK
<1>3. ASSUME FmtTag PROVE TypeOK'
  <2>1. loop.i \in Block /\ loop.i < Blocks /\ loop.n <= loop.i /\ loop.n \in 0 .. Blocks
    BY <1>0, <1>3, GeometryAssumption DEF TypeOK, ControlOK, FmtTag, Block
  <2>2. FlashTypeOK'
    BY <1>3, <2>1, UntouchedType, WriteTagType DEF TypeOK, FmtTag
  <2>3. /\ pc = "fmtTag" /\ UNCHANGED <<ramVars, pc, job, cp, cap>>
        /\ \/ loop' = [loop EXCEPT !.i = @ + 1]
           \/ loop' = [loop EXCEPT !.i = @ + 1, !.n = @ + 1]
    BY <1>3 DEF FmtTag
  <2>4. loop' \in Loops /\ loop'.i = loop.i + 1 /\ loop'.n \in {loop.n, loop.n + 1}
    <3>1. loop \in Loops
      BY DEF TypeOK
    <3>2. CASE loop' = [loop EXCEPT !.i = @ + 1]
      BY <3>1, <3>2 DEF Loops
    <3>3. CASE loop' = [loop EXCEPT !.i = @ + 1, !.n = @ + 1]
      <4>1. loop' = [i |-> loop.i + 1, n |-> loop.n + 1, fail |-> loop.fail]
        BY <3>1, <3>3 DEF Loops
      <4>2. loop.i \in Nat /\ loop.n \in Nat /\ loop.fail \in BOOLEAN
        BY <3>1 DEF Loops
      <4> QED BY <4>1, <4>2 DEF Loops
    <3> QED BY <2>3, <3>2, <3>3
  <2>5. RamTypeOK' /\ JobTypeOK' /\ cp' \in Copies
    BY <2>3 DEF TypeOK, RamTypeOK, JobTypeOK, ramVars
  <2>6. ControlOK'
    BY <1>0, <2>1, <2>3, <2>4, GeometryAssumption DEF ControlOK, PCs, Copying, Refreshing
  <2> QED BY <2>2, <2>4, <2>5, <2>6 DEF TypeOK
<1>4. ASSUME FmtTagged PROVE TypeOK'
  <2>1. pc' \in {"off", "ready"} /\ cap' \in {0, valid'} /\ loop' = NoLoop
        /\ UNCHANGED <<flashVars, cur, job, cp>>
    BY <1>4 DEF FmtTagged
  <2>2. FlashTypeOK' /\ JobTypeOK' /\ cp' \in Copies /\ loop' \in Loops
    BY <2>1, Resets, UntouchedType DEF TypeOK, JobTypeOK
  <2>3. lut' \in [Block -> 0 .. Blocks] /\ valid' \in 0 .. Blocks /\ good' \in 0 .. Blocks
    BY <1>4, CreateLutType DEF TypeOK, RamTypeOK, FmtTagged, CreateLut
  <2>4. RamTypeOK'
    BY <2>1, <2>3, GeometryAssumption DEF TypeOK, RamTypeOK
  <2>5. ControlOK'
    BY <2>1 DEF ControlOK, PCs, Copying, Refreshing
  <2> QED BY <2>2, <2>4, <2>5 DEF TypeOK
<1> QED BY <1>1, <1>2, <1>3, <1>4, <1>5

\* A chunk done, the request goes on, within its length.
LEMMA AdvanceType ==
  ASSUME TypeOK, NEW n \in Nat, job.i + n <= job.len, Advance(n)
  PROVE  JobTypeOK' /\ job'.kind = job.kind
<1>1. job \in Jobs /\ job.i \in Nat /\ job.len \in Nat
  BY DEF TypeOK, JobTypeOK, Jobs
<1>2. job' = [job EXCEPT !.i = job.i + n]
  BY <1>1 DEF Advance, Jobs
<1>3. job' \in Jobs /\ job'.i = job.i + n /\ job'.len = job.len /\ job'.kind = job.kind
      /\ job'.data = job.data
  BY <1>1, <1>2 DEF Jobs
<1> QED BY <1>3 DEF TypeOK, JobTypeOK

\* The steps that move within a request, or end it, and send nothing to the chip
\* that was not shown harmless above: all that is left is job, cp and the control.
LEMMA RequestType ==
  TypeOK /\ (Request \/ WriteDone \/ Outside \/ ReadDone \/ ReadPage) => TypeOK'
<1> SUFFICES ASSUME TypeOK
             PROVE  Request \/ WriteDone \/ Outside \/ ReadDone \/ ReadPage => TypeOK'
  OBVIOUS
<1>0. job \in Jobs
  BY DEF TypeOK, JobTypeOK
<1>1. ASSUME NEW s \in Starts, NEW n \in 1 .. MaxLen,
             \/ \E d \in [1 .. n -> Datum] : BeginWrite(s, d)
             \/ BeginRead(s, n)
      PROVE  TypeOK'
  <2>1. s \in Nat /\ n \in Nat
    BY <1>1, ConfigAssumption
  <2>2. /\ FlashTypeOK' /\ RamTypeOK' /\ cp' \in Copies /\ loop' \in Loops
        /\ pc' \in {"write", "read"} /\ (pc' = "write" => job'.kind = "write")
    <3>1. CASE \E d \in [1 .. n -> Datum] : BeginWrite(s, d)
      BY <3>1, UntouchedType
         DEF TypeOK, RamTypeOK, BeginWrite, ramVars, Idle
    <3>2. CASE BeginRead(s, n)
      BY <3>2, UntouchedType DEF TypeOK, RamTypeOK, BeginRead, ramVars, ghostVars
    <3> QED BY <1>1, <3>1, <3>2
  <2>3. JobTypeOK'
    <3>1. ASSUME NEW d \in [1 .. n -> Datum], BeginWrite(s, d) PROVE JobTypeOK'
      <4>1. d \in Seq(Datum) /\ Len(d) = n
        BY <2>1, GeometryAssumption
      <4>2. job' = [kind |-> "write", sec |-> s, len |-> Len(d), data |-> d, i |-> 0, w |-> 0,
                    marked |-> NoBlock, ret |-> "none"]
        BY <3>1 DEF BeginWrite, Idle
      <4> QED BY <2>1, <4>1, <4>2, GeometryAssumption DEF JobTypeOK, Jobs, NoBlock
    <3>2. CASE BeginRead(s, n)
      <4>1. job' = [kind |-> "read", sec |-> s, len |-> n, data |-> << >>, i |-> 0, w |-> 0,
                    marked |-> NoBlock, ret |-> "none"]
        BY <3>2 DEF BeginRead, Idle
      <4> QED BY <2>1, <4>1, GeometryAssumption DEF JobTypeOK, Jobs, NoBlock
    <3> QED BY <1>1, <3>1, <3>2
  <2>4. ControlOK'
    BY <2>2 DEF ControlOK, PCs, Copying, Refreshing
  <2> QED BY <2>2, <2>3, <2>4 DEF TypeOK
<1>2. ASSUME WriteDone \/ Outside \/ ReadDone PROVE TypeOK'
  <2>1. /\ pc' = "ready" /\ job' \in {Return("ok"), Return("error")}
        /\ UNCHANGED <<flashVars, ramVars, cp, loop, cap>>
    BY <1>2 DEF WriteDone, Outside, ReadDone, ghostVars
  <2>2. job' \in Jobs /\ job'.i = 0 /\ job'.len = 0 /\ job'.kind = "none"
    BY <2>1, Resets DEF Return, Idle
  <2>3. FlashTypeOK' /\ RamTypeOK' /\ JobTypeOK' /\ cp' \in Copies /\ loop' \in Loops
    BY <2>1, <2>2, UntouchedType DEF TypeOK, RamTypeOK, JobTypeOK, ramVars
  <2>4. ControlOK'
    BY <2>1 DEF ControlOK, PCs, Copying, Refreshing
  <2> QED BY <2>3, <2>4 DEF TypeOK
<1>3. ASSUME ReadPage PROVE TypeOK'
  <2>1. /\ pc' = "read" /\ job' = [job EXCEPT !.i = @ + InPage]
        /\ UNCHANGED <<flashVars, ramVars, cp, loop, ghostVars>>
    BY <1>3 DEF ReadPage, Advance
  <2>2. JobTypeOK'
    BY <2>1, HereTypes, AdvanceType DEF Advance
  <2>3. FlashTypeOK' /\ RamTypeOK' /\ cp' \in Copies /\ loop' \in Loops
    BY <2>1, UntouchedType DEF TypeOK, RamTypeOK, ramVars, ghostVars
  <2>4. ControlOK'
    BY <2>1 DEF ControlOK, PCs, Copying, Refreshing
  <2> QED BY <2>2, <2>3, <2>4 DEF TypeOK
<1> QED BY <1>1, <1>2, <1>3 DEF Request

\* The block a request works on is the same after a step that keeps the table and the
\* place in the request.
LEMMA HereStays ==
  ASSUME UNCHANGED <<lut, valid>>, job'.sec = job.sec, job'.i = job.i
  PROVE  HereBlk' = HereBlk
BY DEF HereBlk, Pbn, HereLbn, Lbn, Here

\* After a step into cpFind all is typed.
LEMMA MoveType ==
  ASSUME TypeOK, NEW n \in Nat, job.i + n <= job.len, NEW buf \in Seq(Val),
         HereBlk \in Block, StartCopy(n, buf),
         FlashTypeOK', UNCHANGED <<ramVars, loop, cap>>
  PROVE  TypeOK'
<1>1. /\ pc' = "cpFind" /\ cp' \in Copies /\ cp'.src \in Block
      /\ job' \in Jobs /\ job'.i + job'.w <= job'.len /\ job'.i <= job'.len
      /\ job'.kind = job.kind /\ job'.data = job.data /\ job'.len = job.len
  BY StartCopyType
<1>2. RamTypeOK' /\ JobTypeOK' /\ loop' \in Loops
  BY <1>1 DEF TypeOK, RamTypeOK, JobTypeOK, ramVars
<1>3. ControlOK'
  BY <1>1 DEF ControlOK, PCs, Copying, Refreshing
<1> QED BY <1>1, <1>2, <1>3 DEF TypeOK

\* ftl_write_sectors
LEMMA WriteType == TypeOK /\ (WriteInPlace \/ WriteMark \/ WriteMove) => TypeOK'
<1> SUFFICES ASSUME TypeOK PROVE WriteInPlace \/ WriteMark \/ WriteMove => TypeOK'
  OBVIOUS
<1>0. job \in Jobs /\ job.i \in Nat /\ job.len \in Nat
  BY DEF TypeOK, JobTypeOK, Jobs
<1>1. ASSUME WriteInPlace PROVE TypeOK'
  <2>1. HereBlk \in Block /\ job.kind = "write" /\ job.i < job.len
    BY <1>1, HereTypes DEF WriteInPlace, TypeOK, ControlOK
  <2>2. Chunk(InPage) \in Seq(Val) /\ Chunk(InBlock) \in Seq(Val)
    BY <2>1, HereTypes, ChunkType
  <2>3. FlashTypeOK'
    <3>1. \/ Program(HereBlk, HereCell, Chunk(InPage)) \/ UNCHANGED flashVars
      BY <1>1 DEF WriteInPlace
    <3> QED BY <2>1, <2>2, <3>1, ProgramType, UntouchedType DEF TypeOK
  <2>4. UNCHANGED <<ramVars, loop, cap>>
    BY <1>1 DEF WriteInPlace
  <2>5. RamTypeOK' /\ loop' \in Loops
    BY <2>4 DEF TypeOK, RamTypeOK, ramVars
  <2>6. CASE StartCopy(InBlock, Chunk(InBlock))
    BY <2>1, <2>2, <2>3, <2>4, <2>6, HereTypes, MoveType
  <2>7. CASE pc' = pc /\ Advance(InPage) /\ UNCHANGED cp
    <3>1. JobTypeOK' /\ job'.kind = "write" /\ cp' \in Copies /\ pc' = "write"
      BY <1>1, <2>1, <2>7, HereTypes, AdvanceType DEF TypeOK, WriteInPlace
    <3>2. ControlOK'
      BY <3>1 DEF ControlOK, PCs, Copying, Refreshing
    <3> QED BY <2>3, <2>5, <3>1, <3>2 DEF TypeOK
  <2>8. CASE pc' = "wrUsed" /\ job' = job /\ UNCHANGED cp
    <3>1. JobTypeOK' /\ cp' \in Copies
      BY <2>8 DEF TypeOK, JobTypeOK
    <3>2. HereBlk' \in Block
      BY <2>1, <2>4, <2>8, HereStays DEF ramVars
    <3>3. ControlOK'
      BY <2>1, <2>8, <3>2 DEF ControlOK, PCs, Copying, Refreshing
    <3> QED BY <2>3, <2>5, <3>1, <3>3 DEF TypeOK
  <2> QED BY <1>1, <2>6, <2>7, <2>8 DEF WriteInPlace
<1>2. ASSUME WriteMark PROVE TypeOK'
  <2>1. HereBlk \in Block /\ job.kind = "write" /\ job.i < job.len
    BY <1>2 DEF WriteMark, TypeOK, ControlOK
  <2>2. Chunk(InBlock) \in Seq(Val)
    BY <2>1, HereTypes, ChunkType
  <2>3. FlashTypeOK'
    BY <1>2, <2>1, MarkUsedType, UntouchedType DEF TypeOK, WriteMark
  <2>4. RamTypeOK' /\ loop' \in Loops
    BY <1>2 DEF TypeOK, RamTypeOK, WriteMark, ramVars
  <2>5. CASE pc' = "write" /\ UNCHANGED cp
             /\ job' = [job EXCEPT !.i = @ + InPage, !.marked = HereBlk]
    <3>1. job' = [kind |-> job.kind, sec |-> job.sec, len |-> job.len, data |-> job.data,
                  i |-> job.i + InPage, w |-> job.w, marked |-> HereBlk, ret |-> job.ret]
      BY <1>0, <2>5 DEF Jobs
    <3>2. InPage \in Nat /\ job.i + InPage <= job.len /\ HereBlk \in 0 .. Blocks
      BY HereTypes
    <3>3. JobTypeOK' /\ job'.kind = "write" /\ cp' \in Copies
      BY <1>0, <2>1, <2>5, <3>1, <3>2 DEF TypeOK, JobTypeOK, Jobs
    <3>4. ControlOK'
      BY <2>5, <3>3 DEF ControlOK, PCs, Copying, Refreshing
    <3> QED BY <2>3, <2>4, <3>3, <3>4 DEF TypeOK
  <2>6. CASE /\ pc' = "cpFind"
             /\ cp' = [src |-> HereBlk, page |-> PageOf(HereCell), col |-> HereCol,
                       buf |-> Chunk(InBlock), dst |-> NoBlock, pg |-> 0]
             /\ job' = [job EXCEPT !.w = InBlock, !.marked = HereBlk]
    <3>1. job' = [kind |-> job.kind, sec |-> job.sec, len |-> job.len, data |-> job.data,
                  i |-> job.i, w |-> InBlock, marked |-> HereBlk, ret |-> job.ret]
      BY <1>0, <2>6 DEF Jobs
    <3>2. InBlock \in Nat /\ job.i + InBlock <= job.len /\ HereBlk \in 0 .. Blocks
          /\ HereCol \in 0 .. PageSectors - 1 /\ PageOf(HereCell) \in Nat
      BY HereTypes
    <3>3. JobTypeOK' /\ job'.i + job'.w <= job'.len
      BY <1>0, <2>1, <3>1, <3>2 DEF TypeOK, JobTypeOK, Jobs
    <3>4. cp' \in Copies /\ cp'.src \in Block
      BY <2>1, <2>2, <2>6, <3>2, GeometryAssumption DEF Copies, NoBlock
    <3>5. ControlOK'
      BY <2>6, <3>3, <3>4 DEF ControlOK, PCs, Copying, Refreshing
    <3> QED BY <2>3, <2>4, <3>3, <3>4, <3>5 DEF TypeOK
  <2> QED BY <1>2, <2>5, <2>6 DEF WriteMark
<1>3. ASSUME WriteMove PROVE TypeOK'
  <2>1. HereBlk \in Block /\ job.kind = "write" /\ StartCopy(InBlock, Chunk(InBlock))
        /\ UNCHANGED <<ramVars, loop, cap>>
    BY <1>3, HereTypes DEF WriteMove, TypeOK, ControlOK
  <2>2. FlashTypeOK'
    BY <1>3, UntouchedType DEF TypeOK, WriteMove
  <2> QED BY <2>1, <2>2, HereTypes, ChunkType, MoveType
<1> QED BY <1>1, <1>2, <1>3

\* ftl_find_same_plane_unused_block returns a block of the source's plane that passes
\* for unused, or none.
LEMMA SamePlaneResult ==
  ASSUME cur \in 0 .. Blocks, NEW src \in Block
  PROVE  /\ SamePlaneUnused(src) \in 0 .. Blocks
         /\ SamePlaneUnused(src) # NoBlock =>
              /\ SamePlaneUnused(src) \in Block /\ Unused(SamePlaneUnused(src))
              /\ SamePlaneUnused(src) % 2 = src % 2
         /\ (\E b \in Block : b % 2 = src % 2 /\ Unused(b)) => SamePlaneUnused(src) # NoBlock
<1> DEFINE from == Least(cur, Blocks - 1)
           near == UnusedUpTo(from, src % 2)
           all  == UnusedUpTo(Blocks - 1, src % 2)
<1>1. from \in Int /\ from <= Blocks - 1
  BY GeometryAssumption DEF Least
<1>2. near \in SUBSET Block /\ all \in SUBSET Block
  BY <1>1, GeometryAssumption DEF UnusedUpTo, Block
<1>3. near # {} => Max(near) \in near
  BY <1>2, BlockExtremes
<1>4. all # {} => Max(all) \in all
  BY <1>2, BlockExtremes
<1>5. /\ near # {} => Unused(Max(near)) /\ Max(near) % 2 = src % 2
      /\ all # {} => Unused(Max(all)) /\ Max(all) % 2 = src % 2
  BY <1>3, <1>4 DEF UnusedUpTo
<1>6. SamePlaneUnused(src) = IF near # {} THEN Max(near)
                             ELSE IF all # {} THEN Max(all) ELSE NoBlock
  BY DEF SamePlaneUnused
<1>7. \A b \in Block : b \in 0 .. Blocks
  BY GeometryAssumption DEF Block
<1>8. NoBlock \in 0 .. Blocks /\ NoBlock \notin Block
  BY GeometryAssumption DEF NoBlock, Block
<1>9. (\E b \in Block : b % 2 = src % 2 /\ Unused(b)) => all # {}
  BY DEF UnusedUpTo, Block
<1> HIDE DEF near, all
<1> QED BY <1>2, <1>3, <1>4, <1>5, <1>6, <1>7, <1>8, <1>9

\* ftl_copy_and_write_to_block
LEMMA CopyType ==
  TypeOK /\ (CopyFind \/ CopyNoBlock \/ CopyPageStep \/ CopyMark \/ CopyMark2 \/ CopyUsed
             \/ CopyErase)
    => TypeOK'
<1> SUFFICES ASSUME TypeOK
             PROVE  CopyFind \/ CopyNoBlock \/ CopyPageStep \/ CopyMark \/ CopyMark2 \/ CopyUsed
                      \/ CopyErase => TypeOK'
  OBVIOUS
<1>0. /\ job \in Jobs /\ job.i \in Nat /\ job.len \in Nat /\ job.w \in Nat
      /\ cp \in Copies /\ loop \in Loops /\ FlashTypeOK /\ RamTypeOK /\ JobTypeOK
  BY DEF TypeOK, JobTypeOK, Jobs
<1>1. ASSUME CopyFind PROVE TypeOK'
  <2>1. cp.src \in Block /\ job.i + job.w <= job.len
    BY <1>1 DEF CopyFind, TypeOK, ControlOK
  <2>2. SamePlaneUnused(cp.src) \in Block /\ SamePlaneUnused(cp.src) \in 0 .. Blocks
    BY <1>0, <1>1, <2>1, SamePlaneResult DEF CopyFind, RamTypeOK
  <2>3. cp' = [src |-> cp.src, page |-> cp.page, col |-> cp.col, buf |-> cp.buf,
               dst |-> SamePlaneUnused(cp.src), pg |-> 0]
    BY <1>0, <1>1 DEF CopyFind, Copies
  <2>4. cp' \in Copies /\ cp'.src \in Block /\ cp'.dst \in Block /\ cp'.pg = 0
    BY <1>0, <2>1, <2>2, <2>3, GeometryAssumption DEF Copies
  <2>5. FlashTypeOK' /\ RamTypeOK' /\ JobTypeOK' /\ loop' \in Loops
    BY <1>0, <1>1, <2>2, UntouchedType DEF CopyFind, RamTypeOK, JobTypeOK
  <2>6. pc' = "cpPage" /\ job' = job
    BY <1>1 DEF CopyFind
  <2>7. ControlOK'
    BY <2>1, <2>4, <2>6, GeometryAssumption DEF ControlOK, PCs, Copying, Refreshing
  <2> QED BY <2>4, <2>5, <2>7 DEF TypeOK
<1>2. ASSUME CopyNoBlock PROVE TypeOK'
  <2>1. cp.src \in Block /\ job.i + job.w <= job.len
    BY <1>2 DEF CopyNoBlock, TypeOK, ControlOK
  <2>2. FlashTypeOK' /\ RamTypeOK'
    BY <1>0, <1>2, UntouchedType, GeometryAssumption DEF CopyNoBlock, RamTypeOK
  <2>3. CASE pc' = "ready" /\ job' = Return("error") /\ cp' = NoCopy /\ UNCHANGED loop
    <3>1. job' \in Jobs /\ job'.i = 0 /\ job'.len = 0 /\ job'.kind = "none"
      BY <2>3, Resets DEF Return, Idle
    <3>2. JobTypeOK' /\ cp' \in Copies /\ loop' \in Loops
      BY <1>0, <2>3, <3>1, Resets DEF JobTypeOK
    <3>3. ControlOK'
      BY <2>3 DEF ControlOK, PCs, Copying, Refreshing
    <3> QED BY <2>2, <3>2, <3>3 DEF TypeOK
  <2>4. CASE pc' = "rfBlank" /\ loop' = NoLoop /\ UNCHANGED <<job, cp>>
    <3>1. JobTypeOK' /\ cp' \in Copies /\ loop' \in Loops
      BY <1>0, <2>4, Resets DEF JobTypeOK
    <3>2. ControlOK'
      BY <2>1, <2>4 DEF ControlOK, PCs, Copying, Refreshing
    <3> QED BY <2>2, <3>1, <3>2 DEF TypeOK
  <2> QED BY <1>2, <2>3, <2>4 DEF CopyNoBlock
<1>3. ASSUME CopyPageStep PROVE TypeOK'
  <2> DEFINE w == IF cp.pg >= cp.page THEN Least(Len(cp.buf), PageSectors - cp.col) ELSE 0
  <2>1. cp.src \in Block /\ cp.dst \in Block /\ job.i + job.w <= job.len /\ cp.pg < Pages
    BY <1>3 DEF CopyPageStep, TypeOK, ControlOK, Copying
  <2>2. cp.buf \in Seq(Val) /\ cp.col \in 0 .. PageSectors - 1 /\ cp.pg \in 0 .. Pages
        /\ cp.page \in Nat
    BY <1>0 DEF Copies
  <2>3. w \in Nat /\ w <= Len(cp.buf)
    BY <2>2, GeometryAssumption DEF Least
  <2>4. SubSeq(cp.buf, 1, w) \in Seq(Val) /\ SubSeq(cp.buf, w + 1, Len(cp.buf)) \in Seq(Val)
    <3> HIDE DEF w
    <3> QED BY <2>2, <2>3
  <2>5. \/ CopyPage(cp.src, cp.dst, cp.pg, cp.col, SubSeq(cp.buf, 1, w))
        \/ UNCHANGED flashVars
    BY <1>3 DEF CopyPageStep
  <2>6. /\ cp' = [cp EXCEPT !.pg = @ + 1, !.col = IF w > 0 THEN 0 ELSE @,
                            !.buf = SubSeq(@, w + 1, Len(@))]
        /\ pc' \in {"cpMark", "cpUsed", "cpPage"}
        /\ pc' = "cpPage" => cp.pg # Pages - 1
        /\ UNCHANGED <<ramVars, job, loop, cap>>
    BY <1>3 DEF CopyPageStep
  <2>7. FlashTypeOK'
    <3>1. cp.pg \in Nat /\ cp.col \in Nat
      BY <2>2
    <3> HIDE DEF w
    <3> QED BY <1>0, <2>1, <2>4, <2>5, <3>1, CopyPageType, UntouchedType
  <2>8. cp' = [src |-> cp.src, page |-> cp.page, col |-> IF w > 0 THEN 0 ELSE cp.col,
               buf |-> SubSeq(cp.buf, w + 1, Len(cp.buf)), dst |-> cp.dst, pg |-> cp.pg + 1]
    <3> HIDE DEF w
    <3> QED BY <1>0, <2>6 DEF Copies
  <2>9. cp' \in Copies /\ cp'.src = cp.src /\ cp'.dst = cp.dst /\ cp'.pg = cp.pg + 1
    <3>1. (IF w > 0 THEN 0 ELSE cp.col) \in 0 .. PageSectors - 1
      BY <2>2, GeometryAssumption
    <3>2. cp.src \in 0 .. Blocks /\ cp.dst \in 0 .. Blocks
      BY <1>0 DEF Copies
    <3>3. cp.pg + 1 \in 0 .. Pages
      BY <2>1, <2>2, GeometryAssumption
    <3> HIDE DEF w
    <3> QED BY <2>2, <2>4, <2>8, <3>1, <3>2, <3>3 DEF Copies
  <2>10. RamTypeOK' /\ JobTypeOK' /\ loop' \in Loops
    <3> HIDE DEF w
    <3> QED BY <1>0, <2>6 DEF RamTypeOK, JobTypeOK, ramVars
  <2>11. ControlOK'
    <3> HIDE DEF w
    <3> QED BY <2>1, <2>2, <2>6, <2>9, GeometryAssumption DEF ControlOK, PCs, Copying, Refreshing
  <2> QED BY <2>7, <2>9, <2>10, <2>11 DEF TypeOK
<1>4. ASSUME CopyMark PROVE TypeOK'
  <2>1. cp.src \in Block /\ cp.dst \in Block /\ job.i + job.w <= job.len
    BY <1>4 DEF CopyMark, TypeOK, ControlOK, Copying
  <2>2. MarkPage(cp.dst, 0) /\ pc' = "cpMark2" /\ UNCHANGED <<ramVars, job, cp, loop, ghostVars>>
    BY <1>4 DEF CopyMark
  <2>3. FlashTypeOK'
    BY <1>0, <2>1, <2>2, MarkPageType
  <2>4. RamTypeOK' /\ JobTypeOK' /\ cp' \in Copies /\ loop' \in Loops
    BY <1>0, <2>2 DEF RamTypeOK, JobTypeOK, ghostVars, ramVars
  <2>5. ControlOK'
    BY <2>1, <2>2 DEF ControlOK, PCs, Copying, Refreshing
  <2> QED BY <2>3, <2>4, <2>5 DEF TypeOK
<1>7. ASSUME CopyMark2 PROVE TypeOK'
  <2>1. cp.src \in Block /\ cp.dst \in Block /\ job.i + job.w <= job.len
    BY <1>7 DEF CopyMark2, TypeOK, ControlOK, Copying
  <2>2. /\ MarkPage(cp.dst, 1) /\ CreateLut(bad', tag) /\ pc' = "cpFind"
        /\ UNCHANGED <<cur, job, cp, loop, cap>>
    BY <1>7 DEF CopyMark2
  <2>3. FlashTypeOK'
    BY <1>0, <2>1, <2>2, MarkPageType
  <2>4. lut' \in [Block -> 0 .. Blocks] /\ valid' \in 0 .. Blocks /\ good' \in 0 .. Blocks
    BY <1>0, <2>2, CreateLutType DEF RamTypeOK, CreateLut
  <2>5. RamTypeOK' /\ JobTypeOK' /\ cp' \in Copies /\ loop' \in Loops
    BY <1>0, <2>2, <2>4 DEF RamTypeOK, JobTypeOK
  <2>6. ControlOK'
    BY <2>1, <2>2 DEF ControlOK, PCs, Copying, Refreshing
  <2> QED BY <2>3, <2>5, <2>6 DEF TypeOK
<1>5. ASSUME CopyUsed PROVE TypeOK'
  <2>1. cp.src \in Block /\ cp.dst \in Block /\ job.i + job.w <= job.len
    BY <1>5 DEF CopyUsed, TypeOK, ControlOK, Copying
  <2>2. /\ MarkUsed(cp.dst) \/ UNCHANGED flashVars
        /\ pc' = "cpErase" /\ UNCHANGED <<ramVars, job, cp, loop, ghostVars>>
    BY <1>5 DEF CopyUsed
  <2>3. FlashTypeOK'
    BY <1>0, <2>1, <2>2, MarkUsedType, UntouchedType
  <2>4. RamTypeOK' /\ JobTypeOK' /\ cp' \in Copies /\ loop' \in Loops
    BY <1>0, <2>2 DEF RamTypeOK, JobTypeOK, ghostVars, ramVars
  <2>5. ControlOK'
    BY <2>1, <2>2 DEF ControlOK, PCs, Copying, Refreshing
  <2> QED BY <2>3, <2>4, <2>5 DEF TypeOK
<1>6. ASSUME CopyErase PROVE TypeOK'
  <2> DEFINE at == {l \in Block : lut[l] = cp.src}
  <2>1. cp.src \in Block /\ cp.dst \in Block /\ job.i + job.w <= job.len
    BY <1>6 DEF CopyErase, TypeOK, ControlOK, Copying
  <2>2. /\ Erase(cp.src) \/ UNCHANGED flashVars
        /\ lut' = IF at = {} THEN lut ELSE [lut EXCEPT ![Min(at)] = cp.dst]
        /\ UNCHANGED <<good, valid, cur, cap>>
    BY <1>6 DEF CopyErase
  <2>3. FlashTypeOK'
    BY <1>0, <2>1, <2>2, EraseType, UntouchedType
  <2>4. lut' \in [Block -> 0 .. Blocks]
    <3>1. cp.dst \in 0 .. Blocks /\ lut \in [Block -> 0 .. Blocks]
      BY <1>0 DEF Copies, RamTypeOK
    <3> HIDE DEF at
    <3> QED BY <2>2, <3>1
  <2>5. RamTypeOK'
    <3> HIDE DEF at
    <3> QED BY <1>0, <2>2, <2>4 DEF RamTypeOK
  <2> HIDE DEF at
  <2>6. CASE job.kind = "write"
    <3>1. pc' = "write" /\ Advance(job.w) /\ cp' = NoCopy /\ UNCHANGED loop
      BY <1>6, <2>6 DEF CopyErase
    <3>2. JobTypeOK' /\ job'.kind = "write" /\ cp' \in Copies /\ loop' \in Loops
      BY <1>0, <2>1, <2>6, <3>1, AdvanceType, Resets
    <3>3. ControlOK'
      BY <3>1, <3>2 DEF ControlOK, PCs, Copying, Refreshing
    <3> QED BY <2>3, <2>5, <3>2, <3>3 DEF TypeOK
  <2>7. CASE job.kind # "write"
    <3>1. pc' = "rfBlank" /\ loop' = NoLoop /\ UNCHANGED <<job, cp>>
      BY <1>6, <2>7 DEF CopyErase
    <3>2. JobTypeOK' /\ cp' \in Copies /\ loop' \in Loops
      BY <1>0, <3>1, Resets DEF JobTypeOK
    <3>3. ControlOK'
      BY <2>1, <3>1 DEF ControlOK, PCs, Copying, Refreshing
    <3> QED BY <2>3, <2>5, <3>2, <3>3 DEF TypeOK
  <2> QED BY <2>6, <2>7
<1> QED BY <1>1, <1>2, <1>3, <1>4, <1>5, <1>6, <1>7

\* The refresh of a block found weak by ftl_read_sectors.
LEMMA RefreshType ==
  TypeOK /\ (ReadRefresh \/ RefreshBlank \/ RefreshZero \/ RefreshFill \/ RefreshErase
             \/ RefreshMark \/ RefreshMark2)
    => TypeOK'
<1> SUFFICES ASSUME TypeOK
             PROVE  ReadRefresh \/ RefreshBlank \/ RefreshZero \/ RefreshFill \/ RefreshErase
                      \/ RefreshMark \/ RefreshMark2 => TypeOK'
  OBVIOUS
<1>0. /\ job \in Jobs /\ job.i \in Nat /\ job.len \in Nat /\ job.w \in Nat
      /\ cp \in Copies /\ loop \in Loops /\ FlashTypeOK /\ RamTypeOK /\ JobTypeOK
  BY DEF TypeOK, JobTypeOK, Jobs
<1>1. ASSUME pc \in Refreshing
      PROVE  cp.src \in Block /\ job.i + job.w <= job.len
  BY <1>1 DEF TypeOK, ControlOK
<1>2. ASSUME ReadRefresh PROVE TypeOK'
  <2> DEFINE row == [k \in 1 .. BlockSectors |-> main[HereBlk][k - 1]]
             buf == SubSeq(row, HereCell + 1, HereCell + InPage)
  <2>1. HereBlk \in Block /\ HereCell \in Cell /\ InPage \in Nat /\ job.i + InPage <= job.len
    BY <1>2, HereTypes DEF ReadRefresh
  <2>2. BlockSectors \in Nat /\ PageSectors \in Nat
    BY GeometryAssumption DEF BlockSectors
  <2>3. row \in Seq(Val)
    <3>1. \A k \in 1 .. BlockSectors : k - 1 \in Cell
      BY <2>2 DEF Cell
    <3>2. \A k \in 1 .. BlockSectors : main[HereBlk][k - 1] \in Val
      BY <1>0, <2>1, <3>1 DEF FlashTypeOK
    <3>3. row \in [1 .. BlockSectors -> Val]
      BY <3>2
    <3> HIDE DEF row
    <3> QED BY <2>2, <3>3
  <2>4. HereCell + InPage <= BlockSectors
    <3>1. HereCol = HereCell % PageSectors /\ InPage <= PageSectors - HereCol
      BY <1>0, <2>1, <2>2, GeometryAssumption DEF HereCol, InPage, Least, Cell
    <3> QED BY <2>1, <3>1, PageEnds
  <2>5. buf \in Seq(Val)
    <3>1. Len(row) = BlockSectors
      BY <2>2
    <3>2. HereCell \in Nat
      BY <2>1, <2>2 DEF Cell
    <3> HIDE DEF row
    <3> QED BY <2>1, <2>3, <2>4, <3>1, <3>2
  <2>6. StartCopy(InPage, buf) /\ UNCHANGED <<ramVars, loop, cap>> /\ FlashTypeOK'
    BY <1>0, <1>2, UntouchedType DEF ReadRefresh
  <2> HIDE DEF buf
  <2> QED BY <2>1, <2>5, <2>6, MoveType
<1>3. ASSUME RefreshBlank \/ RefreshZero \/ RefreshFill PROVE TypeOK'
  <2>1. cp.src \in Block /\ job.i + job.w <= job.len
    BY <1>1, <1>3 DEF RefreshBlank, RefreshZero, RefreshFill, Refreshing
  <2>2. FlashTypeOK'
    BY <1>0, <1>3, <2>1, EraseType, FillZeroType, UntouchedType
       DEF RefreshBlank, RefreshZero, RefreshFill
  <2>3. UNCHANGED <<ramVars, job, cp, cap>>
    BY <1>3 DEF RefreshBlank, RefreshZero, RefreshFill, ghostVars
  <2>4. RamTypeOK' /\ JobTypeOK' /\ cp' \in Copies
    BY <1>0, <2>3 DEF RamTypeOK, JobTypeOK, ramVars
  <2>5. loop' \in Loops /\ pc' \in Refreshing /\ (pc' = "rfFill" => loop'.n < Pages)
    <3>1. [loop EXCEPT !.i = @ + 1] \in Loops
      BY <1>0 DEF Loops
    <3>5. [NoLoop EXCEPT !.fail = loop.i = 3] \in Loops
      BY DEF Loops, NoLoop
    <3>2. CASE RefreshBlank
      <4>1. /\ loop' \in {NoLoop, [loop EXCEPT !.i = @ + 1], loop}
            /\ pc' \in {"rfZero", "rfBlank", "rfMark"}
        BY <3>2 DEF RefreshBlank
      <4> QED BY <1>0, <3>1, <4>1, Resets DEF Refreshing
    <3>3. CASE RefreshZero
      <4>1. CASE pc' = "rfFill" /\ loop' = [loop EXCEPT !.n = 0]
        <5>1. loop' = [i |-> loop.i, n |-> 0, fail |-> loop.fail]
          BY <1>0, <4>1 DEF Loops
        <5> QED BY <1>0, <4>1, <5>1, GeometryAssumption DEF Loops, Refreshing
      <4>2. \/ pc' = "rfFill" /\ loop' = [loop EXCEPT !.n = 0]
            \/ /\ loop' \in {[NoLoop EXCEPT !.fail = loop.i = 3], [loop EXCEPT !.i = @ + 1]}
               /\ pc' \in {"rfZero", "rfErase"}
        BY <3>3 DEF RefreshZero
      <4> QED BY <3>1, <3>5, <4>1, <4>2 DEF Refreshing
    <3>4. CASE RefreshFill
      <4>1. loop.n < Pages /\ loop.n \in Nat /\ loop.i \in Nat /\ loop.fail \in BOOLEAN
        BY <1>0, <3>4 DEF RefreshFill, TypeOK, ControlOK, Loops
      <4>2. \/ pc' = "rfZero" /\ loop' = [loop EXCEPT !.i = @ + 1, !.n = 0]
            \/ pc' = "rfFill" /\ loop' = [loop EXCEPT !.n = @ + 1] /\ loop.n # Pages - 1
        BY <3>4 DEF RefreshFill
      <4>3. \/ pc' = "rfZero" /\ loop' = [i |-> loop.i + 1, n |-> 0, fail |-> loop.fail]
            \/ /\ pc' = "rfFill" /\ loop.n # Pages - 1
               /\ loop' = [i |-> loop.i, n |-> loop.n + 1, fail |-> loop.fail]
        BY <1>0, <4>2 DEF Loops
      <4> QED BY <4>1, <4>3, GeometryAssumption DEF Loops, Refreshing
    <3> QED BY <1>3, <3>2, <3>3, <3>4
  <2>6. ControlOK'
    BY <2>1, <2>3, <2>5 DEF ControlOK, PCs, Copying, Refreshing
  <2> QED BY <2>2, <2>4, <2>5, <2>6 DEF TypeOK
<1>4. ASSUME RefreshErase PROVE TypeOK'
  <2>1. cp.src \in Block /\ job.i + job.w <= job.len
    BY <1>1, <1>4 DEF RefreshErase, Refreshing
  <2>2. FlashTypeOK' /\ RamTypeOK' /\ loop' \in Loops
    BY <1>0, <1>4, <2>1, Resets, EraseType, UntouchedType
       DEF RefreshErase, RamTypeOK, ramVars, ghostVars
  <2>3. CASE pc' = "rfMark" /\ UNCHANGED <<job, cp>>
    <3>1. JobTypeOK' /\ cp' \in Copies
      BY <1>0, <2>3 DEF JobTypeOK
    <3>2. ControlOK'
      BY <2>1, <2>3 DEF ControlOK, PCs, Copying, Refreshing
    <3> QED BY <2>2, <3>1, <3>2 DEF TypeOK
  <2>4. CASE pc' = "read" /\ Advance(job.w) /\ cp' = NoCopy
    <3>1. JobTypeOK' /\ cp' \in Copies
      BY <1>0, <2>1, <2>4, AdvanceType, Resets
    <3>2. ControlOK'
      BY <2>4 DEF ControlOK, PCs, Copying, Refreshing
    <3> QED BY <2>2, <3>1, <3>2 DEF TypeOK
  <2> QED BY <1>4, <2>3, <2>4 DEF RefreshErase
<1>5. ASSUME RefreshMark PROVE TypeOK'
  <2>1. cp.src \in Block /\ job.i + job.w <= job.len
    BY <1>1, <1>5 DEF RefreshMark, Refreshing
  <2>2. MarkPage(cp.src, 0) /\ pc' = "rfMark2" /\ UNCHANGED <<ramVars, job, cp, loop, ghostVars>>
    BY <1>5 DEF RefreshMark
  <2>3. FlashTypeOK'
    BY <1>0, <2>1, <2>2, MarkPageType
  <2>4. RamTypeOK' /\ JobTypeOK' /\ cp' \in Copies /\ loop' \in Loops
    BY <1>0, <2>2 DEF RamTypeOK, JobTypeOK, ghostVars, ramVars
  <2>5. ControlOK'
    BY <2>1, <2>2 DEF ControlOK, PCs, Copying, Refreshing
  <2> QED BY <2>3, <2>4, <2>5 DEF TypeOK
<1>6. ASSUME RefreshMark2 PROVE TypeOK'
  <2>1. cp.src \in Block /\ job.i + job.w <= job.len
    BY <1>1, <1>6 DEF RefreshMark2, Refreshing
  <2>2. /\ MarkPage(cp.src, 1) /\ CreateLut(bad', tag) /\ pc' = "read" /\ Advance(job.w)
        /\ cp' = NoCopy /\ loop' = NoLoop /\ UNCHANGED <<cur, ghostVars>>
    BY <1>6 DEF RefreshMark2
  <2>3. FlashTypeOK' /\ JobTypeOK' /\ cp' \in Copies /\ loop' \in Loops
    BY <1>0, <2>1, <2>2, MarkPageType, AdvanceType, Resets
  <2>4. lut' \in [Block -> 0 .. Blocks] /\ valid' \in 0 .. Blocks /\ good' \in 0 .. Blocks
    BY <1>0, <2>2, CreateLutType DEF RamTypeOK, CreateLut
  <2>5. RamTypeOK'
    BY <1>0, <2>2, <2>4 DEF RamTypeOK, ghostVars
  <2>6. ControlOK'
    BY <2>2 DEF ControlOK, PCs, Copying, Refreshing
  <2> QED BY <2>3, <2>5, <2>6 DEF TypeOK
<1> QED BY <1>2, <1>3, <1>4, <1>5, <1>6

\* A bit error, and a power cut, which resets all that is in RAM.
LEMMA EnvironmentType == TypeOK /\ (BitError \/ PowerCut) => TypeOK'
<1> SUFFICES ASSUME TypeOK PROVE BitError \/ PowerCut => TypeOK'
  OBVIOUS
<1>0. /\ FlashTypeOK /\ RamTypeOK /\ JobTypeOK /\ cp \in Copies /\ loop \in Loops
  BY DEF TypeOK
<1>1. ASSUME BitError PROVE TypeOK'
  <2>1. /\ \E b \in Block, k \in Cell : weak' = weak \cup {<<b, k>>}
        /\ pc = "ready" /\ UNCHANGED <<main, tag, used, bad, ramVars, pc, job, cp, loop, ghostVars>>
    BY <1>1 DEF BitError
  <2>2. FlashTypeOK'
    BY <1>0, <2>1 DEF FlashTypeOK
  <2>3. RamTypeOK' /\ JobTypeOK' /\ cp' \in Copies /\ loop' \in Loops
    BY <1>0, <2>1 DEF RamTypeOK, JobTypeOK, ramVars, ghostVars
  <2>4. ControlOK'
    BY <2>1 DEF ControlOK, PCs, Copying, Refreshing
  <2> QED BY <2>2, <2>3, <2>4 DEF TypeOK
<1>2. ASSUME PowerCut PROVE TypeOK'
  <2>1. /\ pc' = "off" /\ lut' = [l \in Block |-> 0] /\ good' = 0 /\ valid' = 0
        /\ cur' = NoBlock /\ job' = Idle /\ cp' = NoCopy /\ loop' = NoLoop
        /\ UNCHANGED <<flashVars, cap>>
    BY <1>2 DEF PowerCut
  <2>2. FlashTypeOK' /\ RamTypeOK' /\ cp' \in Copies /\ loop' \in Loops
    BY <1>0, <2>1, UntouchedType, Resets, GeometryAssumption DEF RamTypeOK, NoBlock
  <2>3. JobTypeOK'
    BY <2>1, Resets DEF JobTypeOK, Idle
  <2>4. ControlOK'
    BY <2>1 DEF ControlOK, PCs, Copying, Refreshing
  <2> QED BY <2>2, <2>3, <2>4 DEF TypeOK
<1> QED BY <1>1, <1>2

\* The chip as it leaves the factory, with the power off, is of its type.
LEMMA InitType == Init => TypeOK
<1> SUFFICES ASSUME Init PROVE TypeOK
  OBVIOUS
<1>1. FlashTypeOK
  <2>1. Erased \in [Cell -> Val]
    BY DEF Erased, Val
  <2>2. bad \in [{0, 1} -> SUBSET Block]
    BY ConfigAssumption DEF Init
  <2> QED BY <2>1, <2>2, GeometryAssumption DEF Init, FlashTypeOK, NoTag
<1>2. RamTypeOK /\ cp \in Copies /\ loop \in Loops
  BY Resets, GeometryAssumption DEF Init, RamTypeOK, NoBlock
<1>3. JobTypeOK
  BY Resets DEF Init, JobTypeOK, Idle
<1>4. ControlOK
  BY DEF Init, ControlOK, PCs, Copying, Refreshing
<1> QED BY <1>1, <1>2, <1>3, <1>4 DEF TypeOK

\* Every step of the layer and of its environment keeps the types.
LEMMA NextType == TypeOK /\ [Next]_vars => TypeOK'
<1> SUFFICES ASSUME TypeOK, [Next]_vars PROVE TypeOK'
  OBVIOUS
<1>1. CASE Step
  BY <1>1, BootType, FormatType, RequestType, WriteType, CopyType, RefreshType DEF Step
<1>2. CASE Request \/ BitError \/ PowerCut
  BY <1>2, RequestType, EnvironmentType
<1>3. CASE UNCHANGED vars
  <2>1. UNCHANGED <<flashVars, ramVars, pc, job, cp, loop, cap>>
    BY <1>3 DEF vars, ghostVars
  <2>2. FlashTypeOK' /\ RamTypeOK' /\ JobTypeOK' /\ cp' \in Copies /\ loop' \in Loops
    BY <2>1, UntouchedType DEF TypeOK, RamTypeOK, JobTypeOK, ramVars
  <2>3. HereBlk' = HereBlk
    BY <2>1, HereStays DEF ramVars
  <2>4. ControlOK'
    BY <2>1, <2>3 DEF TypeOK, ControlOK, ramVars
  <2> QED BY <2>2, <2>4 DEF TypeOK
<1> QED BY <1>1, <1>2, <1>3 DEF Next

\* In every state the layer reaches, its variables have their types, a request never runs
\* past its length, and a block being moved has a source and a destination on the chip,
\* whatever the chip's size, the faults and the power cuts.
THEOREM TypeCorrect == Spec => []TypeOK
BY InitType, NextType, PTL DEF Spec

-----------------------------------------------------------------------------
(***************************************************************************)
(* Second part.  What the translation layer keeps of a logical block: once *)
(* a format has handed it out, some sound block of the chip carries its    *)
(* number, through power cuts, commands that time out and bad-block marks  *)
(* that are not carried out, in whole or by one page.  The exception is a  *)
(* block that was refreshed with no unused block left, or moved to one the *)
(* search takes for unused although its second page is marked (adrift).    *)
(*                                                                         *)
(* The inductive invariant is Safe of module FtlInv, on top of TypeOK.     *)
(***************************************************************************)
(***************************************************************************)
(* Carriers and the table                                                  *)
(***************************************************************************)
\* A carrier is a block with the tag and no mark.
LEMMA CarrierIs ==
  ASSUME NEW bd, NEW tg, NEW l, NEW b
  PROVE  b \in Carriers(l, bd, tg) <=> (b \in Block /\ b \notin bd[0] \cup bd[1] /\ tg[b] = l)
BY DEF Carriers

\* The table is built from the carriers: an entry leads to one, or there is none.
LEMMA LutIsCarrier ==
  ASSUME NEW bd, NEW tg, NEW l \in Block
  PROVE  /\ LutOf(bd, tg)[l] \in Block => LutOf(bd, tg)[l] \in Carriers(l, bd, tg)
         /\ Carriers(l, bd, tg) # {} => LutOf(bd, tg)[l] \in Block
<1>1. Carriers(l, bd, tg) \in SUBSET Block
  BY DEF Carriers
<1>2. Carriers(l, bd, tg) # {} => Max(Carriers(l, bd, tg)) \in Carriers(l, bd, tg)
  BY <1>1, BlockExtremes
<1>3. LutOf(bd, tg)[l] = IF Carriers(l, bd, tg) = {} THEN NoBlock ELSE Max(Carriers(l, bd, tg))
  BY DEF LutOf
<1>4. NoBlock \notin Block
  BY GeometryAssumption DEF NoBlock, Block
<1> QED BY <1>1, <1>2, <1>3, <1>4

\* valid_blocknum is the first number nobody carries; the last one never is carried.
LEMMA ValidIsFirstHole ==
  ASSUME NEW bd, NEW tg, NEW v, \A b \in Block : tg[b] # Blocks - 1
  PROVE  /\ ValidOf(LutOf(bd, tg), v) \in Block
         /\ \A l \in 0 .. ValidOf(LutOf(bd, tg), v) - 1 : Carriers(l, bd, tg) # {}
         /\ \A n \in 0 .. Blocks :
              (\A l \in 0 .. n - 1 : Carriers(l, bd, tg) # {}) => n <= ValidOf(LutOf(bd, tg), v)
<1> DEFINE table == LutOf(bd, tg)
           holes == {l \in Block : table[l] = NoBlock}
<1>1. Carriers(Blocks - 1, bd, tg) = {}
  BY DEF Carriers
<1>2. Blocks - 1 \in Block
  BY GeometryAssumption DEF Block
<1>3. Blocks - 1 \in holes
  BY <1>1, <1>2 DEF LutOf
<1>4. Min(holes) \in holes /\ \A l \in holes : Min(holes) <= l
  BY <1>3, BlockExtremes
<1>5. ValidOf(table, v) = Min(holes)
  BY <1>3 DEF ValidOf
<1>6. \A l \in Block : l \notin holes <=> Carriers(l, bd, tg) # {}
  <2>1. NoBlock \notin Block
    BY GeometryAssumption DEF NoBlock, Block
  <2> SUFFICES ASSUME NEW l \in Block PROVE l \notin holes <=> Carriers(l, bd, tg) # {}
    OBVIOUS
  <2>2. Carriers(l, bd, tg) # {} => table[l] \in Block
    BY LutIsCarrier
  <2>3. Carriers(l, bd, tg) = {} => table[l] = NoBlock
    BY DEF LutOf
  <2> QED BY <2>1, <2>2, <2>3
<1>7. ValidOf(table, v) \in Block
  BY <1>4, <1>5
<1>8. \A l \in 0 .. ValidOf(table, v) - 1 : l \in Block /\ l \notin holes
  BY <1>4, <1>5, <1>7, GeometryAssumption DEF Block
<1>9. \A n \in 0 .. Blocks : (\A l \in 0 .. n - 1 : Carriers(l, bd, tg) # {}) => n <= Min(holes)
  <2>1. Min(holes) \in Block /\ Carriers(Min(holes), bd, tg) = {}
    BY <1>4, <1>6
  <2> HIDE DEF holes
  <2> QED BY <2>1, GeometryAssumption DEF Block
<1> HIDE DEF holes, table
<1>10. QED BY <1>5, <1>6, <1>7, <1>8, <1>9 DEF table

-----------------------------------------------------------------------------
(***************************************************************************)
(* Steps that send nothing to the spare areas                              *)
(***************************************************************************)
\* A chip fresh from the factory has handed out nothing.
LEMMA SafeInit == Init => Safe
<1> SUFFICES ASSUME Init PROVE Safe
  OBVIOUS
<1>1. pc = "off" /\ cap = 0 /\ tag = [b \in Block |-> NoTag]
  BY DEF Init
<1>2. TableSafe /\ MoveSafe /\ RefreshSafe
  BY <1>1 DEF TableSafe, Mounted, MoveSafe, RefreshSafe, Copying, Refreshing
<1>3. FormatSafe /\ NoLbnLost
  BY <1>1, GeometryAssumption DEF FormatSafe, NoLbnLost, NoTag, Formatting
<1> QED BY <1>2, <1>3 DEF Safe

\* The parts of Safe that speak of the spare areas and of the ghosts alone.
LEMMA Untagged ==
  ASSUME Safe, UNCHANGED <<tag, bad, cap>>, adrift \subseteq adrift'
  PROVE  /\ NoLbnLost' /\ Bad' = Bad /\ Forsaken \subseteq Forsaken'
         /\ \A b \in Block : tag'[b] # Blocks - 1
         /\ cap' = 0 \/ cap' >= MinBlocks
BY DEF Safe, NoLbnLost, FormatSafe, Carriers, Bad, Forsaken

\* A step that leaves the layer outside a move, a refresh and a format.
LEMMA QuietStep ==
  ASSUME TypeOK, Safe, UNCHANGED <<tag, bad, cap>>, adrift \subseteq adrift',
         pc' \in {"off", "ready", "write", "wrUsed", "read"},
         pc' = "off" \/ (Mounted /\ pc \notin {"cpMark2", "rfMark2"} /\ UNCHANGED lut)
  PROVE  Safe'
<1>1. TableSafe'
  BY Untagged DEF Safe, TableSafe, Mounted
<1>2. MoveSafe' /\ RefreshSafe'
  BY DEF MoveSafe, RefreshSafe, Copying, Refreshing
<1>3. FormatSafe'
  BY Untagged DEF FormatSafe, Formatting
<1> QED BY <1>1, <1>2, <1>3, Untagged DEF Safe

\* A step into a move: the source is the block the table leads to.
LEMMA MoveBegins ==
  ASSUME TypeOK, Safe, UNCHANGED <<tag, bad, cap, lut>>, adrift \subseteq adrift', Mounted,
         pc \notin {"cpMark2", "rfMark2"}, HereBlk \in Block, pc' = "cpFind", cp'.src = HereBlk
  PROVE  Safe'
<1>1. TableSafe'
  BY Untagged DEF Safe, TableSafe
<1>2. tag[HereBlk] \notin Forsaken => HereBlk \notin Bad
  <2>1. \E l \in Block : HereBlk = lut[l]
    BY GeometryAssumption DEF HereBlk, Pbn, NoBlock, Block
  <2> QED BY <2>1 DEF Safe, TableSafe
<1>3. MoveSafe' /\ RefreshSafe'
  BY <1>2, Untagged DEF MoveSafe, RefreshSafe, Copying, Refreshing
<1>4. FormatSafe'
  BY Untagged DEF FormatSafe, Formatting
<1> QED BY <1>1, <1>3, <1>4, Untagged DEF Safe

\* A request begins: only the request, and what is promised, change.
LEMMA RequestEffect ==
  ASSUME Request
  PROVE  /\ UNCHANGED <<main, weak, tag, used, bad, lut, good, valid, cur, cp, loop, torn, adrift, cap>>
         /\ pc = "ready" /\ pc' \in {"write", "read"}
<1>1. ASSUME NEW s \in Starts, NEW n \in 1 .. MaxLen, NEW d \in [1 .. n -> Datum], BeginWrite(s, d)
      PROVE  /\ UNCHANGED <<main, weak, tag, used, bad, lut, good, valid, cur, cp, loop, torn, adrift, cap>>
             /\ pc = "ready" /\ pc' \in {"write", "read"}
  BY <1>1 DEF BeginWrite, flashVars, ramVars
<1>2. ASSUME NEW s \in Starts, NEW n \in 1 .. MaxLen, BeginRead(s, n)
      PROVE  /\ UNCHANGED <<main, weak, tag, used, bad, lut, good, valid, cur, cp, loop, torn, adrift, cap>>
             /\ pc = "ready" /\ pc' \in {"write", "read"}
  BY <1>2 DEF BeginRead, flashVars, ramVars, ghostVars
<1> QED BY <1>1, <1>2 DEF Request

\* The steps of a request that do not move a block, and the environment.
LEMMA RequestSafe ==
  TypeOK /\ Safe /\ (Request \/ WriteDone \/ Outside \/ ReadDone \/ ReadPage
                       \/ BitError \/ PowerCut)
    => Safe'
<1> SUFFICES ASSUME TypeOK, Safe
             PROVE  Request \/ WriteDone \/ Outside \/ ReadDone \/ ReadPage
                      \/ BitError \/ PowerCut => Safe'
  OBVIOUS
<1>1. CASE Request \/ WriteDone \/ Outside \/ ReadDone \/ ReadPage \/ BitError
  <2>1. /\ UNCHANGED <<tag, bad, cap, adrift, lut>> /\ Mounted
        /\ pc \notin {"cpMark2", "rfMark2"} /\ pc' \in {"ready", "write", "read"}
    <3>1. CASE Request
      BY <3>1, RequestEffect DEF Mounted, Formatting
    <3>2. CASE WriteDone \/ Outside \/ ReadDone \/ ReadPage \/ BitError
      BY <3>2 DEF WriteDone, Outside, ReadDone, ReadPage, BitError, flashVars, ramVars, ghostVars,
                  Mounted, Formatting
    <3> QED BY <1>1, <3>1, <3>2
  <2> QED BY <2>1, QuietStep
<1>2. CASE PowerCut
  <2>1. UNCHANGED <<tag, bad, cap, adrift>> /\ pc' = "off"
    BY <1>2 DEF PowerCut, flashVars
  <2> QED BY <2>1, QuietStep
<1> QED BY <1>1, <1>2

\* The steps of a write, and the step of a read, that may begin a move.
LEMMA WriteSafe ==
  TypeOK /\ Safe /\ (WriteInPlace \/ WriteMark \/ WriteMove \/ ReadRefresh) => Safe'
<1> SUFFICES ASSUME TypeOK, Safe
             PROVE  WriteInPlace \/ WriteMark \/ WriteMove \/ ReadRefresh => Safe'
  OBVIOUS
<1>1. CASE WriteInPlace
  <2>1. UNCHANGED <<tag, bad, cap, lut>> /\ adrift \subseteq adrift' /\ Mounted
        /\ pc \notin {"cpMark2", "rfMark2"}
    BY <1>1 DEF WriteInPlace, StartCopy, Program, flashVars, ramVars, Mounted, Formatting
  <2>2. HereBlk \in Block
    BY <1>1, HereTypes DEF WriteInPlace
  <2>3. pc = "write" /\ (pc' = "wrUsed" \/ pc' = pc \/ StartCopy(InBlock, Chunk(InBlock)))
    BY <1>1 DEF WriteInPlace
  <2>4. CASE StartCopy(InBlock, Chunk(InBlock))
    BY <2>1, <2>2, <2>4, MoveBegins DEF StartCopy
  <2>5. CASE pc' \in {"write", "wrUsed"}
    BY <2>1, <2>5, QuietStep
  <2> QED BY <2>3, <2>4, <2>5
<1>2. CASE WriteMark
  <2>1. UNCHANGED <<tag, bad, cap, lut>> /\ adrift \subseteq adrift' /\ Mounted
        /\ pc \notin {"cpMark2", "rfMark2"}
    BY <1>2 DEF WriteMark, MarkUsed, flashVars, ramVars, Mounted, Formatting
  <2>2. HereBlk \in Block
    BY <1>2 DEF WriteMark, TypeOK, ControlOK
  <2>3. pc' = "write" \/ (pc' = "cpFind" /\ cp'.src = HereBlk)
    BY <1>2 DEF WriteMark
  <2>4. CASE pc' = "cpFind" /\ cp'.src = HereBlk
    BY <2>1, <2>2, <2>4, MoveBegins
  <2>5. CASE pc' = "write"
    BY <2>1, <2>5, QuietStep
  <2> QED BY <2>3, <2>4, <2>5
<1>3. CASE WriteMove \/ ReadRefresh
  <2>1. UNCHANGED <<tag, bad, cap, lut>> /\ adrift \subseteq adrift' /\ Mounted
        /\ pc \notin {"cpMark2", "rfMark2"} /\ pc' = "cpFind" /\ cp'.src = HereBlk
    BY <1>3 DEF WriteMove, ReadRefresh, StartCopy, flashVars, ramVars, Mounted, Formatting
  <2>2. HereBlk \in Block
    BY <1>3, HereTypes DEF WriteMove, ReadRefresh
  <2> QED BY <2>1, <2>2, MoveBegins
<1> QED BY <1>1, <1>2, <1>3

-----------------------------------------------------------------------------
(***************************************************************************)
(* A block is moved                                                        *)
(***************************************************************************)
\* ftl_find_same_plane_unused_block: the copy goes to a block without tag, and without
\* mark unless the number is given up; and when there is none, a read goes on, and the
\* block it refreshes is given up.
LEMMA FindSafe == TypeOK /\ Safe /\ (CopyFind \/ CopyNoBlock) => Safe'
<1> SUFFICES ASSUME TypeOK, Safe PROVE CopyFind \/ CopyNoBlock => Safe'
  OBVIOUS
<1>1. ASSUME CopyFind PROVE Safe'
  <2>1. cp.src \in Block /\ cur \in 0 .. Blocks /\ cp \in Copies
    BY <1>1 DEF CopyFind, TypeOK, ControlOK, RamTypeOK
  <2>2. /\ UNCHANGED <<tag, bad, cap, lut>> /\ Mounted /\ pc = "cpFind" /\ pc' = "cpPage"
        /\ cp' = [cp EXCEPT !.dst = SamePlaneUnused(cp.src), !.pg = 0]
        /\ adrift \subseteq adrift' /\ (cp'.dst \in bad[1] => tag[cp.src] \in adrift')
    BY <1>1 DEF CopyFind, flashVars, Mounted, Formatting
  <2>3. cp'.src = cp.src /\ cp'.dst = SamePlaneUnused(cp.src) /\ cp'.pg = 0
    BY <2>1, <2>2 DEF Copies
  <2>4. cp'.dst \in Block /\ cp'.dst \notin bad[0] /\ tag[cp'.dst] = NoTag
    BY <1>1, <2>1, <2>3, SamePlaneResult DEF CopyFind, Unused
  <2>5. MoveSafe'
    <3>1. tag[cp.src] \notin Forsaken' => cp.src \notin Bad' /\ cp'.dst \notin Bad'
      BY <2>2, <2>4, Untagged DEF Safe, MoveSafe, Forsaken, Bad
    <3> QED BY <2>2, <2>3, <2>4, <3>1 DEF MoveSafe, Copying
  <2>6. TableSafe' /\ RefreshSafe' /\ FormatSafe'
    BY <2>2, Untagged DEF Safe, TableSafe, RefreshSafe, Refreshing, FormatSafe, Formatting
  <2> QED BY <2>2, <2>5, <2>6, Untagged DEF Safe
<1>2. ASSUME CopyNoBlock PROVE Safe'
  <2>1. UNCHANGED <<tag, bad, cap, lut>> /\ Mounted /\ pc = "cpFind"
    BY <1>2 DEF CopyNoBlock, flashVars, Mounted, Formatting
  <2>2. CASE pc' = "ready" /\ adrift' = adrift
    BY <2>1, <2>2, QuietStep
  <2>3. CASE pc' = "rfBlank" /\ adrift' = adrift \cup {HereLbn, tag[cp.src]} /\ cp' = cp
    <3>1. RefreshSafe'
      <4> SUFFICES ASSUME NEW l \in 0 .. cap - 1, l \notin adrift'
                   PROVE  \E b \in Carriers(l, bad', tag') : b # cp'.src
        BY <2>1 DEF RefreshSafe
      <4>1. PICK b \in Carriers(l, bad, tag) : TRUE
        BY <2>3 DEF Safe, NoLbnLost
      <4>2. tag[b] = l /\ l # tag[cp.src]
        BY <2>3, <4>1 DEF Carriers
      <4> QED BY <2>1, <2>3, <4>1, <4>2
    <3>2. TableSafe' /\ MoveSafe' /\ FormatSafe'
      BY <2>1, <2>3, Untagged DEF Safe, TableSafe, MoveSafe, Copying, FormatSafe, Formatting
    <3> QED BY <2>1, <2>3, <3>1, <3>2, Untagged DEF Safe
  <2> QED BY <1>2, <2>2, <2>3 DEF CopyNoBlock
<1> QED BY <1>1, <1>2

\* A command that returns success was carried out.
LEMMA OkIsDone ==
  ASSUME NEW kind, NEW o \in Ends(kind)
  PROVE  o.ok => o.done
<1>1. CASE o = [ok |-> TRUE, done |-> TRUE]
  BY <1>1
<1>2. CASE o \in [ok : {FALSE}, done : BOOLEAN]
  <2>1. o.ok \in {FALSE}
    BY <1>2
  <2> QED BY <2>1
<1> QED BY <1>1, <1>2 DEF Ends, Outcomes

\* What a page copied does to the spare areas: with page 0 the copy takes the number of
\* the source, and with each page its bad-block mark, which a source in use has not.
LEMMA PageEffect ==
  ASSUME TypeOK, Safe, CopyPageStep
  PROVE  /\ cp.src \in Block /\ cp.dst \in Block /\ cp \in Copies /\ cp.pg \in Nat /\ pc = "cpPage"
         /\ UNCHANGED <<cap, adrift, lut>> /\ pc' \in {"cpMark", "cpUsed", "cpPage"}
         /\ cp'.src = cp.src /\ cp'.dst = cp.dst /\ cp'.pg = cp.pg + 1
         /\ tag[cp.src] # NoTag => cp.dst # cp.src
         /\ tag[cp.src] \notin Forsaken => cp.src \notin Bad /\ cp.dst \notin Bad /\ bad' = bad
         /\ cp.pg = 0 => tag[cp.dst] = NoTag
         /\ cp.pg > 0 => tag[cp.dst] = tag[cp.src]
         /\ \A b \in Block : b # cp.dst => tag'[b] = tag[b]
         /\ tag'[cp.dst] \in {tag[cp.dst], tag[cp.src]}
         /\ tag'[cp.src] = tag[cp.src]
         /\ pc' # "cpMark" => tag'[cp.dst] = tag[cp.src]
         /\ tag[cp.src] = NoTag => tag' = tag
         /\ Bad \subseteq Bad' /\ Bad' \subseteq Bad \cup {cp.dst}
<1> DEFINE src == cp.src
           dst == cp.dst
<1>1. src \in Block /\ dst \in Block /\ cp \in Copies /\ cp.pg \in Nat /\ pc = "cpPage"
      /\ tag \in [Block -> 0 .. Blocks] /\ bad[0] \in SUBSET Block /\ bad[1] \in SUBSET Block
  BY DEF CopyPageStep, TypeOK, ControlOK, Copying, Copies, FlashTypeOK
<1>2. /\ UNCHANGED <<cap, adrift, lut>> /\ pc' \in {"cpMark", "cpUsed", "cpPage"}
      /\ cp'.src = src /\ cp'.dst = dst /\ cp'.pg = cp.pg + 1
  <2>1. cp'.src = src /\ cp'.dst = dst
    BY <1>1 DEF CopyPageStep, Copies
  <2>2. cp'.pg = cp.pg + 1
    BY <1>1 DEF CopyPageStep, Copies
  <2> QED BY <2>1, <2>2 DEF CopyPageStep, ramVars
<1>3. /\ tag[src] # NoTag => dst # src
      /\ tag[src] \notin Forsaken => src \notin Bad /\ dst \notin Bad
      /\ cp.pg = 0 => tag[dst] = NoTag
      /\ cp.pg > 0 => tag[dst] = tag[src]
  BY <1>1 DEF Safe, MoveSafe, Copying
<1>4. \/ tag' = tag /\ bad' = bad /\ pc' = "cpMark"
      \/ /\ tag' = IF cp.pg = 0 THEN [tag EXCEPT ![dst] = tag[src]] ELSE tag
         /\ bad' = [q \in {0, 1} |-> IF q = cp.pg /\ src \in bad[q] THEN bad[q] \cup {dst}
                                     ELSE bad[q]]
  <2> DEFINE w == IF cp.pg >= cp.page THEN Least(Len(cp.buf), PageSectors - cp.col) ELSE 0
  <2>1. PICK o \in Ends("program") :
          /\ IF o.done THEN CopyPage(src, dst, cp.pg, cp.col, SubSeq(cp.buf, 1, w))
                       ELSE UNCHANGED flashVars
          /\ ~o.ok => pc' = "cpMark"
    BY DEF CopyPageStep
  <2>2. o.ok => o.done
    BY OkIsDone
  <2>3. CASE o.done
    BY <2>1, <2>3 DEF CopyPage
  <2>4. CASE ~o.done
    BY <2>1, <2>2, <2>4 DEF flashVars
  <2> QED BY <2>3, <2>4
<1> HIDE DEF src, dst
<1>5. /\ \A b \in Block : b # dst => tag'[b] = tag[b]
      /\ tag'[dst] \in {tag[dst], tag[src]}
      /\ tag'[src] = tag[src]
      /\ pc' # "cpMark" => tag'[dst] = tag[src]
  BY <1>1, <1>3, <1>4
<1>6. Bad \subseteq Bad' /\ Bad' \subseteq Bad \cup {dst}
  <2>1. CASE bad' = bad
    BY <2>1 DEF Bad
  <2>2. CASE bad' = [q \in {0, 1} |-> IF q = cp.pg /\ src \in bad[q] THEN bad[q] \cup {dst}
                                      ELSE bad[q]]
    <3>1. bad'[0] = IF 0 = cp.pg /\ src \in bad[0] THEN bad[0] \cup {dst} ELSE bad[0]
      BY <2>2
    <3>2. bad'[1] = IF 1 = cp.pg /\ src \in bad[1] THEN bad[1] \cup {dst} ELSE bad[1]
      BY <2>2
    <3> QED BY <3>1, <3>2 DEF Bad
  <2> QED BY <1>4, <2>1, <2>2
<1>7. tag[src] \notin Forsaken => bad' = bad
  <2>1. src \notin Bad => bad' = bad
    <3>1. bad = [q \in {0, 1} |-> bad[q]]
      BY DEF TypeOK, FlashTypeOK
    <3> QED BY <1>4, <3>1 DEF Bad
  <2> QED BY <1>3, <2>1
<1>8. tag[src] = NoTag => tag' = tag
  <2>1. tag[dst] = tag[src] => [tag EXCEPT ![dst] = tag[src]] = tag
    BY <1>1
  <2> QED BY <1>3, <1>4, <2>1
<1> QED BY <1>1, <1>2, <1>3, <1>5, <1>6, <1>7, <1>8 DEF src, dst

\* Page by page, nothing is lost.
LEMMA PageSafe == TypeOK /\ Safe /\ CopyPageStep => Safe'
<1> SUFFICES ASSUME TypeOK, Safe, CopyPageStep PROVE Safe'
  OBVIOUS
<1> DEFINE src == cp.src
           dst == cp.dst
<1>1. /\ src \in Block /\ dst \in Block /\ cp.pg \in Nat /\ pc = "cpPage"
      /\ UNCHANGED <<cap, adrift, lut>> /\ pc' \in {"cpMark", "cpUsed", "cpPage"}
      /\ cp'.src = src /\ cp'.dst = dst /\ cp'.pg = cp.pg + 1
  BY PageEffect
<1>2. /\ tag[src] # NoTag => dst # src
      /\ tag[src] \notin Forsaken => src \notin Bad /\ dst \notin Bad /\ Bad' = Bad
      /\ cp.pg = 0 => tag[dst] = NoTag
      /\ cp.pg > 0 => tag[dst] = tag[src]
  BY PageEffect DEF Bad
<1>3. /\ \A b \in Block : b # dst => tag'[b] = tag[b]
      /\ tag'[dst] \in {tag[dst], tag[src]} /\ tag'[src] = tag[src]
      /\ pc' # "cpMark" => tag'[dst] = tag[src]
      /\ Bad' \subseteq Bad \cup {dst} /\ Forsaken' = Forsaken
  BY <1>1, PageEffect DEF Forsaken
<1> HIDE DEF src, dst
<1>4. tag[dst] \notin Forsaken \/ tag'[dst] \notin Forsaken => tag[src] \notin Forsaken
  BY <1>1, <1>2, <1>3 DEF Forsaken
<1>5. TableSafe'
  <2> SUFFICES ASSUME NEW l \in Block, lut[l] \in Block, tag'[lut[l]] \notin Forsaken
               PROVE  lut[l] \notin Bad'
    BY <1>1, <1>3 DEF TableSafe
  <2>1. CASE lut[l] = dst
    BY <1>2, <1>4, <2>1
  <2>2. CASE lut[l] # dst
    <3>1. Mounted /\ pc \notin {"cpMark2", "rfMark2"}
      BY <1>1 DEF Mounted, Formatting
    <3>2. lut[l] \notin Bad
      BY <1>3, <2>2, <3>1 DEF Safe, TableSafe
    <3> QED BY <1>3, <2>2, <3>2
  <2> QED BY <2>1, <2>2
<1>6. MoveSafe'
  <2>1. cp'.src = src /\ cp'.dst = dst /\ cp'.pg > 0
    BY <1>1
  <2>2. tag'[src] \notin Forsaken' => src \notin Bad' /\ dst \notin Bad'
    BY <1>2, <1>3
  <2>3. pc' # "cpMark" => tag'[dst] = tag'[src]
    BY <1>3
  <2>4. pc' = "cpMark" => tag'[dst] \in {NoTag, tag'[src]}
    BY <1>1, <1>2, <1>3
  <2>5. tag'[src] # NoTag => dst # src
    BY <1>2, <1>3
  <2> QED BY <1>1, <2>1, <2>2, <2>3, <2>4, <2>5 DEF MoveSafe, Copying
<1>7. NoLbnLost'
  <2> SUFFICES ASSUME NEW l \in 0 .. cap - 1, l \notin adrift
               PROVE  Carriers(l, bad', tag') # {}
    BY <1>1 DEF NoLbnLost
  <2>1. PICK b \in Carriers(l, bad, tag) : TRUE
    BY DEF Safe, NoLbnLost
  <2>2. b \in Block /\ b \notin Bad /\ tag[b] = l /\ l \notin Forsaken
    <3>1. l # NoTag
      BY GeometryAssumption DEF TypeOK, RamTypeOK, NoTag
    <3> QED BY <2>1, <3>1 DEF Carriers, Bad, Forsaken
  <2>3. tag'[b] = l /\ b \notin Bad'
    <3>1. CASE b = dst
      BY <1>1, <1>2, <1>3, <1>4, <2>2, <3>1 DEF Forsaken
    <3>2. CASE b # dst
      BY <1>3, <2>2, <3>2
    <3> QED BY <3>1, <3>2
  <2> QED BY <2>2, <2>3, CarrierIs DEF Bad
<1>8. RefreshSafe'
  BY <1>1 DEF RefreshSafe, Refreshing
<1>9. FormatSafe'
  BY <1>1, <1>3 DEF Safe, FormatSafe, Formatting
<1> QED BY <1>5, <1>6, <1>7, <1>8, <1>9 DEF Safe

\* ftl_create_lut leaves a table that leads to no marked block.
LEMMA TableBuilt ==
  ASSUME lut' = LutOf(bad', tag')
  PROVE  TableSafe'
<1> SUFFICES ASSUME NEW l \in Block, lut'[l] \in Block PROVE lut'[l] \notin Bad'
  BY DEF TableSafe
<1>1. lut'[l] \in Carriers(l, bad', tag')
  BY LutIsCarrier
<1> QED BY <1>1 DEF Carriers, Bad

\* A command of ftl_badblock_mark, carried out or not.
LEMMA MarkEffect ==
  ASSUME TypeOK, NEW b, NEW p \in {0, 1}, MarkPage(b, p)
  PROVE  /\ UNCHANGED <<main, weak, tag, used>>
         /\ bad[0] \subseteq bad'[0] /\ bad'[0] \subseteq bad[0] \cup {b}
         /\ Bad \subseteq Bad' /\ Bad' \subseteq Bad \cup {b}
<1>1. bad \in [{0, 1} -> SUBSET Block]
  BY DEF TypeOK, FlashTypeOK
<1>2. MarkBad(b, p) \/ UNCHANGED flashVars
  BY DEF MarkPage
<1>3. CASE MarkBad(b, p)
  <2>1. /\ bad'[0] = IF p = 0 THEN bad[0] \cup {b} ELSE bad[0]
        /\ bad'[1] = IF p = 1 THEN bad[1] \cup {b} ELSE bad[1]
    BY <1>1, <1>3 DEF MarkBad
  <2> QED BY <1>3, <2>1 DEF MarkBad, Bad
<1>4. CASE UNCHANGED flashVars
  BY <1>4 DEF flashVars, Bad
<1> QED BY <1>2, <1>3, <1>4

\* ftl_badblock_mark of the copy: the source still carries the number.
LEMMA MarkSafe == TypeOK /\ Safe /\ (CopyMark \/ CopyMark2) => Safe'
<1> SUFFICES ASSUME TypeOK, Safe, CopyMark \/ CopyMark2 PROVE Safe'
  OBVIOUS
<1> DEFINE src == cp.src
           dst == cp.dst
<1>1. src \in Block /\ dst \in Block /\ pc \in {"cpMark", "cpMark2"} /\ cap \in 0 .. Blocks
  BY DEF CopyMark, CopyMark2, TypeOK, ControlOK, Copying, RamTypeOK
<1>2. /\ tag' = tag /\ UNCHANGED <<cp, cap, adrift>>
      /\ Bad' \subseteq Bad \cup {dst} /\ Forsaken' = Forsaken
  BY MarkEffect DEF CopyMark, CopyMark2, ghostVars, Forsaken
<1>3. pc' = "cpMark2" \/ (pc' = "cpFind" /\ lut' = LutOf(bad', tag'))
  BY <1>2 DEF CopyMark, CopyMark2, CreateLut
<1>4. /\ tag[src] # NoTag => dst # src
      /\ tag[src] \notin Forsaken => src \notin Bad
      /\ tag[dst] \in {NoTag, tag[src]}
  BY <1>1 DEF Safe, MoveSafe, Copying
<1> HIDE DEF src, dst
<1>5. tag[src] \notin Forsaken => src \notin Bad' /\ dst # src
  BY <1>2, <1>4 DEF Forsaken
<1>6. TableSafe'
  BY <1>3, TableBuilt DEF TableSafe
<1>7. MoveSafe' /\ RefreshSafe'
  BY <1>2, <1>3, <1>4, <1>5 DEF MoveSafe, RefreshSafe, Copying, Refreshing, src, dst
<1>8. FormatSafe'
  BY <1>2, <1>3 DEF Safe, FormatSafe, Formatting
<1>9. NoLbnLost'
  <2> SUFFICES ASSUME NEW l \in 0 .. cap - 1, l \notin adrift
               PROVE  Carriers(l, bad', tag') # {}
    BY <1>2 DEF NoLbnLost
  <2>1. PICK b \in Carriers(l, bad, tag) : TRUE
    BY DEF Safe, NoLbnLost
  <2>2. b \in Block /\ b \notin Bad /\ tag[b] = l /\ l \notin Forsaken
    BY <1>1, <2>1, GeometryAssumption DEF Carriers, NoTag, Bad, Forsaken
  <2>3. \E c \in Block : c \notin Bad' /\ tag[c] = l
    <3>1. CASE b = dst
      BY <1>1, <1>4, <1>5, <2>2, <3>1 DEF Forsaken
    <3>2. CASE b # dst
      BY <1>2, <2>2, <3>2
    <3> QED BY <3>1, <3>2
  <2> QED BY <1>2, <2>3, CarrierIs DEF Bad
<1> QED BY <1>6, <1>7, <1>8, <1>9 DEF Safe

\* The source is erased only once the copy, on a sound block, carries its number.
LEMMA EraseSafe == TypeOK /\ Safe /\ (CopyUsed \/ CopyErase) => Safe'
<1> SUFFICES ASSUME TypeOK, Safe PROVE CopyUsed \/ CopyErase => Safe'
  OBVIOUS
<1> DEFINE src == cp.src
           dst == cp.dst
<1>0. /\ bad[0] \in SUBSET Block /\ bad[1] \in SUBSET Block /\ cap \in 0 .. Blocks
      /\ tag \in [Block -> 0 .. Blocks] /\ lut \in [Block -> 0 .. Blocks]
  BY DEF TypeOK, FlashTypeOK, RamTypeOK
<1>1. ASSUME CopyUsed PROVE Safe'
  <2>1. UNCHANGED <<tag, bad, cap, adrift, lut, cp>> /\ Mounted /\ pc = "cpUsed"
        /\ pc' = "cpErase"
    BY <1>1 DEF CopyUsed, MarkUsed, flashVars, ramVars, ghostVars, Mounted, Formatting
  <2>2. TableSafe' /\ MoveSafe' /\ RefreshSafe' /\ FormatSafe'
    BY <2>1, Untagged
       DEF Safe, TableSafe, MoveSafe, RefreshSafe, FormatSafe, Copying, Refreshing, Forsaken,
           Formatting
  <2> QED BY <2>1, <2>2, Untagged DEF Safe
<1>2. ASSUME CopyErase PROVE Safe'
  <2>1. src \in Block /\ dst \in Block /\ pc = "cpErase" /\ Mounted
    BY <1>2 DEF CopyErase, TypeOK, ControlOK, Copying, Mounted, Formatting
  <2>2. /\ pc' \in {"write", "rfBlank"} /\ (pc' = "rfBlank" => cp' = cp)
        /\ UNCHANGED <<cap, adrift>>
        /\ \A l \in Block : lut'[l] \in {lut[l], dst}
    <3> DEFINE at == {l \in Block : lut[l] = cp.src}
    <3>1. lut' = IF at = {} THEN lut ELSE [lut EXCEPT ![Min(at)] = dst]
      BY <1>2 DEF CopyErase
    <3>2. \A l \in Block : lut'[l] \in {lut[l], dst}
      <4> HIDE DEF at, dst
      <4> QED BY <1>0, <3>1
    <3> QED BY <1>2, <3>2 DEF CopyErase
  <2>3. /\ tag[src] # NoTag => dst # src
        /\ tag[src] \notin Forsaken => src \notin Bad /\ dst \notin Bad
        /\ tag[dst] = tag[src]
    BY <2>1 DEF Safe, MoveSafe, Copying
  <2>4. \/ tag' = tag /\ bad' = bad
        \/ tag' = [tag EXCEPT ![src] = NoTag] /\ bad' = [p \in {0, 1} |-> bad[p] \ {src}]
    BY <1>2 DEF CopyErase, Erase, flashVars
  <2> HIDE DEF src, dst
  <2>5. /\ Bad' \subseteq Bad /\ Forsaken' = Forsaken
        /\ \A b \in Block : tag'[b] = tag[b] \/ (b = src /\ tag'[b] = NoTag)
    <3>1. Bad' \subseteq Bad
      BY <2>4 DEF Bad
    <3> QED BY <1>0, <2>1, <2>2, <2>4, <3>1 DEF Forsaken
  <2>6. TableSafe'
    <3> SUFFICES ASSUME NEW l \in Block, lut'[l] \in Block, tag'[lut'[l]] \notin Forsaken
                 PROVE  lut'[l] \notin Bad'
      BY <2>5 DEF TableSafe
    <3>1. tag[lut'[l]] \notin Forsaken
      BY <2>5 DEF Forsaken
    <3>2. CASE lut'[l] = lut[l]
      BY <2>1, <2>5, <3>1, <3>2 DEF Safe, TableSafe
    <3>3. CASE lut'[l] = dst
      BY <2>3, <2>5, <3>1, <3>3
    <3> QED BY <2>2, <3>2, <3>3
  <2>7. ASSUME NEW l \in 0 .. cap - 1, l \notin adrift
        PROVE  \E b \in Carriers(l, bad', tag') : b # src
    <3>1. PICK b \in Carriers(l, bad, tag) : TRUE
      BY <2>7 DEF Safe, NoLbnLost
    <3>2. b \in Block /\ b \notin Bad /\ tag[b] = l /\ l \notin Forsaken
      BY <1>0, <2>7, <3>1, GeometryAssumption DEF Carriers, NoTag, Bad, Forsaken
    <3>3. \E c \in Block : c \notin Bad /\ tag[c] = l /\ c # src
      BY <2>1, <2>3, <3>2 DEF Forsaken
    <3>4. PICK c \in Block : c \notin Bad /\ tag[c] = l /\ c # src
      BY <3>3
    <3>5. c \notin Bad' /\ tag'[c] = l
      BY <2>5, <3>4
    <3> QED BY <3>4, <3>5, CarrierIs DEF Bad
  <2>8. NoLbnLost'
    BY <2>2, <2>7 DEF NoLbnLost
  <2>9. RefreshSafe'
    BY <2>2, <2>7 DEF RefreshSafe, Refreshing, src
  <2>10. MoveSafe'
    BY <2>2 DEF MoveSafe, Copying
  <2>11. FormatSafe'
    <3>1. \A b \in Block : tag'[b] # Blocks - 1
      BY <2>5, GeometryAssumption DEF Safe, FormatSafe, NoTag
    <3> QED BY <2>2, <3>1 DEF Safe, FormatSafe, Formatting
  <2> QED BY <2>6, <2>8, <2>9, <2>10, <2>11 DEF Safe
<1> QED BY <1>1, <1>2

-----------------------------------------------------------------------------
(***************************************************************************)
(* A block is refreshed                                                    *)
(***************************************************************************)
\* Erasing, zeroing and marking the refreshed block: no number needs it.
LEMMA RefreshedSafe ==
  TypeOK /\ Safe /\ (RefreshBlank \/ RefreshZero \/ RefreshFill \/ RefreshErase \/ RefreshMark
                      \/ RefreshMark2)
    => Safe'
<1> SUFFICES ASSUME TypeOK, Safe,
                    RefreshBlank \/ RefreshZero \/ RefreshFill \/ RefreshErase \/ RefreshMark
                      \/ RefreshMark2
             PROVE  Safe'
  OBVIOUS
<1> DEFINE src == cp.src
<1>0. tag \in [Block -> 0 .. Blocks]
  BY DEF TypeOK, FlashTypeOK
<1>1. src \in Block /\ pc \in Refreshing /\ Mounted
  BY DEF RefreshBlank, RefreshZero, RefreshFill, RefreshErase, RefreshMark, RefreshMark2,
         Refreshing, Mounted, Formatting, TypeOK, ControlOK
<1>2. /\ UNCHANGED <<cap, adrift>> /\ pc' \in Refreshing \cup {"read"}
      /\ pc' \in Refreshing => cp' = cp
  BY DEF RefreshBlank, RefreshZero, RefreshFill, RefreshErase, RefreshMark, RefreshMark2,
         Refreshing, ghostVars
<1>3. \/ tag' = tag /\ bad' = bad /\ lut' = lut /\ pc # "rfMark2"
      \/ /\ tag' = [tag EXCEPT ![src] = NoTag] /\ bad' = [p \in {0, 1} |-> bad[p] \ {src}]
         /\ lut' = lut /\ pc # "rfMark2"
      \/ /\ tag' = tag /\ Bad' \subseteq Bad \cup {src}
         /\ pc' = "rfMark2" \/ lut' = LutOf(bad', tag')
  <2>1. CASE RefreshBlank \/ RefreshZero \/ RefreshFill \/ RefreshErase
    BY <2>1 DEF RefreshBlank, RefreshZero, RefreshFill, RefreshErase, Erase, FillZero, flashVars,
                ramVars
  <2>2. CASE RefreshMark \/ RefreshMark2
    <3>1. tag' = tag /\ Bad' \subseteq Bad \cup {src}
      BY <2>2, MarkEffect DEF RefreshMark, RefreshMark2
    <3> QED BY <2>2, <3>1 DEF RefreshMark, RefreshMark2, CreateLut
  <2> QED BY <2>1, <2>2
<1> HIDE DEF src
<1>4. /\ Bad' \subseteq Bad \cup {src} /\ Forsaken' = Forsaken
      /\ \A b \in Block : tag'[b] = tag[b] \/ (b = src /\ tag'[b] = NoTag)
  BY <1>0, <1>1, <1>2, <1>3 DEF Bad, Forsaken
<1>5. ASSUME NEW l \in 0 .. cap - 1, l \notin adrift
      PROVE  \E b \in Carriers(l, bad', tag') : b # src
  <2>1. PICK b \in Carriers(l, bad, tag) : b # src
    BY <1>1, <1>5 DEF Safe, RefreshSafe, src
  <2>2. b \in Block /\ b \notin Bad /\ tag[b] = l
    BY <2>1 DEF Carriers, Bad
  <2>3. b \notin Bad' /\ tag'[b] = l
    BY <1>4, <2>1, <2>2
  <2> QED BY <2>1, <2>2, <2>3, CarrierIs DEF Bad
<1>6. NoLbnLost' /\ RefreshSafe'
  BY <1>2, <1>5 DEF NoLbnLost, RefreshSafe, src
<1>7. TableSafe'
  <2>1. CASE lut' = LutOf(bad', tag')
    BY <2>1, TableBuilt
  <2>2. CASE pc' = "rfMark2"
    BY <2>2 DEF TableSafe
  <2>3. CASE lut' = lut /\ bad'[0] \subseteq bad[0] /\ bad'[1] \subseteq bad[1] /\ pc # "rfMark2"
    <3>1. \A b \in Block : tag'[b] \notin Forsaken' => tag[b] \notin Forsaken
      BY <1>4 DEF Forsaken
    <3>2. Bad' \subseteq Bad
      BY <2>3 DEF Bad
    <3>3. pc # "cpMark2"
      BY <1>1 DEF Refreshing
    <3> QED BY <1>1, <2>3, <3>1, <3>2, <3>3 DEF Safe, TableSafe
  <2> QED BY <1>3, <2>1, <2>2, <2>3
<1>8. MoveSafe'
  BY <1>2 DEF MoveSafe, Copying, Refreshing
<1>9. FormatSafe'
  <2>1. \A b \in Block : tag'[b] # Blocks - 1
    BY <1>4, GeometryAssumption DEF Safe, FormatSafe, NoTag
  <2> QED BY <1>2, <2>1 DEF Safe, FormatSafe, Refreshing, Formatting
<1> QED BY <1>6, <1>7, <1>8, <1>9 DEF Safe

-----------------------------------------------------------------------------
(***************************************************************************)
(* The chip is mounted and formatted                                       *)
(***************************************************************************)
\* ftl_format gives out fewer numbers than there are blocks.
LEMMA FewerThanBlocks ==
  ASSUME NEW g \in 0 .. Blocks
  PROVE  (g * FormatPercent) \div 100 \in 0 .. Blocks - 1
<1>1. g \in Nat /\ FormatPercent \in Nat /\ FormatPercent <= 99 /\ Blocks \in Nat /\ Blocks > 0
  BY GeometryAssumption, ConfigAssumption
<1>2. g * FormatPercent <= g * 99 /\ g * FormatPercent \in Nat
  BY <1>1
<1> DEFINE k == g * FormatPercent
<1>3. k < 100 * Blocks
  <2>1. g * 99 < 100 * Blocks
    BY <1>1
  <2> QED BY <1>1, <1>2, <2>1
<1>4. k \in Nat
  BY <1>2
<1> HIDE DEF k
<1>5. k \div 100 \in 0 .. Blocks - 1
  BY <1>1, <1>3, <1>4
<1> QED BY <1>5 DEF k

\* ftl_init: the numbers below the first hole are all carried.
LEMMA BootSafe == TypeOK /\ Safe /\ Boot => Safe'
<1> SUFFICES ASSUME TypeOK, Safe, Boot PROVE Safe'
  OBVIOUS
<1>1. /\ UNCHANGED <<tag, bad, cp>> /\ lut' = LutOf(bad, tag) /\ valid' = ValidOf(LutOf(bad, tag), valid)
      /\ \A b \in Block : tag[b] # Blocks - 1
  BY DEF Boot, flashVars, Safe, FormatSafe
<1>2. TableSafe'
  BY <1>1, TableBuilt
<1>3. pc' \in {"fmtErase", "ready"}
  BY DEF Boot, StartFormat
<1>4. MoveSafe' /\ RefreshSafe'
  BY <1>3 DEF MoveSafe, RefreshSafe, Copying, Refreshing
<1>5. CASE pc' = "fmtErase" /\ cap' = 0
  <2>1. NoLbnLost' /\ FormatSafe'
    BY <1>1, <1>5 DEF NoLbnLost, FormatSafe, Formatting
  <2> QED BY <1>1, <1>2, <1>4, <2>1 DEF Safe
<1>6. CASE /\ pc' = "ready" /\ valid' >= MinBlocks /\ adrift' = adrift
           /\ cap' = IF cap = 0 THEN valid' ELSE cap
  <2>1. FormatSafe'
    BY <1>1, <1>6 DEF Safe, FormatSafe, Formatting
  <2>2. \A l \in 0 .. valid' - 1 : Carriers(l, bad, tag) # {}
    BY <1>1, ValidIsFirstHole
  <2>3. NoLbnLost'
    BY <1>1, <1>6, <2>2 DEF Safe, NoLbnLost
  <2> QED BY <1>1, <1>2, <1>4, <2>1, <2>3 DEF Safe
<1>7. \/ pc' = "fmtErase" /\ cap' = 0
      \/ /\ pc' = "ready" /\ ~(valid' < MinBlocks) /\ adrift' = adrift
         /\ cap' = IF cap = 0 THEN valid' ELSE cap
  BY DEF Boot, StartFormat
<1>8. valid' \in Int /\ MinBlocks \in Int
  <2>1. valid' \in Block
    BY <1>1, ValidIsFirstHole
  <2> QED BY <2>1, ConfigAssumption, GeometryAssumption DEF Block
<1> QED BY <1>5, <1>6, <1>7, <1>8

\* Over an old number none appears that is above the new one.
LEMMA MergedBelow ==
  ASSUME NEW u \in 0 .. Blocks, NEW v \in 0 .. Blocks - 1, NEW t \in Merged(u, v)
  PROVE  t \in 0 .. v
BY GeometryAssumption DEF Merged, Block

\* ftl_format
LEMMA FormattingSafe ==
  TypeOK /\ Safe /\ (FmtErase \/ FmtMark \/ FmtMark2 \/ FmtErased \/ FmtTag \/ FmtTagged) => Safe'
<1> SUFFICES ASSUME TypeOK, Safe
             PROVE  FmtErase \/ FmtMark \/ FmtMark2 \/ FmtErased \/ FmtTag \/ FmtTagged => Safe'
  OBVIOUS
<1>0. /\ tag \in [Block -> 0 .. Blocks] /\ good \in 0 .. Blocks /\ loop.n \in Nat
      /\ \A b \in Block : tag[b] # Blocks - 1
  BY DEF TypeOK, FlashTypeOK, RamTypeOK, Loops, Safe, FormatSafe
<1>1. ASSUME FmtErase \/ FmtMark \/ FmtMark2 PROVE Safe'
  <2>1. pc' \in {"fmtErase", "fmtMark", "fmtMark2"} /\ cap = 0 /\ cap' = 0
    BY <1>1 DEF FmtErase, FmtMark, FmtMark2, ghostVars, Safe, FormatSafe, Formatting
  <2>2. tag' = tag \/ tag' = [tag EXCEPT ![loop.i] = NoTag]
    BY <1>1, MarkEffect DEF FmtErase, FmtMark, FmtMark2, Erase, flashVars
  <2>3. \A b \in Block : tag'[b] # Blocks - 1
    BY <1>0, <2>2, GeometryAssumption DEF NoTag
  <2>4. TableSafe' /\ MoveSafe' /\ RefreshSafe' /\ FormatSafe' /\ NoLbnLost'
    BY <2>1, <2>3
       DEF TableSafe, Mounted, Formatting, MoveSafe, RefreshSafe, Copying, Refreshing, FormatSafe, NoLbnLost
  <2> QED BY <2>4 DEF Safe
<1>2. ASSUME FmtErased PROVE Safe'
  <2>1. /\ pc' \in {"off", "fmtTag"} /\ cap' = 0 /\ UNCHANGED <<tag, bad, good>>
        /\ loop'.n = 0
    BY <1>2 DEF FmtErased, flashVars, ramVars, Safe, FormatSafe, NoLoop, Formatting
  <2>2. 0 <= (good * FormatPercent) \div 100
    BY <1>0, FewerThanBlocks
  <2>3. TableSafe' /\ MoveSafe' /\ RefreshSafe' /\ FormatSafe' /\ NoLbnLost'
    BY <1>0, <2>1, <2>2
       DEF TableSafe, Mounted, Formatting, MoveSafe, RefreshSafe, Copying, Refreshing, FormatSafe, NoLbnLost
  <2> QED BY <2>3 DEF Safe
<1>3. ASSUME FmtTag PROVE Safe'
  <2> DEFINE limit == (good * FormatPercent) \div 100
  <2>1. /\ pc = "fmtTag" /\ pc' = pc /\ cap = 0 /\ cap' = 0 /\ good' = good
        /\ loop.n <= limit /\ loop.n # limit
    BY <1>3 DEF FmtTag, ramVars, Safe, FormatSafe, Formatting
  <2>2. limit \in 0 .. Blocks - 1
    BY <1>0, FewerThanBlocks
  <2>3. loop' = [loop EXCEPT !.i = @ + 1] \/ loop' = [loop EXCEPT !.i = @ + 1, !.n = @ + 1]
    BY <1>3 DEF FmtTag
  <2>4. loop'.n \in {loop.n, loop.n + 1}
    BY <2>3 DEF TypeOK, Loops
  <2>5. \/ tag' = tag
        \/ /\ loop.i \in Nat /\ loop.i < Blocks
           /\ \E t \in Merged(tag[loop.i], loop.n) : tag' = [tag EXCEPT ![loop.i] = t]
    BY <1>3 DEF FmtTag, WriteTag, flashVars, TypeOK, Loops
  <2> HIDE DEF limit
  <2>6. loop.n < Blocks - 1 /\ loop'.n <= limit
    BY <1>0, <2>1, <2>2, <2>4, GeometryAssumption
  <2>7. \A b \in Block : tag'[b] # Blocks - 1
    <3>1. CASE tag' = tag
      BY <1>0, <3>1
    <3>2. ASSUME loop.i \in Nat, loop.i < Blocks, NEW t \in Merged(tag[loop.i], loop.n),
                 tag' = [tag EXCEPT ![loop.i] = t]
          PROVE  \A b \in Block : tag'[b] # Blocks - 1
      <4>1. tag[loop.i] \in 0 .. Blocks /\ loop.n \in 0 .. Blocks - 1
        BY <1>0, <2>6, <3>2, GeometryAssumption DEF Block
      <4>2. t \in 0 .. loop.n
        BY <3>2, <4>1, MergedBelow
      <4>3. t # Blocks - 1
        BY <1>0, <2>6, <4>2, GeometryAssumption
      <4> QED BY <1>0, <3>2, <4>3
    <3> QED BY <2>5, <3>1, <3>2
  <2>8. TableSafe' /\ MoveSafe' /\ RefreshSafe' /\ FormatSafe' /\ NoLbnLost'
    BY <2>1, <2>6, <2>7
       DEF TableSafe, Mounted, Formatting, MoveSafe, RefreshSafe, Copying, Refreshing, FormatSafe, NoLbnLost,
           limit
  <2> QED BY <2>8 DEF Safe
<1>4. ASSUME FmtTagged PROVE Safe'
  <2>1. /\ UNCHANGED <<tag, bad, adrift>> /\ lut' = LutOf(bad', tag')
        /\ valid' = ValidOf(LutOf(bad, tag), valid) /\ pc' \in {"off", "ready"}
        /\ cap' = 0 \/ (cap' = valid' /\ ~(valid' < MinBlocks))
    BY <1>4 DEF FmtTagged, CreateLut, flashVars
  <2>2. valid' \in Block /\ \A l \in 0 .. valid' - 1 : Carriers(l, bad, tag) # {}
    BY <1>0, <2>1, ValidIsFirstHole
  <2>3. TableSafe'
    BY <2>1, TableBuilt
  <2>4. NoLbnLost' /\ FormatSafe'
    BY <1>0, <2>1, <2>2, ConfigAssumption, GeometryAssumption
       DEF NoLbnLost, FormatSafe, Formatting, Block
  <2>5. MoveSafe' /\ RefreshSafe'
    BY <2>1 DEF MoveSafe, RefreshSafe, Copying, Refreshing
  <2> QED BY <2>3, <2>4, <2>5 DEF Safe
<1> QED BY <1>1, <1>2, <1>3, <1>4

-----------------------------------------------------------------------------
(***************************************************************************)
(* The theorems                                                            *)
(***************************************************************************)
\* Every step of the layer and of its environment keeps the inductive invariant.
LEMMA SafeNext == TypeOK /\ Safe /\ [Next]_vars => Safe'
<1> SUFFICES ASSUME TypeOK, Safe, [Next]_vars PROVE Safe'
  OBVIOUS
<1>1. CASE Step
  BY <1>1, BootSafe, FormattingSafe, RequestSafe, WriteSafe, FindSafe, PageSafe, MarkSafe,
     EraseSafe, RefreshedSafe DEF Step
<1>2. CASE Request \/ BitError \/ PowerCut
  BY <1>2, RequestSafe
<1>3. CASE UNCHANGED vars
  BY <1>3 DEF vars, flashVars, ramVars, ghostVars, Safe, TableSafe, MoveSafe, RefreshSafe,
              FormatSafe, NoLbnLost, Mounted, Bad, Forsaken
<1> QED BY <1>1, <1>2, <1>3 DEF Next

\* The inductive invariant holds throughout, whatever the manufacturer marked.
THEOREM SafeAlways == Spec => []Safe
BY SafeInit, SafeNext, TypeCorrect, PTL DEF Spec

\* A logical block that a format handed out stays on the chip: some block without a bad
\* mark carries its number, whatever commands of ftl_copy_and_write_to_block and
\* ftl_blockcompare time out, whichever bad-block marks are not carried out, on one page or
\* both, and wherever the power is cut, unless it was refreshed when no block was unused or
\* moved to a block marked on page 1 only.
THEOREM NoLbnLostAlways == Spec => []NoLbnLost
<1>1. Safe => NoLbnLost
  BY DEF Safe
<1> QED BY <1>1, SafeAlways, PTL

\* ftl_init never falls back to ftl_format, which would erase the chip, once one has
\* succeeded, as long as no block was refreshed when none was unused, nor moved to one
\* marked on page 1 only, whatever else times out or is not marked.  It is about
\* ftl_init's own test: the start-up check of 54_usb_device_msc is left out.
THEOREM NoReformatAlways == ASSUME CheckPercent = 0 PROVE Spec => NoReformat
<1>1. ASSUME TypeOK, Safe, [Next]_vars
      PROVE  [cap > 0 /\ adrift = {} => pc' # "fmtErase"]_vars
  <2> SUFFICES ASSUME cap > 0, adrift = {}, pc' = "fmtErase", Next PROVE FALSE
    BY <1>1
  <2>1. Boot \/ FmtErase \/ FmtMark2
    <3>1. CASE Step
      BY <3>1 DEF Step, FmtMark, FmtErased, FmtTag, FmtTagged, WriteDone, Outside, WriteInPlace,
         WriteMark, WriteMove, CopyFind, CopyNoBlock, CopyPageStep, CopyMark, CopyMark2, CopyUsed,
         CopyErase, ReadDone, ReadPage, ReadRefresh, RefreshBlank, RefreshZero, RefreshFill,
         RefreshErase, RefreshMark, RefreshMark2, StartCopy
    <3>2. CASE Request \/ BitError \/ PowerCut
      BY <3>2 DEF Request, BeginWrite, BeginRead, BitError, PowerCut
    <3> QED BY <3>1, <3>2 DEF Next
  <2>2. CASE FmtErase \/ FmtMark2
    BY <1>1, <2>2 DEF FmtErase, FmtMark2, Safe, FormatSafe, Formatting
  <2>3. CASE Boot
    <3>1. \A l \in 0 .. cap - 1 : Carriers(l, bad, tag) # {}
      BY <1>1 DEF Safe, NoLbnLost
    <3>2. cap \in 0 .. Blocks /\ cap >= MinBlocks
      <4>1. cap \in 0 .. Blocks
        BY <1>1 DEF TypeOK, RamTypeOK
      <4>2. cap = 0 \/ cap >= MinBlocks
        BY <1>1 DEF Safe, FormatSafe
      <4> QED BY <4>1, <4>2
    <3>3. valid' = ValidOf(LutOf(bad, tag), valid)
      BY <2>3 DEF Boot
    <3>4. valid' \in Block /\ cap <= valid'
      BY <1>1, <3>1, <3>2, <3>3, ValidIsFirstHole DEF Safe, FormatSafe
    <3>5. (Cardinality(Block \ (bad[0] \cup bad[1])) * CheckPercent) \div 100 = 0
      <4> DEFINE g == Cardinality(Block \ (bad[0] \cup bad[1]))
      <4>1. g \in 0 .. Blocks
        BY <1>1, CreateLutType DEF TypeOK, RamTypeOK
      <4>2. g \in Nat
        BY <4>1
      <4> HIDE DEF g
      <4>3. g * CheckPercent = 0
        BY <4>2
      <4>4. (g * CheckPercent) \div 100 = 0
        BY <4>3
      <4> QED BY <4>4 DEF g
    <3>6. valid' < MinBlocks \/ valid' < 0
      BY <2>3, <3>5 DEF Boot, Bad
    <3> QED BY <3>2, <3>4, <3>6, ConfigAssumption, GeometryAssumption DEF Block
  <2> QED BY <2>1, <2>2, <2>3
<1> QED BY <1>1, TypeCorrect, SafeAlways, PTL DEF Spec, NoReformat

-----------------------------------------------------------------------------
(***************************************************************************)
(* Third part.  LutCoherent: the table in RAM agrees with the spare areas. *)
(*                                                                         *)
(* Its strengthening is TableTrue, that the table knows every carrier, and *)
(* MoveAlone, that nothing but its own number leads to a block on the      *)
(* move.  First, what each step does to the set of carriers of a number.   *)
(***************************************************************************)
\* A carrier is a block with the tag and without a mark, and no number is "none".
LEMMA OfCarrier ==
  ASSUME TypeOK, NEW l \in Block, NEW b \in Carriers(l, bad, tag)
  PROVE  b \in Block /\ b \notin Bad /\ tag[b] = l /\ l # NoTag
BY GeometryAssumption DEF Carriers, NoTag, Block, Bad

\* A page copied makes the copy a carrier of the number of the source, at most.
LEMMA PageCarriers ==
  ASSUME TypeOK, Safe, CopyPageStep, NEW l \in Block, l \notin adrift
  PROVE  /\ Carriers(l, bad, tag) \subseteq Carriers(l, bad', tag')
         /\ Carriers(l, bad', tag') \subseteq Carriers(l, bad, tag) \cup {cp.dst}
         /\ cp.dst \in Carriers(l, bad', tag') => cp.src \in Carriers(l, bad, tag)
<1> DEFINE src == cp.src
           dst == cp.dst
<1>1. /\ src \in Block /\ dst \in Block /\ cp.pg \in Nat /\ l \notin Forsaken
      /\ tag[src] # NoTag => dst # src
      /\ tag[src] \notin Forsaken => src \notin Bad /\ dst \notin Bad /\ Bad' = Bad
      /\ cp.pg = 0 => tag[dst] = NoTag
      /\ cp.pg > 0 => tag[dst] = tag[src]
      /\ \A b \in Block : b # dst => tag'[b] = tag[b]
      /\ tag'[dst] \in {tag[dst], tag[src]} /\ tag'[src] = tag[src]
      /\ Bad \subseteq Bad' /\ Bad' \subseteq Bad \cup {dst}
  BY PageEffect, GeometryAssumption DEF NoTag, Block, Forsaken, Bad
<1> HIDE DEF src, dst
<1>2. tag[dst] = l \/ tag'[dst] = l => tag[src] = l
  BY <1>1 DEF Forsaken
<1>3. ASSUME NEW b \in Carriers(l, bad, tag) PROVE b \in Carriers(l, bad', tag')
  <2>1. b \in Block /\ b \notin Bad /\ tag[b] = l
    BY <1>3 DEF Carriers, Bad
  <2>2. b \notin Bad' /\ tag'[b] = l
    <3>1. CASE b # dst
      BY <1>1, <2>1, <3>1
    <3>2. CASE b = dst
      BY <1>1, <1>2, <2>1, <3>2
    <3> QED BY <3>1, <3>2
  <2> QED BY <2>1, <2>2, CarrierIs DEF Bad
<1>4. ASSUME NEW b \in Carriers(l, bad', tag'), b # dst PROVE b \in Carriers(l, bad, tag)
  <2>1. b \in Block /\ b \notin Bad' /\ tag'[b] = l
    BY <1>4 DEF Carriers, Bad
  <2>2. b \notin Bad /\ tag[b] = l
    BY <1>1, <1>4, <2>1
  <2> QED BY <2>1, <2>2, CarrierIs DEF Bad
<1>5. ASSUME dst \in Carriers(l, bad', tag') PROVE src \in Carriers(l, bad, tag)
  <2>1. tag'[dst] = l
    BY <1>5 DEF Carriers
  <2>2. tag[src] = l /\ src \notin Bad
    BY <1>1, <1>2, <2>1
  <2> QED BY <1>1, <2>2, CarrierIs DEF Bad
<1> QED BY <1>3, <1>4, <1>5 DEF src, dst

\* A block that loses its tag, or may get a mark, may carry no number any more; nothing else
\* changes.
LEMMA LostCarriers ==
  ASSUME NEW b, NEW l \in Block, TypeOK,
         \/ tag' = tag /\ bad' = bad
         \/ tag' = [tag EXCEPT ![b] = NoTag] /\ bad' = [p \in {0, 1} |-> bad[p] \ {b}]
         \/ tag' = tag /\ Bad \subseteq Bad' /\ Bad' \subseteq Bad \cup {b}
  PROVE  /\ Carriers(l, bad', tag') \subseteq Carriers(l, bad, tag)
         /\ Carriers(l, bad, tag) \ {b} \subseteq Carriers(l, bad', tag')
<1>1. tag \in [Block -> 0 .. Blocks] /\ l # NoTag
  BY GeometryAssumption DEF TypeOK, FlashTypeOK, NoTag, Block
<1>2. \A c \in Block : c # b => tag'[c] = tag[c] /\ (c \in Bad' <=> c \in Bad)
  BY <1>1 DEF Bad
<1>3. \A c \in Block : c \notin Bad' /\ tag'[c] = l => c \notin Bad /\ tag[c] = l
  <2> SUFFICES ASSUME NEW c \in Block, c \notin Bad', tag'[c] = l
               PROVE  c \notin Bad /\ tag[c] = l
    OBVIOUS
  <2>1. CASE c = b
    BY <1>1, <2>1 DEF Bad
  <2>2. CASE c # b
    BY <1>2, <2>2
  <2> QED BY <2>1, <2>2
<1> QED BY <1>2, <1>3, CarrierIs DEF Bad

\* A copy that is marked bad is no carrier, nor is one that could not be, unless the move
\* went wrong; nothing else changes.
LEMMA MarkCarriers ==
  ASSUME TypeOK, CopyMark \/ CopyMark2, NEW l \in Block
  PROVE  /\ Carriers(l, bad', tag') \subseteq Carriers(l, bad, tag)
         /\ Carriers(l, bad, tag) \ {cp.dst} \subseteq Carriers(l, bad', tag')
         /\ CopyMark2 /\ HereLbn \notin torn' => cp.dst \notin Carriers(l, bad', tag')
<1>1. tag' = tag /\ Bad \subseteq Bad' /\ Bad' \subseteq Bad \cup {cp.dst}
  BY MarkEffect DEF CopyMark, CopyMark2
<1>2. ASSUME CopyMark2, HereLbn \notin torn' PROVE cp.dst \notin Carriers(l, bad', tag')
  <2>1. cp.dst \in Bad' \/ tag[cp.dst] = NoTag
    BY <1>2 DEF CopyMark2
  <2>2. l # NoTag
    BY GeometryAssumption DEF NoTag, Block
  <2> QED BY <1>1, <2>1, <2>2 DEF Carriers, Bad
<1> QED BY <1>1, <1>2, LostCarriers

\* Erasing the source: unless the move went wrong, it is no carrier any more.
LEMMA EraseCarriers ==
  ASSUME TypeOK, CopyErase, NEW l \in Block
  PROVE  /\ Carriers(l, bad', tag') \subseteq Carriers(l, bad, tag)
         /\ Carriers(l, bad, tag) \ {cp.src} \subseteq Carriers(l, bad', tag')
         /\ HereLbn \notin torn' => cp.src \notin Carriers(l, bad', tag')
<1>1. \/ tag' = tag /\ bad' = bad /\ torn' = torn \cup {HereLbn}
      \/ tag' = [tag EXCEPT ![cp.src] = NoTag] /\ bad' = [p \in {0, 1} |-> bad[p] \ {cp.src}]
  BY DEF CopyErase, Erase, flashVars
<1>2. HereLbn \notin torn' => cp.src \notin Carriers(l, bad', tag')
  <2>1. tag \in [Block -> 0 .. Blocks] /\ l # NoTag
    BY GeometryAssumption DEF TypeOK, FlashTypeOK, NoTag, Block
  <2>2. CASE tag' = [tag EXCEPT ![cp.src] = NoTag]
    BY <2>1, <2>2 DEF Carriers
  <2> QED BY <1>1, <2>2
<1> QED BY <1>1, <1>2, LostCarriers

\* A refresh takes nothing but the refreshed block away, and the table stays or is built anew.
LEMMA RefreshCarriers ==
  ASSUME TypeOK, RefreshBlank \/ RefreshZero \/ RefreshFill \/ RefreshErase \/ RefreshMark
                   \/ RefreshMark2
  PROVE  /\ \A l \in Block :
              /\ Carriers(l, bad', tag') \subseteq Carriers(l, bad, tag)
              /\ Carriers(l, bad, tag) \ {cp.src} \subseteq Carriers(l, bad', tag')
         /\ lut' = lut \/ lut' = LutOf(bad', tag')
         /\ pc \in Refreshing /\ Mounted /\ pc' \in Refreshing \cup {"read"}
         /\ pc' \in Refreshing => cp' = cp /\ lut' = lut
         /\ UNCHANGED <<torn, adrift, acked>>
<1>1. /\ \/ tag' = tag /\ bad' = bad
         \/ tag' = [tag EXCEPT ![cp.src] = NoTag] /\ bad' = [p \in {0, 1} |-> bad[p] \ {cp.src}]
         \/ tag' = tag /\ Bad \subseteq Bad' /\ Bad' \subseteq Bad \cup {cp.src}
      /\ lut' = lut \/ lut' = LutOf(bad', tag')
  <2>1. CASE RefreshBlank \/ RefreshZero \/ RefreshFill \/ RefreshErase
    BY <2>1 DEF RefreshBlank, RefreshZero, RefreshFill, RefreshErase, Erase, FillZero, flashVars,
                ramVars
  <2>2. CASE RefreshMark \/ RefreshMark2
    <3>1. tag' = tag /\ Bad \subseteq Bad' /\ Bad' \subseteq Bad \cup {cp.src}
      BY <2>2, MarkEffect DEF RefreshMark, RefreshMark2
    <3> QED BY <2>2, <3>1 DEF RefreshMark, RefreshMark2, CreateLut, ramVars
  <2> QED BY <2>1, <2>2
<1>2. /\ pc \in Refreshing /\ Mounted /\ pc' \in Refreshing \cup {"read"}
      /\ pc' \in Refreshing => cp' = cp /\ lut' = lut
      /\ UNCHANGED <<torn, adrift, acked>>
  BY DEF RefreshBlank, RefreshZero, RefreshFill, RefreshErase, RefreshMark, RefreshMark2,
         Refreshing, Mounted, Formatting, ghostVars, ramVars
<1> QED BY <1>1, <1>2, LostCarriers

-----------------------------------------------------------------------------
\* The table leads a number that has not been given up to a carrier of it, or nowhere.
LEMMA EntryIsCarrier ==
  ASSUME TypeOK, TableTrue, Mounted, NEW l \in Block, l \notin adrift, lut[l] \in Block
  PROVE  lut[l] \in Carriers(l, bad, tag) /\ tag[lut[l]] = l /\ lut[l] \notin Bad
<1>1. lut[l] # NoBlock
  BY GeometryAssumption DEF NoBlock, Block
<1>2. lut[l] \in Carriers(l, bad, tag)
  BY <1>1 DEF TableTrue
<1> QED BY <1>2 DEF Carriers, Bad

\* A table just built knows every carrier.
LEMMA TableIsTrue ==
  ASSUME lut' = LutOf(bad', tag')
  PROVE  TableTrue'
<1> SUFFICES ASSUME NEW l \in Block
             PROVE  IF Carriers(l, bad', tag') = {} THEN lut'[l] = NoBlock
                    ELSE lut'[l] \in Carriers(l, bad', tag')
  BY DEF TableTrue
<1>1. Carriers(l, bad', tag') = {} => lut'[l] = NoBlock
  BY DEF LutOf
<1>2. Carriers(l, bad', tag') # {} => lut'[l] \in Carriers(l, bad', tag')
  BY LutIsCarrier
<1> QED BY <1>1, <1>2

\* A step that leaves the layer outside a move and a refresh.
LEMMA QuietTable ==
  ASSUME TableTrue, UNCHANGED <<tag, bad>>, adrift \subseteq adrift',
         pc' \in {"off", "ready", "write", "wrUsed", "read"},
         pc' = "off" \/ (Mounted /\ UNCHANGED lut)
  PROVE  TableTrue' /\ MoveAlone'
BY DEF TableTrue, MoveAlone, Mounted, Formatting, Copying, Refreshing

\* A move begins: if two numbers lead to its source, one is adrift, and now both are.
LEMMA MoveIsAlone ==
  ASSUME TypeOK, TableTrue, UNCHANGED <<tag, bad, lut>>, adrift' = adrift \cup Entangled,
         Mounted, HereBlk \in Block, pc' = "cpFind", cp'.src = HereBlk
  PROVE  TableTrue' /\ MoveAlone'
<1>1. TableTrue'
  BY DEF TableTrue, Mounted, Formatting
<1>2. ASSUME NEW l \in Block \ adrift', NEW m \in Block, lut[l] = HereBlk, lut[m] = HereBlk
      PROVE  m = l
  <2>1. {k \in Block : lut[k] = HereBlk} \cap adrift = {}
    BY <1>2 DEF Entangled
  <2>2. l \notin adrift /\ m \notin adrift
    BY <1>2, <2>1
  <2>3. tag[HereBlk] = l /\ tag[HereBlk] = m
    BY <1>2, <2>2, EntryIsCarrier
  <2> QED BY <2>3
<1>3. MoveAlone'
  BY <1>2 DEF MoveAlone, Copying, Refreshing
<1> QED BY <1>1, <1>3

\* The steps of a request outside a move, the environment, ftl_init and ftl_format.
LEMMA RequestTable ==
  ASSUME TypeOK, TableTrue, MoveAlone,
         \/ Request \/ WriteDone \/ Outside \/ ReadDone \/ ReadPage \/ BitError \/ PowerCut
         \/ Boot \/ FmtErase \/ FmtMark \/ FmtMark2 \/ FmtErased \/ FmtTag \/ FmtTagged
  PROVE  TableTrue' /\ MoveAlone'
<1>1. CASE Request \/ WriteDone \/ Outside \/ ReadDone \/ ReadPage \/ BitError
  <2>1. /\ UNCHANGED <<tag, bad, adrift, lut>> /\ Mounted
        /\ pc' \in {"ready", "write", "read"}
    <3>1. CASE Request
      BY <3>1, RequestEffect DEF Mounted, Formatting
    <3>2. CASE WriteDone \/ Outside \/ ReadDone \/ ReadPage \/ BitError
      BY <3>2 DEF WriteDone, Outside, ReadDone, ReadPage, BitError, flashVars, ramVars, ghostVars,
                  Mounted, Formatting
    <3> QED BY <1>1, <3>1, <3>2
  <2> QED BY <2>1, QuietTable
<1>2. CASE PowerCut
  BY <1>2, QuietTable DEF PowerCut, flashVars
<1>3. CASE Boot
  <2>1. lut' = LutOf(bad', tag') /\ pc' \in {"fmtErase", "ready"}
    BY <1>3 DEF Boot, StartFormat, flashVars
  <2> QED BY <2>1, TableIsTrue DEF MoveAlone, Copying, Refreshing
<1>4. CASE FmtErase \/ FmtMark \/ FmtMark2 \/ FmtErased \/ FmtTag
  <2>1. pc' \in {"off"} \cup Formatting
    BY <1>4 DEF FmtErase, FmtMark, FmtMark2, FmtErased, FmtTag, Formatting
  <2> QED BY <2>1 DEF TableTrue, MoveAlone, Mounted, Formatting, Copying, Refreshing
<1>5. CASE FmtTagged
  <2>1. lut' = LutOf(bad', tag') /\ pc' \in {"off", "ready"}
    BY <1>5 DEF FmtTagged, CreateLut, flashVars
  <2> QED BY <2>1, TableIsTrue DEF MoveAlone, Copying, Refreshing
<1> QED BY <1>1, <1>2, <1>3, <1>4, <1>5

\* The steps of a write, and the step of a read, that may begin a move.
LEMMA BeginsTable ==
  ASSUME TypeOK, TableTrue, MoveAlone, WriteInPlace \/ WriteMark \/ WriteMove \/ ReadRefresh
  PROVE  TableTrue' /\ MoveAlone'
<1>1. /\ UNCHANGED <<tag, bad, lut>> /\ Mounted /\ HereBlk \in Block
      /\ \/ pc' = "cpFind" /\ cp'.src = HereBlk /\ adrift' = adrift \cup Entangled
         \/ pc' \in {"write", "wrUsed"} /\ adrift' = adrift
  <2>1. CASE WriteInPlace
    <3>1. UNCHANGED <<tag, bad, lut>> /\ Mounted /\ HereBlk \in Block
      BY <2>1, HereTypes DEF WriteInPlace, Program, flashVars, ramVars, Mounted, Formatting
    <3>2. \/ StartCopy(InBlock, Chunk(InBlock))
          \/ pc' \in {"write", "wrUsed"} /\ adrift' = adrift
      BY <2>1 DEF WriteInPlace
    <3> QED BY <3>1, <3>2 DEF StartCopy
  <2>2. CASE WriteMark
    BY <2>2 DEF WriteMark, MarkUsed, flashVars, ramVars, Mounted, Formatting, TypeOK, ControlOK
  <2>3. CASE WriteMove \/ ReadRefresh
    BY <2>3, HereTypes DEF WriteMove, ReadRefresh, StartCopy, flashVars, ramVars, Mounted, Formatting
  <2> QED BY <2>1, <2>2, <2>3
<1> QED BY <1>1, MoveIsAlone, QuietTable

\* The copy is a block without tag: no number leads there.
LEMMA FindTable ==
  ASSUME TypeOK, TableTrue, MoveAlone, CopyFind \/ CopyNoBlock
  PROVE  TableTrue' /\ MoveAlone'
<1>1. CASE CopyFind
  <2>1. cp.src \in Block /\ cur \in 0 .. Blocks /\ cp \in Copies
    BY <1>1 DEF CopyFind, TypeOK, ControlOK, RamTypeOK
  <2>2. /\ UNCHANGED <<tag, bad, lut>> /\ Mounted /\ pc = "cpFind" /\ pc' = "cpPage"
        /\ cp' = [cp EXCEPT !.dst = SamePlaneUnused(cp.src), !.pg = 0]
        /\ adrift \subseteq adrift'
    BY <1>1 DEF CopyFind, flashVars, Mounted, Formatting
  <2>3. cp'.src = cp.src /\ cp'.dst = SamePlaneUnused(cp.src)
    BY <2>1, <2>2 DEF Copies
  <2>4. cp'.dst \in Block /\ tag[cp'.dst] = NoTag
    BY <1>1, <2>1, <2>3, SamePlaneResult DEF CopyFind, Unused
  <2>5. ASSUME NEW l \in Block \ adrift PROVE lut[l] # cp'.dst
    <3>1. l # NoTag
      BY GeometryAssumption DEF Block, NoTag
    <3> QED BY <2>2, <2>4, <3>1, EntryIsCarrier
  <2>6. TableTrue'
    BY <2>2 DEF TableTrue, Mounted, Formatting
  <2>7. MoveAlone'
    BY <2>2, <2>3, <2>5 DEF MoveAlone, Copying, Refreshing
  <2> QED BY <2>6, <2>7
<1>2. CASE CopyNoBlock
  <2>1. /\ UNCHANGED <<tag, bad, lut>> /\ Mounted /\ cp.src \in Block
        /\ \/ pc' = "ready" /\ adrift' = adrift
           \/ pc' = "rfBlank" /\ cp' = cp /\ adrift' = adrift \cup {HereLbn, tag[cp.src]}
    BY <1>2 DEF CopyNoBlock, flashVars, Mounted, Formatting, TypeOK, ControlOK
  <2>2. CASE pc' = "ready" /\ adrift' = adrift
    BY <2>1, <2>2, QuietTable
  <2>3. CASE pc' = "rfBlank" /\ cp' = cp /\ adrift' = adrift \cup {HereLbn, tag[cp.src]}
    <3>1. ASSUME NEW l \in Block \ adrift' PROVE lut[l] # cp.src
      BY <2>1, <2>3, EntryIsCarrier
    <3>2. TableTrue'
      BY <2>1, <2>3 DEF TableTrue, Mounted, Formatting
    <3> QED BY <2>1, <2>3, <3>1, <3>2 DEF MoveAlone, Copying, Refreshing
  <2> QED BY <2>1, <2>2, <2>3
<1> QED BY <1>1, <1>2

\* Page by page: the copy is one carrier more of a number that has one.
LEMMA PageTable ==
  ASSUME TypeOK, Safe, TableTrue, MoveAlone, CopyPageStep
  PROVE  TableTrue' /\ MoveAlone'
<1>1. /\ pc = "cpPage" /\ pc' \in {"cpMark", "cpUsed", "cpPage"}
      /\ UNCHANGED <<adrift, lut>> /\ cp'.src = cp.src /\ cp'.dst = cp.dst
  BY PageEffect
<1>2. ASSUME NEW l \in Block \ adrift
      PROVE  IF Carriers(l, bad', tag') = {} THEN lut[l] = NoBlock
             ELSE lut[l] \in Carriers(l, bad', tag')
  <2>1. IF Carriers(l, bad, tag) = {} THEN lut[l] = NoBlock ELSE lut[l] \in Carriers(l, bad, tag)
    BY <1>1 DEF TableTrue, Mounted, Formatting
  <2>2. /\ Carriers(l, bad, tag) \subseteq Carriers(l, bad', tag')
        /\ Carriers(l, bad', tag') # {} => Carriers(l, bad, tag) # {}
    BY PageCarriers
  <2> QED BY <2>1, <2>2
<1>3. TableTrue'
  BY <1>1, <1>2 DEF TableTrue
<1>4. MoveAlone'
  BY <1>1 DEF MoveAlone, Copying, Refreshing
<1> QED BY <1>3, <1>4

\* The copy that failed is marked, and no number leads there; then the table is built anew.
LEMMA MarkTable ==
  ASSUME TypeOK, TableTrue, MoveAlone, CopyMark \/ CopyMark2
  PROVE  TableTrue' /\ MoveAlone'
<1>1. CASE CopyMark
  <2>1. /\ pc = "cpMark" /\ pc' = "cpMark2" /\ UNCHANGED <<lut, cp, adrift>>
    BY <1>1 DEF CopyMark, ghostVars, ramVars
  <2>2. ASSUME NEW l \in Block \ adrift
        PROVE  IF Carriers(l, bad', tag') = {} THEN lut[l] = NoBlock
               ELSE lut[l] \in Carriers(l, bad', tag')
    <3>1. IF Carriers(l, bad, tag) = {} THEN lut[l] = NoBlock ELSE lut[l] \in Carriers(l, bad, tag)
      BY <2>1 DEF TableTrue, Mounted, Formatting
    <3>2. lut[l] # cp.dst
      BY <2>1 DEF MoveAlone, Copying
    <3>3. /\ Carriers(l, bad', tag') \subseteq Carriers(l, bad, tag)
          /\ Carriers(l, bad, tag) \ {cp.dst} \subseteq Carriers(l, bad', tag')
      BY <1>1, MarkCarriers
    <3> QED BY <3>1, <3>2, <3>3
  <2> QED BY <2>1, <2>2 DEF TableTrue, MoveAlone, Copying, Refreshing
<1>2. CASE CopyMark2
  <2>1. /\ lut' = LutOf(bad', tag') /\ pc' = "cpFind" /\ cp' = cp /\ adrift' = adrift
        /\ cp.src \in Block
    BY <1>2, MarkEffect DEF CopyMark2, CreateLut, TypeOK, ControlOK, Copying
  <2>2. ASSUME NEW l \in Block, NEW m \in Block, lut'[l] = cp.src, lut'[m] = cp.src
        PROVE  m = l
    <3>1. lut'[l] \in Carriers(l, bad', tag') /\ lut'[m] \in Carriers(m, bad', tag')
      BY <2>1, <2>2, LutIsCarrier
    <3> QED BY <2>2, <3>1 DEF Carriers
  <2>3. MoveAlone'
    BY <2>1, <2>2 DEF MoveAlone, Copying, Refreshing
  <2> QED BY <2>1, <2>3, TableIsTrue
<1> QED BY <1>1, <1>2

\* The source is erased: the one number that led to it leads to the copy.
LEMMA EraseTable ==
  ASSUME TypeOK, Safe, TableTrue, MoveAlone, CopyErase
  PROVE  /\ TableTrue' /\ MoveAlone'
         /\ \A l \in Block \ adrift :
              lut'[l] = IF lut[l] = cp.src THEN cp.dst ELSE lut[l]
<1> DEFINE src == cp.src
           dst == cp.dst
           at  == {l \in Block : lut[l] = src}
<1>1. /\ pc = "cpErase" /\ Mounted /\ src \in Block /\ dst \in Block /\ adrift' = adrift
      /\ pc' \in {"write", "rfBlank"} /\ (pc' = "rfBlank" => cp' = cp)
      /\ lut' = IF at = {} THEN lut ELSE [lut EXCEPT ![Min(at)] = dst]
      /\ lut \in [Block -> 0 .. Blocks]
  BY DEF CopyErase, TypeOK, ControlOK, RamTypeOK, Copying, Mounted, Formatting
<1>2. /\ tag[src] # NoTag => dst # src
      /\ tag[src] \notin Forsaken => dst \notin Bad
      /\ tag[dst] = tag[src]
  BY <1>1 DEF Safe, MoveSafe, Copying
<1>3. at # {} => Min(at) \in at
  BY BlockExtremes
<1>4. ASSUME NEW l \in Block \ adrift
      PROVE  /\ lut'[l] = IF lut[l] = src THEN dst ELSE lut[l]
             /\ lut'[l] # src
             /\ IF Carriers(l, bad', tag') = {} THEN lut'[l] = NoBlock
                ELSE lut'[l] \in Carriers(l, bad', tag')
  <2>1. /\ Carriers(l, bad', tag') \subseteq Carriers(l, bad, tag)
        /\ Carriers(l, bad, tag) \ {src} \subseteq Carriers(l, bad', tag')
    BY EraseCarriers
  <2>2. CASE lut[l] = src
    <3>1. at = {l}
      BY <1>1, <2>2 DEF MoveAlone, Copying
    <3>2. lut'[l] = dst
      BY <1>1, <1>3, <3>1
    <3>3. tag[src] = l /\ l \notin Forsaken
      BY <1>1, <2>2, EntryIsCarrier, OfCarrier DEF Forsaken
    <3>4. dst # src /\ dst \in Carriers(l, bad, tag)
      BY <1>1, <1>2, <3>3, CarrierIs DEF Bad, Forsaken
    <3> HIDE DEF src, dst, at
    <3> QED BY <2>1, <2>2, <3>2, <3>4
  <2>3. CASE lut[l] # src
    <3>1. lut'[l] = lut[l]
      BY <1>1, <1>3, <2>3
    <3>2. IF Carriers(l, bad, tag) = {} THEN lut[l] = NoBlock ELSE lut[l] \in Carriers(l, bad, tag)
      BY <1>1 DEF TableTrue
    <3> HIDE DEF src, dst, at
    <3> QED BY <2>1, <2>3, <3>1, <3>2
  <2> QED BY <2>2, <2>3
<1>5. TableTrue'
  BY <1>1, <1>4 DEF TableTrue
<1>6. MoveAlone'
  BY <1>1, <1>4 DEF MoveAlone, Copying, Refreshing
<1> QED BY <1>4, <1>5, <1>6

\* The refreshed block is no number's.
LEMMA RefreshTable ==
  ASSUME TypeOK, TableTrue, MoveAlone,
         RefreshBlank \/ RefreshZero \/ RefreshFill \/ RefreshErase \/ RefreshMark \/ RefreshMark2
  PROVE  TableTrue' /\ MoveAlone'
<1>1. /\ \A l \in Block :
           /\ Carriers(l, bad', tag') \subseteq Carriers(l, bad, tag)
           /\ Carriers(l, bad, tag) \ {cp.src} \subseteq Carriers(l, bad', tag')
      /\ lut' = lut \/ lut' = LutOf(bad', tag')
      /\ pc \in Refreshing /\ Mounted /\ pc' \in Refreshing \cup {"read"}
      /\ pc' \in Refreshing => cp' = cp /\ lut' = lut
      /\ adrift' = adrift
  BY RefreshCarriers
<1>2. TableTrue'
  <2>1. CASE lut' = lut
    <3> SUFFICES ASSUME NEW l \in Block \ adrift
                 PROVE  IF Carriers(l, bad', tag') = {} THEN lut[l] = NoBlock
                        ELSE lut[l] \in Carriers(l, bad', tag')
      BY <1>1, <2>1 DEF TableTrue
    <3>1. IF Carriers(l, bad, tag) = {} THEN lut[l] = NoBlock ELSE lut[l] \in Carriers(l, bad, tag)
      BY <1>1 DEF TableTrue
    <3>2. lut[l] # cp.src
      BY <1>1 DEF MoveAlone
    <3> QED BY <1>1, <3>1, <3>2
  <2> QED BY <1>1, <2>1, TableIsTrue
<1>3. MoveAlone'
  BY <1>1 DEF MoveAlone, Copying, Refreshing
<1> QED BY <1>2, <1>3

\* Every step keeps the table true.
LEMMA TableNext ==
  ASSUME TypeOK, Safe, TableTrue, MoveAlone, [Next]_vars
  PROVE  TableTrue' /\ MoveAlone'
<1>1. CASE CopyUsed
  BY <1>1 DEF CopyUsed, MarkUsed, flashVars, ramVars, ghostVars, TableTrue, MoveAlone, Mounted, Formatting,
              Copying, Refreshing
<1>2. CASE Step
  BY <1>1, <1>2, RequestTable, BeginsTable, FindTable, PageTable, MarkTable, EraseTable,
     RefreshTable DEF Step
<1>3. CASE Request \/ BitError \/ PowerCut
  BY <1>3, RequestTable
<1>4. CASE UNCHANGED vars
  BY <1>4 DEF vars, flashVars, ramVars, ghostVars, TableTrue, MoveAlone, Mounted, Formatting
<1> QED BY <1>2, <1>3, <1>4 DEF Next

\* The table in RAM (g_ftl_lut) leads every logical block that was handed out to a block
\* without a bad mark that carries its number, at every step of a move, a retry and a
\* refresh, whichever marks are not carried out, unless the block was refreshed when no
\* block was unused, moved to a block marked on page 1 only, or has shared a block with one
\* that was.
THEOREM LutCoherentAlways == Spec => []LutCoherent
<1>1. Init => TableTrue /\ MoveAlone
  BY DEF Init, TableTrue, MoveAlone, Mounted, Formatting, Copying, Refreshing
<1>2. Spec => [](TableTrue /\ MoveAlone)
  BY <1>1, TableNext, TypeCorrect, SafeAlways, PTL DEF Spec
<1>3. TypeOK /\ Safe /\ TableTrue => LutCoherent
  <2> SUFFICES ASSUME TypeOK, Safe, TableTrue, Mounted, NEW l \in 0 .. cap - 1, l \notin adrift
               PROVE  lut[l] \in Carriers(l, bad, tag)
    BY DEF LutCoherent
  <2>1. l \in Block
    BY GeometryAssumption DEF TypeOK, RamTypeOK, Block
  <2>2. Carriers(l, bad, tag) # {}
    BY DEF Safe, NoLbnLost
  <2> QED BY <2>1, <2>2 DEF TableTrue
<1> QED BY <1>2, <1>3, TypeCorrect, SafeAlways, PTL

-----------------------------------------------------------------------------
(***************************************************************************)
(* Fourth part.  ReadBack: what was acknowledged is what a read finds.     *)
(*                                                                         *)
(* Its strengthening is Held, with what it takes to keep it: one carrier   *)
(* for each number about which something is promised (OneCarrier), a copy  *)
(* that holds what it has to (CopyTrue), and a request that promises       *)
(* nothing before its end (AckedOK).                                       *)
(***************************************************************************)
\* The steps of a read or a write between its beginning and its end.
Working == \/ WriteInPlace \/ WriteMark \/ WriteMove \/ ReadPage \/ ReadRefresh
           \/ CopyFind \/ CopyPageStep \/ CopyMark \/ CopyMark2 \/ CopyUsed \/ CopyErase
           \/ RefreshBlank \/ RefreshZero \/ RefreshFill \/ RefreshErase
           \/ RefreshMark \/ RefreshMark2

\* A request keeps its kind, its first sector, its length and its data.
LEMMA JobGoesOn ==
  ASSUME TypeOK, Working
  PROVE  /\ job'.kind = job.kind /\ job'.sec = job.sec /\ job'.len = job.len
         /\ job'.data = job.data /\ acked' = acked
         /\ pc' \in {"write", "wrUsed", "read", "cpFind"} \cup Copying \cup Refreshing
<1>1. job \in Jobs
  BY DEF TypeOK, JobTypeOK
<1>2. CASE WriteInPlace \/ WriteMark \/ WriteMove \/ ReadRefresh
  BY <1>1, <1>2 DEF WriteInPlace, WriteMark, WriteMove, ReadRefresh, StartCopy, Advance, Jobs
<1>3. CASE ReadPage \/ CopyErase \/ RefreshErase \/ RefreshMark2
  BY <1>1, <1>3 DEF ReadPage, CopyErase, RefreshErase, RefreshMark2, Advance, Jobs, ghostVars,
                    Refreshing
<1>4. CASE CopyFind \/ CopyPageStep \/ CopyMark \/ CopyMark2 \/ CopyUsed
  BY <1>4 DEF CopyFind, CopyPageStep, CopyMark, CopyMark2, CopyUsed, ghostVars, Copying
<1>5. CASE RefreshBlank \/ RefreshZero \/ RefreshFill \/ RefreshMark
  BY <1>5 DEF RefreshBlank, RefreshZero, RefreshFill, RefreshMark, ghostVars, Refreshing
<1> QED BY <1>2, <1>3, <1>4, <1>5 DEF Working

\* The steps that work for a read stay with it.
LEMMA ReadGoesOn ==
  ASSUME TypeOK, AckedOK, Working
  PROVE  pc' \in {"off", "ready", "read"} \cup Formatting \cup Refreshing
           => job.kind # "write"
<1>1. CASE WriteInPlace \/ WriteMark \/ WriteMove \/ ReadRefresh
  BY <1>1 DEF WriteInPlace, WriteMark, WriteMove, ReadRefresh, StartCopy, Refreshing, Formatting
<1>2. CASE CopyFind \/ CopyPageStep \/ CopyMark \/ CopyMark2 \/ CopyUsed
  BY <1>2 DEF CopyFind, CopyPageStep, CopyMark, CopyMark2, CopyUsed, Refreshing, Formatting
<1>3. CASE CopyErase
  BY <1>3 DEF CopyErase, Refreshing, Formatting
<1>4. CASE ReadPage \/ RefreshBlank \/ RefreshZero \/ RefreshFill \/ RefreshErase
           \/ RefreshMark \/ RefreshMark2
  <2>1. pc \in {"read"} \cup Refreshing
    BY <1>4 DEF ReadPage, RefreshBlank, RefreshZero, RefreshFill, RefreshErase, RefreshMark,
                RefreshMark2, Refreshing
  <2> QED BY <2>1 DEF AckedOK
<1> QED BY <1>1, <1>2, <1>3, <1>4 DEF Working

\* Nothing is promised about a write in progress, nor while the chip is formatted.
LEMMA AckedNext ==
  ASSUME TypeOK, AckedOK, [Next]_vars
  PROVE  AckedOK'
<1>0. job \in Jobs /\ acked \in [Sector -> Datum \cup {NoPromise}]
  BY DEF TypeOK, JobTypeOK, AckedOK
<1>1. CASE Working
  <2>1. /\ job'.kind = job.kind /\ job'.sec = job.sec /\ job'.len = job.len
        /\ acked' = acked /\ pc' \notin Formatting
    BY <1>1, JobGoesOn DEF Copying, Refreshing, Formatting
  <2>2. pc' \in {"off", "ready", "read"} \cup Formatting \cup Refreshing
          => job.kind # "write"
    BY <1>1, ReadGoesOn
  <2> QED BY <2>1, <2>2 DEF AckedOK
<1>2. CASE Boot \/ FmtErase \/ FmtMark \/ FmtMark2 \/ FmtErased \/ FmtTag \/ FmtTagged
  <2>1. /\ job' = job /\ job.kind # "write"
        /\ acked' = acked \/ acked' = [s \in Sector |-> NoPromise]
        /\ pc' \in Formatting => \A s \in Sector : acked'[s] = NoPromise
    <3>1. CASE Boot
      BY <3>1 DEF Boot, StartFormat, AckedOK, Formatting
    <3>2. CASE FmtErase \/ FmtMark \/ FmtMark2 \/ FmtErased \/ FmtTag \/ FmtTagged
      BY <3>2 DEF FmtErase, FmtMark, FmtMark2, FmtErased, FmtTag, FmtTagged, ghostVars, AckedOK,
                  Formatting
    <3> QED BY <1>2, <3>1, <3>2
  <2>2. acked' \in [Sector -> Datum \cup {NoPromise}]
    BY <1>0, <2>1
  <2> QED BY <2>1, <2>2 DEF AckedOK
<1>3. CASE WriteDone
  <2>1. /\ job.kind = "write" /\ job.data \in Seq(Datum) /\ Len(job.data) = job.len
        /\ job.sec \in Nat /\ job.len \in Nat
    BY <1>0, <1>3 DEF WriteDone, TypeOK, JobTypeOK, ControlOK, Jobs
  <2>2. \A t \in job.sec .. job.sec + job.len - 1 : job.data[t - job.sec + 1] \in Datum
    BY <2>1
  <2>3. acked' \in [Sector -> Datum \cup {NoPromise}]
    BY <1>0, <1>3, <2>2 DEF WriteDone
  <2>4. job'.kind = "none" /\ pc' = "ready"
    BY <1>3 DEF WriteDone, Return, Idle
  <2> QED BY <2>3, <2>4 DEF AckedOK, Formatting
<1>4. CASE Outside \/ ReadDone \/ PowerCut
  <2>1. job'.kind = "none" /\ acked' = acked /\ pc' \in {"ready", "off"}
    BY <1>4 DEF Outside, ReadDone, PowerCut, Return, Idle, ghostVars
  <2> QED BY <1>0, <2>1 DEF AckedOK, Formatting
<1>5. CASE CopyNoBlock
  <2>1. /\ acked' = acked
        /\ \/ pc' = "ready" /\ job'.kind = "none"
           \/ pc' = "rfBlank" /\ job' = job /\ job.kind # "write"
    BY <1>5 DEF CopyNoBlock, Return, Idle
  <2> QED BY <1>0, <2>1 DEF AckedOK, Formatting
<1>6. CASE Request
  <2>1. ASSUME NEW s \in Starts, NEW n \in 1 .. MaxLen, NEW d \in [1 .. n -> Datum],
               BeginWrite(s, d)
        PROVE  AckedOK'
    <3>1. s \in Nat /\ n \in Nat /\ Len(d) = n
      BY ConfigAssumption
    <3>2. /\ job'.sec = s /\ job'.len = Len(d) /\ pc' = "write"
          /\ acked' = [t \in Sector |-> IF t \in s .. s + Len(d) - 1 THEN NoPromise ELSE acked[t]]
      BY <2>1 DEF BeginWrite, Idle
    <3>3. \A t \in Sector : t \in Int
      BY DEF Sector
    <3>4. \A t \in Sector : t - s \in 0 .. Len(d) - 1 => acked'[t] = NoPromise
      BY <3>1, <3>2, <3>3
    <3>5. acked' \in [Sector -> Datum \cup {NoPromise}]
      BY <1>0, <3>2
    <3> QED BY <3>2, <3>4, <3>5 DEF AckedOK, Formatting, Refreshing
  <2>2. ASSUME NEW s \in Starts, NEW n \in 1 .. MaxLen, BeginRead(s, n)
        PROVE  AckedOK'
    <3>1. job'.kind = "read" /\ acked' = acked /\ pc' = "read"
      BY <2>2 DEF BeginRead, Idle, ghostVars
    <3> QED BY <1>0, <3>1 DEF AckedOK, Formatting
  <2> QED BY <1>6, <2>1, <2>2 DEF Request
<1>7. CASE BitError \/ UNCHANGED vars
  BY <1>7 DEF BitError, vars, ghostVars, AckedOK
<1> QED BY <1>1, <1>2, <1>3, <1>4, <1>5, <1>6, <1>7 DEF Next, Step, Working

\* One number is written: over a block that was erased and without tag, or it is given up.
LEMMA TagEffect ==
  ASSUME TypeOK, FmtTag
  PROVE  /\ UNCHANGED <<bad, adrift>> /\ torn \subseteq torn' /\ pc = "fmtTag" /\ pc' = pc
         /\ loop.i \in Block /\ loop.n \in Nat /\ loop'.i = loop.i + 1
         /\ \A b \in Block : b # loop.i => tag'[b] = tag[b]
         /\ \/ loop'.n = loop.n /\ tag' = tag /\ loop.i \in Bad
            \/ /\ loop'.n = loop.n + 1
               /\ tag'[loop.i] \in torn' \cup {NoTag, loop.n}
<1>0. tag \in [Block -> 0 .. Blocks] /\ loop \in Loops /\ loop.i \in Nat /\ loop.n \in Nat
  BY DEF TypeOK, FlashTypeOK, Loops
<1>1. loop.i \in Block
  BY <1>0, GeometryAssumption DEF FmtTag, Block
<1>2. CASE loop.i \in Bad
  BY <1>0, <1>1, <1>2 DEF FmtTag, flashVars, Loops
<1>3. CASE loop.i \notin Bad
  <2>1. /\ loop' = [loop EXCEPT !.i = @ + 1, !.n = @ + 1]
        /\ WriteTag(loop.i, loop.n) \/ UNCHANGED flashVars
        /\ torn' = IF main[loop.i] = Erased /\ tag[loop.i] = NoTag THEN torn
                   ELSE torn \cup ({tag'[loop.i]} \ {NoTag})
        /\ adrift' = adrift /\ pc = "fmtTag" /\ pc' = pc
    BY <1>3 DEF FmtTag
  <2>2. /\ bad' = bad
        /\ tag' = tag \/ \E t \in Merged(tag[loop.i], loop.n) : tag' = [tag EXCEPT ![loop.i] = t]
    BY <2>1 DEF WriteTag, flashVars
  <2>3. \A b \in Block : b # loop.i => tag'[b] = tag[b]
    BY <1>0, <2>2
  <2>4. tag[loop.i] = NoTag => tag'[loop.i] \in {NoTag, loop.n}
    BY <1>0, <1>1, <2>2 DEF Merged
  <2>5. loop'.i = loop.i + 1 /\ loop'.n = loop.n + 1
    BY <1>0, <2>1 DEF Loops
  <2> QED BY <1>0, <1>1, <2>1, <2>2, <2>3, <2>4, <2>5
<1> QED BY <1>2, <1>3

\* A format gives up what is left on the blocks it neither erased nor marked, and then
\* writes each number once.
LEMMA FreshNext ==
  ASSUME TypeOK, FormatFresh, [Next]_vars
  PROVE  FormatFresh'
<1>0. /\ tag \in [Block -> 0 .. Blocks] /\ loop.i \in Nat /\ loop.n \in Nat
  BY DEF TypeOK, FlashTypeOK, Loops
<1>1. CASE FmtErased
  <2>1. /\ tag' = tag /\ Bad' = Bad
        /\ torn' = {tag[b] : b \in Block \ Bad} \ {NoTag}
    BY <1>1 DEF FmtErased, flashVars, Bad
  <2> QED BY <2>1 DEF FormatFresh
<1>2. CASE FmtTag
  <2> SUFFICES ASSUME NEW b \in Block \ Bad'
               PROVE  tag'[b] \in torn' \cup {NoTag} \/ (b < loop'.i /\ tag'[b] < loop'.n)
    BY DEF FormatFresh
  <2>1. b \in Block \ Bad /\ b \in Nat /\ tag[b] \in Nat
    BY <1>0, <1>2, TagEffect, GeometryAssumption DEF Bad, Block
  <2>2. tag[b] \in torn \cup {NoTag} \/ (b < loop.i /\ tag[b] < loop.n)
    BY <1>2, <2>1, TagEffect DEF FormatFresh
  <2>3. CASE b # loop.i
    BY <1>0, <1>2, <2>1, <2>2, <2>3, TagEffect
  <2>4. CASE b = loop.i
    BY <1>0, <1>2, <2>1, <2>4, TagEffect
  <2> QED BY <2>3, <2>4
<1>3. CASE \/ Boot \/ FmtErase \/ FmtMark \/ FmtMark2 \/ FmtTagged \/ WriteDone \/ Outside
           \/ ReadDone \/ PowerCut \/ CopyNoBlock \/ BitError
  <2>1. pc' # "fmtTag"
    BY <1>3 DEF Boot, StartFormat, FmtErase, FmtMark, FmtMark2, FmtTagged, WriteDone, Outside,
                ReadDone, PowerCut, CopyNoBlock, BitError
  <2> QED BY <2>1 DEF FormatFresh
<1>4. CASE Request
  BY <1>4, RequestEffect DEF FormatFresh
<1>5. CASE Working
  <2>1. pc' # "fmtTag"
    BY <1>5, JobGoesOn DEF Copying, Refreshing
  <2> QED BY <2>1 DEF FormatFresh
<1>6. CASE UNCHANGED vars
  BY <1>6 DEF vars, flashVars, ghostVars, FormatFresh, Bad
<1> QED BY <1>1, <1>2, <1>3, <1>4, <1>5, <1>6 DEF Next, Step, Working

-----------------------------------------------------------------------------
\* One carrier: a step that adds none, and does not forget what went wrong.
LEMMA FewerCarriers ==
  ASSUME OneCarrier, torn \subseteq torn', adrift \subseteq adrift',
         \A l \in Block : Carriers(l, bad', tag') \subseteq Carriers(l, bad, tag),
         pc \notin Copying \/ (pc' \in Copying /\ cp'.src = cp.src /\ cp'.dst = cp.dst)
  PROVE  OneCarrier'
<1> SUFFICES ASSUME NEW l \in Block, l \notin torn', l \notin adrift',
                    NEW b \in Carriers(l, bad', tag'), NEW c \in Carriers(l, bad', tag')
             PROVE  b = c \/ (pc' \in Copying /\ {b, c} = {cp'.src, cp'.dst})
  BY DEF OneCarrier, Kept
<1>1. l \in Kept /\ b \in Carriers(l, bad, tag) /\ c \in Carriers(l, bad, tag)
  BY DEF Kept
<1>2. b = c \/ (pc \in Copying /\ {b, c} = {cp.src, cp.dst})
  BY <1>1 DEF OneCarrier
<1> QED BY <1>2

\* A move begins: the block carries its own number, or one given up.
LEMMA MoveIsOwn ==
  ASSUME TypeOK, Safe, TableTrue, OneCarrier, UNCHANGED <<tag, bad, torn>>,
         adrift' = adrift \cup Entangled, pc \in {"write", "wrUsed", "read"},
         HereBlk \in Block, pc' = "cpFind", cp'.src = HereBlk, HereLbn' = HereLbn
  PROVE  OneCarrier' /\ OwnTag'
<1>1. Mounted /\ pc \notin Copying
  BY DEF Mounted, Formatting, Copying
<1>2. OneCarrier'
  BY <1>1, FewerCarriers
<1>3. HereLbn \in Block /\ lut[HereLbn] = HereBlk
  BY GeometryAssumption DEF HereBlk, Pbn, NoBlock, Block
<1>4. HereLbn \notin adrift => tag[HereBlk] = HereLbn
  BY <1>1, <1>3, EntryIsCarrier
<1>5. ASSUME NEW l \in Block, l \notin torn, l \notin adrift', tag[HereBlk] = l
      PROVE  l = HereLbn
  <2>1. HereBlk \in Carriers(l, bad, tag)
    <3>1. tag[HereBlk] \notin Forsaken
      BY <1>5, GeometryAssumption DEF Block, NoTag, Forsaken
    <3>2. HereBlk \notin Bad
      BY <1>1, <1>3, <3>1 DEF Safe, TableSafe
    <3> QED BY <1>5, <3>2, CarrierIs DEF Bad
  <2>2. l \in Kept /\ lut[l] \in Carriers(l, bad, tag)
    BY <1>1, <1>5, <2>1 DEF Kept, TableTrue
  <2>3. lut[l] = HereBlk
    BY <1>1, <2>1, <2>2 DEF OneCarrier
  <2>4. HereLbn \notin adrift
    BY <1>3, <1>5, <2>3 DEF Entangled
  <2> QED BY <1>4, <1>5, <2>4
<1>6. OwnTag'
  BY <1>4, <1>5 DEF OwnTag, Kept, Copying
<1> QED BY <1>2, <1>6

\* The steps that leave the layer outside a move and add no carrier.
LEMMA QuietOwn ==
  ASSUME OneCarrier, UNCHANGED <<tag, bad>>, torn \subseteq torn', adrift \subseteq adrift',
         pc \notin Copying, pc' \notin {"cpFind"} \cup Copying
  PROVE  OneCarrier' /\ OwnTag'
BY FewerCarriers DEF OwnTag

\* The steps of a request that may begin a move.
LEMMA BeginsOwn ==
  ASSUME TypeOK, Safe, TableTrue, OneCarrier, WriteInPlace \/ WriteMark \/ WriteMove \/ ReadRefresh
  PROVE  OneCarrier' /\ OwnTag'
<1>1. /\ UNCHANGED <<tag, bad, torn>> /\ HereBlk \in Block
      /\ pc \in {"write", "wrUsed", "read"}
      /\ \/ pc' = "cpFind" /\ cp'.src = HereBlk /\ HereLbn' = HereLbn
            /\ adrift' = adrift \cup Entangled
         \/ pc' \in {"write", "wrUsed"} /\ adrift' = adrift
  <2>0. job \in Jobs
    BY DEF TypeOK, JobTypeOK
  <2>1. ASSUME NEW n, NEW buf, StartCopy(n, buf)
        PROVE  /\ pc' = "cpFind" /\ cp'.src = HereBlk /\ HereLbn' = HereLbn
               /\ adrift' = adrift \cup Entangled
    BY <2>0, <2>1 DEF StartCopy, HereLbn, Here, Jobs
  <2>2. CASE WriteInPlace
    <3>1. UNCHANGED <<tag, bad, torn>> /\ pc = "write" /\ HereBlk \in Block
      BY <2>2, HereTypes DEF WriteInPlace, Program, flashVars
    <3>2. \/ StartCopy(InBlock, Chunk(InBlock))
          \/ pc' \in {"write", "wrUsed"} /\ adrift' = adrift
      BY <2>2 DEF WriteInPlace
    <3> QED BY <2>1, <3>1, <3>2
  <2>3. CASE WriteMark
    <3>1. UNCHANGED <<tag, bad, torn>> /\ pc = "wrUsed" /\ HereBlk \in Block
      BY <2>3 DEF WriteMark, MarkUsed, flashVars, TypeOK, ControlOK
    <3>2. \/ /\ pc' = "cpFind" /\ cp'.src = HereBlk /\ adrift' = adrift \cup Entangled
             /\ job' = [job EXCEPT !.w = InBlock, !.marked = HereBlk]
          \/ pc' = "write" /\ adrift' = adrift
      BY <2>3 DEF WriteMark
    <3>3. job' = [job EXCEPT !.w = InBlock, !.marked = HereBlk] => HereLbn' = HereLbn
      BY <2>0 DEF HereLbn, Here, Jobs
    <3> QED BY <3>1, <3>2, <3>3
  <2>4. CASE WriteMove \/ ReadRefresh
    BY <2>1, <2>4, HereTypes DEF WriteMove, ReadRefresh, flashVars
  <2> QED BY <2>2, <2>3, <2>4
<1>2. CASE pc' = "cpFind"
  BY <1>1, <1>2, MoveIsOwn
<1>3. CASE pc' \in {"write", "wrUsed"} /\ adrift' = adrift
  BY <1>1, <1>3, QuietOwn DEF Copying
<1> QED BY <1>1, <1>2, <1>3

\* The sector a request has come to is the same while the block is moved.
LEMMA HereInMove ==
  ASSUME job' = job
  PROVE  HereLbn' = HereLbn /\ HereCell' = HereCell
BY DEF HereLbn, HereCell, Here

\* The copy is one carrier more, of the number of the source.
LEMMA PageOwn ==
  ASSUME TypeOK, Safe, OneCarrier, OwnTag, CopyPageStep
  PROVE  OneCarrier' /\ OwnTag'
<1>1. /\ pc = "cpPage" /\ pc' \in Copying /\ cp'.src = cp.src /\ cp'.dst = cp.dst
      /\ adrift' = adrift /\ torn \subseteq torn' /\ tag'[cp.src] = tag[cp.src]
      /\ HereLbn' = HereLbn
  BY PageEffect, HereInMove DEF CopyPageStep, Copying
<1>2. ASSUME NEW l \in Block, l \notin torn', l \notin adrift',
             NEW b \in Carriers(l, bad', tag'), NEW c \in Carriers(l, bad', tag'), b # c
      PROVE  {b, c} = {cp.src, cp.dst}
  <2> DEFINE C == Carriers(l, bad, tag)
  <2>1. /\ b \in C \cup {cp.dst} /\ c \in C \cup {cp.dst}
        /\ cp.dst \in {b, c} => cp.src \in C
    <3>1. l \notin adrift
      BY <1>1, <1>2
    <3> QED BY <3>1, PageCarriers
  <2>2. \A x, y \in C : x = y \/ {x, y} = {cp.src, cp.dst}
    BY <1>1, <1>2 DEF OneCarrier, Kept
  <2> HIDE DEF C
  <2> QED BY <1>2, <2>1, <2>2
<1>3. OneCarrier'
  BY <1>1, <1>2 DEF OneCarrier, Kept
<1>4. OwnTag'
  BY <1>1 DEF OwnTag, Kept, Copying
<1> QED BY <1>3, <1>4

\* The rest of a move.
LEMMA MoveOwn ==
  ASSUME TypeOK, Safe, OneCarrier, OwnTag,
         CopyFind \/ CopyNoBlock \/ CopyMark \/ CopyMark2 \/ CopyUsed \/ CopyErase
  PROVE  OneCarrier' /\ OwnTag'
<1>1. CASE CopyFind
  <2>1. /\ UNCHANGED <<tag, bad>> /\ torn \subseteq torn' /\ adrift \subseteq adrift'
        /\ pc = "cpFind" /\ HereLbn' = HereLbn /\ cp'.src = cp.src
    BY <1>1, HereInMove DEF CopyFind, flashVars, TypeOK, Copies
  <2>2. OwnTag'
    BY <2>1 DEF OwnTag, Kept, Copying
  <2> QED BY <2>1, <2>2, FewerCarriers DEF Copying
<1>2. CASE CopyNoBlock
  BY <1>2, QuietOwn DEF CopyNoBlock, flashVars, Copying
<1>3. CASE CopyMark
  <2>1. /\ UNCHANGED <<tag, torn, adrift, cp>> /\ pc = "cpMark" /\ pc' = "cpMark2"
        /\ HereLbn' = HereLbn
    BY <1>3, MarkEffect, HereInMove DEF CopyMark, ghostVars
  <2>2. OneCarrier'
    BY <1>3, <2>1, MarkCarriers, FewerCarriers DEF Copying
  <2> QED BY <2>1, <2>2 DEF OwnTag, Kept, Copying
<1>6. CASE CopyMark2
  <2>1. /\ UNCHANGED <<tag, adrift, cp>> /\ pc = "cpMark2" /\ pc' = "cpFind"
        /\ HereLbn' = HereLbn /\ torn \subseteq torn'
    BY <1>6, MarkEffect, HereInMove DEF CopyMark2
  <2>2. ASSUME NEW l \in Kept', NEW b \in Carriers(l, bad', tag'), NEW c \in Carriers(l, bad', tag')
        PROVE  b = c
    <3>0. l \in Kept /\ l \in Block
      BY <2>1 DEF Kept
    <3>1. b \in Carriers(l, bad, tag) /\ c \in Carriers(l, bad, tag)
      BY <1>6, <3>0, MarkCarriers
    <3>2. b = c \/ {b, c} = {cp.src, cp.dst}
      BY <3>0, <3>1 DEF OneCarrier
    <3>3. ASSUME {b, c} = {cp.src, cp.dst} PROVE FALSE
      <4>1. tag[cp.src] = l /\ cp.dst \in Carriers(l, bad', tag')
        BY <3>0, <3>1, <3>3, OfCarrier
      <4>2. HereLbn = l
        BY <2>1, <3>0, <4>1 DEF OwnTag, Copying
      <4> QED BY <1>6, <3>0, <4>1, <4>2, MarkCarriers DEF Kept
    <3> QED BY <3>2, <3>3
  <2>3. OneCarrier'
    BY <2>2 DEF OneCarrier
  <2> QED BY <2>1, <2>3 DEF OwnTag, Kept, Copying
<1>4. CASE CopyUsed
  <2>1. /\ UNCHANGED <<tag, bad, torn, adrift, cp>> /\ pc' = "cpErase" /\ pc = "cpUsed"
        /\ HereLbn' = HereLbn
    BY <1>4, HereInMove DEF CopyUsed, MarkUsed, flashVars, ghostVars
  <2> QED BY <2>1, FewerCarriers DEF OwnTag, Kept, Copying
<1>5. CASE CopyErase
  <2>1. /\ adrift' = adrift /\ torn \subseteq torn' /\ pc = "cpErase"
        /\ pc' \in {"write", "rfBlank"}
    BY <1>5 DEF CopyErase
  <2>2. ASSUME NEW l \in Block, l \notin torn', l \notin adrift',
               NEW b \in Carriers(l, bad', tag'), NEW c \in Carriers(l, bad', tag')
        PROVE  b = c
    <3>1. /\ b \in Carriers(l, bad, tag) /\ c \in Carriers(l, bad, tag) /\ l \in Kept
          /\ HereLbn \notin torn' => cp.src \notin {b, c}
      BY <1>5, <2>1, <2>2, EraseCarriers DEF Kept
    <3>2. b = c \/ {b, c} = {cp.src, cp.dst}
      BY <3>1 DEF OneCarrier
    <3>3. cp.src \in Carriers(l, bad, tag) => HereLbn = l
      <4>1. cp.src \in Carriers(l, bad, tag) => tag[cp.src] = l
        BY DEF Carriers
      <4> QED BY <2>1, <3>1, <4>1 DEF OwnTag, Copying
    <3> QED BY <2>2, <3>1, <3>2, <3>3
  <2>3. OneCarrier'
    BY <2>1, <2>2 DEF OneCarrier, Kept
  <2> QED BY <2>1, <2>3 DEF OwnTag, Copying
<1> QED BY <1>1, <1>2, <1>3, <1>4, <1>5, <1>6

\* A format: no carrier is left that is not given up, and each number is written once.
LEMMA FormatOwn ==
  ASSUME TypeOK, OneCarrier, FormatFresh,
         Boot \/ FmtErase \/ FmtMark \/ FmtMark2 \/ FmtErased \/ FmtTag \/ FmtTagged
  PROVE  OneCarrier' /\ OwnTag'
<1>0. tag \in [Block -> 0 .. Blocks]
  BY DEF TypeOK, FlashTypeOK
<1>1. CASE Boot \/ FmtTagged
  <2>1. /\ UNCHANGED <<tag, bad, torn, adrift>> /\ pc \in {"off", "fmtTag"}
        /\ pc' \in {"fmtErase", "ready", "off"}
    BY <1>1 DEF Boot, FmtTagged, StartFormat, flashVars
  <2> QED BY <2>1, QuietOwn DEF Copying
<1>2. CASE FmtErase \/ FmtMark \/ FmtMark2
  <2>1. /\ UNCHANGED <<torn, adrift>> /\ pc \in Formatting /\ pc' \in Formatting
        /\ \/ tag' = tag /\ bad' = bad
           \/ tag' = [tag EXCEPT ![loop.i] = NoTag] /\ bad' = [p \in {0, 1} |-> bad[p] \ {loop.i}]
           \/ tag' = tag /\ Bad \subseteq Bad' /\ Bad' \subseteq Bad \cup {loop.i}
    <3>1. CASE FmtErase
      BY <3>1 DEF FmtErase, Erase, flashVars, ghostVars, Formatting
    <3>2. CASE FmtMark \/ FmtMark2
      BY <3>2, MarkEffect DEF FmtMark, FmtMark2, ghostVars, Formatting
    <3> QED BY <1>2, <3>1, <3>2
  <2>2. \A l \in Block : Carriers(l, bad', tag') \subseteq Carriers(l, bad, tag)
    BY <2>1, LostCarriers
  <2>3. OneCarrier'
    BY <2>1, <2>2, FewerCarriers DEF Copying, Formatting
  <2> QED BY <2>1, <2>3 DEF OwnTag, Copying, Formatting
<1>3. CASE FmtErased
  <2>1. /\ UNCHANGED <<tag, bad>> /\ pc' \in {"off", "fmtTag"}
        /\ torn' = {tag[b] : b \in Block \ Bad} \ {NoTag}
    BY <1>3 DEF FmtErased, flashVars
  <2>2. ASSUME NEW l \in Block, l \notin torn', NEW b \in Carriers(l, bad', tag')
        PROVE  FALSE
    BY <2>1, <2>2, OfCarrier
  <2>3. OneCarrier'
    BY <2>2 DEF OneCarrier, Kept
  <2> QED BY <2>1, <2>3 DEF OwnTag, Copying
<1>4. CASE FmtTag
  <2>1. /\ UNCHANGED <<bad, adrift>> /\ torn \subseteq torn' /\ pc = "fmtTag" /\ pc' = pc
        /\ loop.i \in Block /\ loop.n \in Nat
        /\ \A b \in Block : b # loop.i => tag'[b] = tag[b]
        /\ tag' = tag \/ tag'[loop.i] \in torn' \cup {NoTag, loop.n}
    BY <1>4, TagEffect
  <2>2. ASSUME NEW l \in Block, l \notin torn', l \notin adrift',
               NEW b \in Carriers(l, bad', tag'), NEW c \in Carriers(l, bad', tag')
        PROVE  b = c
    <3>1. /\ b \in Block /\ b \notin Bad /\ tag'[b] = l
          /\ c \in Block /\ c \notin Bad /\ tag'[c] = l
      BY <2>1, CarrierIs DEF Bad
    <3>0. l # NoTag /\ l \in Nat
      BY GeometryAssumption DEF Block, NoTag
    <3>2. CASE tag' # tag /\ tag'[loop.i] = l
      <4>1. l = loop.n
        BY <2>1, <2>2, <3>0, <3>2
      <4>2. \A x \in Block \ Bad : tag[x] # l
        <5> SUFFICES ASSUME NEW x \in Block \ Bad, tag[x] = l PROVE FALSE
          OBVIOUS
        <5>1. tag[x] \in torn \cup {NoTag} \/ tag[x] < loop.n
          BY <2>1 DEF FormatFresh
        <5> QED BY <2>1, <2>2, <3>0, <4>1, <5>1
      <4>3. b = loop.i /\ c = loop.i
        BY <2>1, <3>1, <4>2
      <4> QED BY <4>3
    <3>3. CASE tag' = tag \/ tag'[loop.i] # l
      <4>1. tag[b] = l /\ tag[c] = l
        BY <2>1, <3>1, <3>3
      <4>2. b \in Carriers(l, bad, tag) /\ c \in Carriers(l, bad, tag) /\ l \in Kept
        BY <2>1, <2>2, <3>1, <4>1, CarrierIs DEF Kept, Bad
      <4> QED BY <2>1, <4>2 DEF OneCarrier, Copying
    <3> QED BY <3>2, <3>3
  <2>3. OneCarrier'
    BY <2>2 DEF OneCarrier, Kept
  <2> QED BY <2>1, <2>3 DEF OwnTag, Copying
<1> QED BY <1>1, <1>2, <1>3, <1>4

\* Power lost in a move: the number that two blocks may claim is torn.
LEMMA CutOwn ==
  ASSUME TypeOK, Safe, OneCarrier, OwnTag, PowerCut
  PROVE  OneCarrier' /\ OwnTag'
<1>1. /\ UNCHANGED <<tag, bad, adrift>> /\ pc' = "off"
      /\ torn' = IF Moving THEN torn \cup {HereLbn} ELSE torn
  BY DEF PowerCut, flashVars
<1>2. ASSUME NEW l \in Block, l \notin torn', l \notin adrift',
             NEW b \in Carriers(l, bad, tag), NEW c \in Carriers(l, bad, tag), b # c
      PROVE  FALSE
  <2>1. l \in Kept
    BY <1>1, <1>2 DEF Kept
  <2>2. pc \in Copying /\ {b, c} = {cp.src, cp.dst}
    BY <1>2, <2>1 DEF OneCarrier
  <2>3. tag[cp.src] = l /\ tag[cp.dst] = l /\ l # NoTag
    BY <2>2, OfCarrier
  <2>4. l = HereLbn
    BY <2>1, <2>2, <2>3 DEF OwnTag
  <2>5. Moving
    <3>1. cp.dst \notin Bad
      BY <1>2, <2>1, <2>2, OfCarrier
    <3> QED BY <2>2, <2>3, <3>1 DEF Moving, Copying
  <2> QED BY <1>1, <1>2, <2>4, <2>5
<1> QED BY <1>1, <1>2 DEF OneCarrier, Kept, OwnTag, Copying

\* Every step keeps one carrier for a number that nothing went wrong with.
LEMMA OwnNext ==
  ASSUME TypeOK, Safe, TableTrue, OneCarrier, FormatFresh, OwnTag, [Next]_vars
  PROVE  OneCarrier' /\ OwnTag'
<1>1. CASE Request \/ BitError \/ WriteDone \/ Outside \/ ReadDone \/ ReadPage
  <2>1. /\ UNCHANGED <<tag, bad, torn, adrift>> /\ pc' \in {"ready", "write", "read"}
        /\ pc \in {"ready", "write", "read"}
    <3>1. CASE Request
      BY <3>1, RequestEffect
    <3>2. CASE BitError \/ WriteDone \/ Outside \/ ReadDone \/ ReadPage
      BY <3>2 DEF WriteDone, Outside, ReadDone, ReadPage, BitError, flashVars, ghostVars
    <3> QED BY <1>1, <3>1, <3>2
  <2> QED BY <2>1, QuietOwn DEF Copying
<1>2. CASE RefreshBlank \/ RefreshZero \/ RefreshFill \/ RefreshErase \/ RefreshMark
           \/ RefreshMark2
  <2>1. /\ \A l \in Block : Carriers(l, bad', tag') \subseteq Carriers(l, bad, tag)
        /\ pc \in Refreshing /\ pc' \in Refreshing \cup {"read"}
        /\ UNCHANGED <<torn, adrift>>
    BY <1>2, RefreshCarriers
  <2>2. OneCarrier'
    BY <2>1, FewerCarriers DEF Copying, Refreshing
  <2> QED BY <2>1, <2>2 DEF OwnTag, Copying, Refreshing
<1>3. CASE WriteInPlace \/ WriteMark \/ WriteMove \/ ReadRefresh
  BY <1>3, BeginsOwn
<1>4. CASE \/ CopyFind \/ CopyNoBlock \/ CopyPageStep \/ CopyMark \/ CopyMark2 \/ CopyUsed
           \/ CopyErase
  BY <1>4, PageOwn, MoveOwn
<1>5. CASE \/ Boot \/ FmtErase \/ FmtMark \/ FmtMark2 \/ FmtErased \/ FmtTag \/ FmtTagged
           \/ PowerCut
  BY <1>5, FormatOwn, CutOwn
<1>6. CASE UNCHANGED vars
  <2>1. UNCHANGED <<tag, bad, torn, adrift, pc, cp, job>>
    BY <1>6 DEF vars, flashVars, ghostVars
  <2> QED BY <2>1, HereInMove DEF OneCarrier, OwnTag, Kept
<1> QED BY <1>1, <1>2, <1>3, <1>4, <1>5, <1>6 DEF Next, Step

-----------------------------------------------------------------------------
(***************************************************************************)
(* The copy of a block, page by page                                       *)
(***************************************************************************)
\* Products grow with a factor.
LEMMA ProductGrows ==
  ASSUME NEW n \in Nat, NEW a \in Nat, NEW b \in Nat, a <= b
  PROVE  n * a <= n * b
OBVIOUS

\* The place of a sector in its block, and in its page, is the only one.
LEMMA OnePlace ==
  ASSUME NEW n \in Nat \ {0}, NEW x \in Nat, NEW q \in Nat, NEW r \in 0 .. n - 1,
         x = n * q + r
  PROVE  x \div n = q /\ x % n = r
<1>0. n \in Nat /\ n > 0
  OBVIOUS
<1> DEFINE d == x \div n
           m == x % n
<1>1. d \in Nat /\ m \in 0 .. n - 1 /\ x = n * d + m
  BY <1>0
<1> HIDE DEF d, m
<1>2. d = q
  <2>1. ASSUME d < q PROVE FALSE
    <3>1. n * (d + 1) <= n * q
      BY <1>0, <1>1, <2>1, ProductGrows
    <3>2. n * (d + 1) = n * d + n
      BY <1>0, <1>1
    <3> QED BY <1>0, <1>1, <3>1, <3>2
  <2>2. ASSUME q < d PROVE FALSE
    <3>1. n * (q + 1) <= n * d
      BY <1>0, <1>1, <2>2, ProductGrows
    <3>2. n * (q + 1) = n * q + n
      BY <1>0
    <3> QED BY <1>0, <1>1, <3>1, <3>2
  <2> QED BY <1>1, <2>1, <2>2
<1>3. m = r
  BY <1>0, <1>1, <1>2
<1> QED BY <1>2, <1>3 DEF d, m

\* The sectors of a page lie between its first and the next one's.
LEMMA PageBounds ==
  ASSUME NEW k \in Cell
  PROVE  /\ PageOf(k) \in 0 .. Pages - 1
         /\ k = PageSectors * PageOf(k) + (k % PageSectors)
         /\ k % PageSectors \in 0 .. PageSectors - 1
         /\ \A p \in Nat :
              /\ PageOf(k) < p <=> k < PageSectors * p
              /\ PageOf(k) = p => PageSectors * p <= k /\ k < PageSectors * (p + 1)
<1>0. PageSectors \in Nat /\ PageSectors > 0 /\ Pages \in Nat
  BY GeometryAssumption
<1>1. k \in Nat /\ k < PageSectors * Pages
  BY <1>0 DEF Cell, BlockSectors
<1> DEFINE q == k \div PageSectors
           r == k % PageSectors
<1>2. q \in Nat /\ r \in 0 .. PageSectors - 1 /\ k = PageSectors * q + r
  BY <1>0, <1>1
<1> HIDE DEF q, r
<1>3. ASSUME NEW p \in Nat PROVE q < p <=> k < PageSectors * p
  <2>1. ASSUME q < p PROVE k < PageSectors * p
    <3>1. PageSectors * (q + 1) <= PageSectors * p
      BY <1>0, <1>2, <2>1, ProductGrows
    <3>2. PageSectors * (q + 1) = PageSectors * q + PageSectors
      BY <1>0, <1>2
    <3>3. PageSectors * q \in Int /\ PageSectors * p \in Int
      BY <1>0, <1>2
    <3> QED BY <1>0, <1>2, <3>1, <3>2, <3>3
  <2>2. ASSUME p <= q PROVE PageSectors * p <= k
    <3>1. PageSectors * p <= PageSectors * q
      BY <1>0, <1>2, <2>2, ProductGrows
    <3>3. PageSectors * q \in Int /\ PageSectors * p \in Int
      BY <1>0, <1>2
    <3> QED BY <1>2, <3>1, <3>3
  <2>3. PageSectors * p \in Int
    BY <1>0
  <2> QED BY <1>1, <1>2, <2>1, <2>2, <2>3
<1>4. q < Pages
  BY <1>0, <1>1, <1>3
<1>5. \A p \in Nat : q = p => PageSectors * p <= k /\ k < PageSectors * (p + 1)
  <2> SUFFICES ASSUME NEW p \in Nat, q = p
               PROVE  PageSectors * p <= k /\ k < PageSectors * (p + 1)
    OBVIOUS
  <2>1. k < PageSectors * (p + 1)
    BY <1>3
  <2>2. PageSectors * q \in Int
    BY <1>0, <1>2
  <2> QED BY <1>2, <2>1, <2>2
<1> QED BY <1>0, <1>2, <1>3, <1>4, <1>5 DEF PageOf, q, r

\* The data of a chunk, item by item.
LEMMA ChunkItems ==
  ASSUME TypeOK, job.kind = "write", NEW n \in Nat, job.i + n <= job.len
  PROVE  /\ Len(Chunk(n)) = n
         /\ \A j \in 1 .. n : Chunk(n)[j] = job.data[job.i + j] /\ Chunk(n)[j] \in Datum
<1>1. job.data \in Seq(Datum) /\ job.i \in Nat /\ job.len = Len(job.data)
  BY DEF TypeOK, JobTypeOK, Jobs
<1>2. Len(Chunk(n)) = n
  BY <1>1 DEF Chunk
<1>3. \A j \in 1 .. n : Chunk(n)[j] = job.data[job.i + j]
  BY <1>1 DEF Chunk
<1>4. \A j \in 1 .. n : job.data[job.i + j] \in Datum
  BY <1>1
<1> QED BY <1>2, <1>3, <1>4

\* A chunk ends with its page, or with its block.
LEMMA ChunkFits ==
  ASSUME TypeOK
  PROVE  HereCell + InPage <= BlockSectors /\ HereCell + InBlock <= BlockSectors
<1>0. job.len \in Nat /\ job.i \in Nat
  BY DEF TypeOK, JobTypeOK, Jobs
<1>1. HereCell \in Cell /\ InPage \in Nat /\ InBlock \in Nat
  BY HereTypes
<1>2. InPage <= PageSectors - (HereCell % PageSectors)
  <2>1. HereCol \in 0 .. PageSectors - 1
    BY HereTypes
  <2> QED BY <1>0, <2>1, GeometryAssumption DEF InPage, Least, HereCol
<1>3. HereCell + InPage <= BlockSectors
  BY <1>1, <1>2, PageEnds
<1>4. BlockSectors \in Nat /\ HereCell \in Nat
  BY <1>1, GeometryAssumption DEF BlockSectors, Cell
<1>5. HereCell + InBlock <= BlockSectors
  BY <1>0, <1>4 DEF InBlock, Least
<1> QED BY <1>3, <1>5

\* What a page programmed in place does to the chip.
LEMMA InPlaceEffect ==
  ASSUME TypeOK, WriteInPlace
  PROVE  /\ HereBlk \in Block /\ job.kind = "write" /\ pc = "write"
         /\ \A k \in HereCell .. HereCell + InPage - 1 : k \in Cell /\ main[HereBlk][k] = Blank
         /\ \A b \in Block, k \in Cell : b # HereBlk => main'[b][k] = main[b][k]
         /\ \A k \in Cell : k \notin HereCell .. HereCell + InPage - 1 =>
                              main'[HereBlk][k] = main[HereBlk][k]
         /\ pc' # "cpFind" => \A k \in 0 .. InPage - 1 :
                                main'[HereBlk][HereCell + k] = job.data[job.i + 1 + k]
         /\ \A k \in 0 .. InPage - 1 :
              main'[HereBlk][HereCell + k] \in {Blank, job.data[job.i + 1 + k]}
         /\ UNCHANGED <<weak, tag, used, bad, acked, torn, lut, valid>>
<1>1. /\ HereBlk \in Block /\ pc = "write" /\ job.kind = "write"
      /\ HereCell \in Cell /\ InPage \in Nat /\ job.i + InPage <= job.len
      /\ main \in [Block -> [Cell -> Val]]
      /\ job.i \in Nat
  BY HereTypes DEF WriteInPlace, TypeOK, ControlOK, FlashTypeOK, JobTypeOK, Jobs
<1>2. HereCell + InPage <= BlockSectors /\ BlockSectors \in Nat /\ HereCell \in Nat
  BY <1>1, ChunkFits, GeometryAssumption DEF BlockSectors, Cell
<1>3. \A k \in HereCell .. HereCell + InPage - 1 : k \in Cell /\ main[HereBlk][k] = Blank
  BY <1>1, <1>2 DEF WriteInPlace, Unwritten, Cell
<1>4. PICK o \in Ends("program") :
        /\ IF o.done THEN Program(HereBlk, HereCell, Chunk(InPage)) ELSE UNCHANGED flashVars
        /\ ~o.ok => StartCopy(InBlock, Chunk(InBlock))
  BY DEF WriteInPlace
<1>5. pc' # "cpFind" => o.done
  BY <1>4, OkIsDone DEF StartCopy
<1>6. UNCHANGED <<weak, tag, used, bad, acked, torn, lut, valid>>
  BY <1>4 DEF Program, flashVars, WriteInPlace, ramVars
<1>7. CASE o.done
  <2> DEFINE chunk == Chunk(InPage)
  <2>1. /\ Len(chunk) = InPage
        /\ \A j \in 1 .. InPage : chunk[j] = job.data[job.i + j]
    BY <1>1, ChunkItems
  <2>2. main' = [main EXCEPT ![HereBlk] = [k \in Cell |->
                   IF k - HereCell + 1 \in 1 .. Len(chunk)
                   THEN Overlay(main[HereBlk][k], chunk[k - HereCell + 1])
                   ELSE main[HereBlk][k]]]
    BY <1>4, <1>7 DEF Program
  <2> HIDE DEF chunk
  <2>3. \A b \in Block, k \in Cell : b # HereBlk => main'[b][k] = main[b][k]
    BY <1>1, <2>2
  <2>4. \A k \in Cell : main'[HereBlk][k] = IF k - HereCell + 1 \in 1 .. Len(chunk)
                   THEN Overlay(main[HereBlk][k], chunk[k - HereCell + 1])
                   ELSE main[HereBlk][k]
    BY <1>1, <2>2
  <2>5. \A k \in Cell : k \notin HereCell .. HereCell + InPage - 1 =>
                          main'[HereBlk][k] = main[HereBlk][k]
    BY <1>1, <1>2, <2>1, <2>4 DEF Cell
  <2>6. ASSUME NEW k \in 0 .. InPage - 1
        PROVE  main'[HereBlk][HereCell + k] = job.data[job.i + 1 + k]
    <3>1. HereCell + k \in HereCell .. HereCell + InPage - 1
      BY <1>1, <1>2
    <3>2. HereCell + k \in Cell /\ main[HereBlk][HereCell + k] = Blank
      BY <1>3, <3>1
    <3>3. HereCell + k - HereCell + 1 = k + 1 /\ k + 1 \in 1 .. Len(chunk)
          /\ job.i + (k + 1) = job.i + 1 + k
      BY <1>1, <1>2, <2>1
    <3>4. main'[HereBlk][HereCell + k] = chunk[k + 1]
      <4> DEFINE c == HereCell + k
      <4>1. c - HereCell + 1 = k + 1 /\ c - HereCell + 1 \in 1 .. Len(chunk) /\ c \in Cell
        BY <1>1, <1>2, <2>1, <3>2
      <4>2. main'[HereBlk][c] = Overlay(Blank, chunk[k + 1])
        <5> HIDE DEF c
        <5>1. main'[HereBlk][c] = Overlay(main[HereBlk][c], chunk[c - HereCell + 1])
          BY <2>4, <4>1
        <5> QED BY <3>2, <4>1, <5>1 DEF c
      <4> QED BY <4>2 DEF Overlay
    <3> QED BY <2>1, <3>3, <3>4
  <2> QED BY <1>1, <1>3, <1>6, <2>3, <2>5, <2>6
<1>8. CASE ~o.done
  <2>1. \A k \in 0 .. InPage - 1 : main[HereBlk][HereCell + k] = Blank
    BY <1>1, <1>2, <1>3
  <2> QED BY <1>1, <1>3, <1>4, <1>5, <1>6, <1>8, <2>1 DEF flashVars
<1> QED BY <1>7, <1>8

\* Before the block is marked used it holds the data.
LEMMA ProgrammedNext ==
  ASSUME TypeOK, Programmed, [Next]_vars
  PROVE  Programmed'
<1>1. CASE WriteInPlace
  <2> SUFFICES ASSUME pc' = "wrUsed" PROVE Programmed'
    BY DEF Programmed
  <2>1. /\ \A k \in 0 .. InPage - 1 :
             main'[HereBlk][HereCell + k] = job.data[job.i + 1 + k]
        /\ UNCHANGED <<lut, valid>> /\ pc = "write"
    BY <1>1, InPlaceEffect
  <2>2. job' = job
    BY <1>1, <2>1 DEF WriteInPlace, StartCopy
  <2>3. HereBlk' = HereBlk /\ HereCell' = HereCell /\ InPage' = InPage
    BY <2>1, <2>2, HereStays DEF HereCell, InPage, HereCol, Here
  <2> QED BY <2>1, <2>2, <2>3 DEF Programmed
<1>2. CASE UNCHANGED vars
  <2>1. UNCHANGED <<main, lut, valid, job, pc>>
    BY <1>2 DEF vars, flashVars, ramVars
  <2>2. HereBlk' = HereBlk /\ HereCell' = HereCell /\ InPage' = InPage
    BY <2>1, HereStays DEF HereCell, InPage, HereCol, Here
  <2> QED BY <2>1, <2>2 DEF Programmed
<1>3. CASE Next /\ ~WriteInPlace
  <2>1. pc' # "wrUsed"
    <3>1. CASE Working
      BY <1>3, <3>1 DEF Working, WriteMark, WriteMove, ReadPage, ReadRefresh, StartCopy,
         CopyFind, CopyPageStep, CopyMark, CopyMark2, CopyUsed, CopyErase,
         RefreshBlank, RefreshZero, RefreshFill, RefreshErase, RefreshMark, RefreshMark2
    <3>2. CASE \/ Boot \/ FmtErase \/ FmtMark \/ FmtMark2 \/ FmtErased \/ FmtTag \/ FmtTagged
               \/ PowerCut
      BY <3>2 DEF Boot, StartFormat, FmtErase, FmtMark, FmtMark2, FmtErased, FmtTag, FmtTagged,
         PowerCut
    <3>3. CASE BitError \/ WriteDone \/ Outside \/ ReadDone \/ CopyNoBlock
      BY <3>3 DEF BitError, WriteDone, Outside, ReadDone, CopyNoBlock
    <3>4. CASE Request
      BY <3>4, RequestEffect
    <3> QED BY <1>3, <3>1, <3>2, <3>3, <3>4 DEF Next, Step, Working
  <2> QED BY <2>1 DEF Programmed
<1> QED BY <1>1, <1>2, <1>3

\* Where a page of a move stands to the new data: n sectors from H on, of which len are
\* left, from F on; p is the page, no page before H's, and G is where the next begins.
MoveAt(H, n, p, F, len, col, w, G) ==
  /\ H \in Cell /\ n \in Nat /\ p \in Nat /\ p >= PageOf(H)
  /\ F = IF p > PageOf(H) THEN p * PageSectors ELSE H
  /\ len = IF F < H + n THEN H + n - F ELSE 0
  /\ col \in 0 .. PageSectors - 1 /\ (len > 0 => col = F % PageSectors)
  /\ w = Least(len, PageSectors - col)
  /\ G = (p + 1) * PageSectors

\* What the page gets is the new data that belong on it, and what is left begins on the next.
LEMMA PageOfMove ==
  ASSUME NEW H, NEW n, NEW p, NEW F, NEW len, NEW col, NEW w, NEW G,
         MoveAt(H, n, p, F, len, col, w, G)
  PROVE  /\ F \in Nat /\ len \in Nat /\ w \in 0 .. len /\ G \in Nat
         /\ len > 0 => w > 0
         /\ len - w = IF G < H + n THEN H + n - G ELSE 0
         /\ len - w > 0 => F + w = G
         /\ G % PageSectors = 0
         /\ \A k \in Cell : PageOf(k) = p =>
              /\ k - (p * PageSectors + col) + 1 \in 1 .. w <=> k - H \in 0 .. n - 1
              /\ k - H \in 0 .. n - 1 => k - (p * PageSectors + col) + 1 = k - F + 1
<1> USE DEF MoveAt
<1>0. /\ PageSectors \in Nat /\ PageSectors > 0 /\ H \in Nat
      /\ p * PageSectors \in Nat /\ G = p * PageSectors + PageSectors
  BY GeometryAssumption DEF Cell, BlockSectors
<1> DEFINE S == p * PageSectors
<1>1. S \in Nat /\ G = S + PageSectors /\ G \in Nat
  BY <1>0
<1>2. G % PageSectors = 0
  <2>1. /\ G = PageSectors * (p + 1) + 0 /\ p + 1 \in Nat
        /\ PageSectors \in Nat \ {0} /\ 0 \in 0 .. PageSectors - 1
    BY <1>0
  <2> HIDE DEF MoveAt
  <2> QED BY <1>1, <2>1, OnePlace
<1>3. /\ p = PageOf(H) => S <= H /\ H < S + PageSectors /\ H % PageSectors = H - S
      /\ p > PageOf(H) => H < S
  <2>1. PageOf(H) \in Nat /\ H = PageSectors * PageOf(H) + (H % PageSectors)
        /\ H % PageSectors \in 0 .. PageSectors - 1
        /\ (PageOf(H) < p <=> H < PageSectors * p)
    BY <1>0, PageBounds
  <2>2. PageSectors * p = S
    BY <1>0
  <2>3. p = PageOf(H) => H = S + (H % PageSectors)
    BY <2>1, <2>2
  <2> HIDE DEF S
  <2> QED BY <1>0, <1>1, <2>1, <2>2, <2>3
<1>4. S % PageSectors = 0
  <2>1. /\ S = PageSectors * p + 0 /\ p \in Nat
        /\ PageSectors \in Nat \ {0} /\ 0 \in 0 .. PageSectors - 1
    BY <1>0
  <2> HIDE DEF MoveAt, S
  <2> QED BY <1>1, <2>1, OnePlace
<1>5. \A k \in Cell : k \in Nat /\ (PageOf(k) = p => S <= k /\ k < G)
  <2> SUFFICES ASSUME NEW k \in Cell PROVE k \in Nat /\ (PageOf(k) = p => S <= k /\ k < G)
    OBVIOUS
  <2>1. PageOf(k) = p => PageSectors * p <= k /\ k < PageSectors * (p + 1)
    BY PageBounds
  <2>2. PageSectors * p = S /\ PageSectors * (p + 1) = G
    BY <1>0
  <2> QED BY <1>0, <2>1, <2>2 DEF Cell
<1>6. PageOf(H) \in Nat
  BY PageBounds
<1> HIDE DEF S
<1>7. /\ F \in Nat /\ S <= F /\ F < S + PageSectors /\ F % PageSectors = F - S
      /\ F = H \/ (F = S /\ H < S)
  <2>1. CASE p > PageOf(H)
    BY <1>0, <1>1, <1>3, <1>4, <2>1 DEF S
  <2>2. CASE p = PageOf(H)
    BY <1>0, <1>1, <1>3, <1>6, <2>2
  <2> QED BY <1>6, <2>1, <2>2
<1>8. len \in Nat /\ (len > 0 => S + col = F)
  BY <1>0, <1>1, <1>7
<1>9. w = IF len <= PageSectors - col THEN len ELSE PageSectors - col
  BY DEF Least
<1>10. w \in 0 .. len /\ (len > 0 => w > 0)
  BY <1>0, <1>8, <1>9
<1>11. len - w = (IF G < H + n THEN H + n - G ELSE 0) /\ (len - w > 0 => F + w = G)
  <2>1. CASE len > 0
    BY <1>0, <1>1, <1>7, <1>8, <1>9, <2>1
  <2>2. CASE len = 0
    BY <1>0, <1>1, <1>7, <1>9, <1>10, <2>2
  <2> QED BY <1>8, <2>1, <2>2
<1>12. ASSUME NEW k \in Cell, PageOf(k) = p
       PROVE  /\ k - (S + col) + 1 \in 1 .. w <=> k - H \in 0 .. n - 1
              /\ k - H \in 0 .. n - 1 => k - (S + col) + 1 = k - F + 1
  <2>1. k \in Nat /\ S <= k /\ k < G
    BY <1>5, <1>12
  <2>2. CASE len > 0
    <3>1. k - (S + col) + 1 = k - F + 1
      BY <1>1, <1>7, <1>8, <2>1, <2>2
    <3>2. k - F + 1 \in 1 .. w <=> F <= k /\ k < F + w
      BY <1>7, <1>10, <2>1
    <3>3. k - H \in 0 .. n - 1 <=> H <= k /\ k < H + n
      BY <1>0, <2>1
    <3>4. F <= k <=> H <= k
      BY <1>0, <1>1, <1>7, <2>1
    <3>5. k < F + w <=> k < H + n
      BY <1>0, <1>1, <1>7, <1>8, <1>9, <2>1, <2>2
    <3> QED BY <3>1, <3>2, <3>3, <3>4, <3>5
  <2>3. CASE len = 0
    BY <1>0, <1>1, <1>7, <1>10, <2>1, <2>3
  <2> QED BY <1>8, <2>2, <2>3
<1> QED BY <1>1, <1>2, <1>7, <1>8, <1>10, <1>11, <1>12 DEF S

\* What is moved is the same while the request stands still and the source is left alone.
LEMMA MovedStays ==
  ASSUME job' = job, main'[cp'.src] = main[cp.src]
  PROVE  \A k : Moved(k)' = Moved(k)
<1>1. HereCell' = HereCell
  BY HereInMove
<1> QED BY <1>1 DEF Moved

\* The copy is another block than the source, if its number was not given up.
LEMMA CopyIsOther ==
  ASSUME TypeOK, Safe, OwnTag, pc \in Copying, HereLbn \in Kept
  PROVE  /\ cp.src \in Block /\ cp.dst \in Block /\ cp.dst # cp.src /\ cp.src \notin Bad
         /\ tag[cp.src] = HereLbn /\ HereLbn \notin Forsaken
         /\ cp.src \in Carriers(HereLbn, bad, tag)
<1>1. tag[cp.src] = HereLbn /\ HereLbn \in Block /\ HereLbn \notin Forsaken
  BY GeometryAssumption DEF OwnTag, Kept, Block, NoTag, Forsaken
<1>2. cp.src \notin Bad /\ cp.dst # cp.src
  BY <1>1 DEF Safe, MoveSafe, Forsaken
<1>3. cp.src \in Block /\ cp.dst \in Block
  BY DEF TypeOK, ControlOK
<1> QED BY <1>1, <1>2, <1>3, CarrierIs DEF Bad

\* The sectors of new data that the next page of a copy takes.
PageLen == IF cp.pg >= cp.page THEN Least(Len(cp.buf), PageSectors - cp.col) ELSE 0

\* A page programmed onto the copy: the new data from their column on, else the source's.
LEMMA PageWritten ==
  ASSUME TypeOK, CopyPageStep
  PROVE  /\ \A b \in Block : b # cp.dst => main'[b] = main[b]
         /\ pc' # "cpMark" => \A k \in Cell :
              main'[cp.dst][k] =
                IF PageOf(k) # cp.pg THEN main[cp.dst][k]
                ELSE LET n == k - (cp.pg * PageSectors + cp.col) + 1
                     IN Overlay(main[cp.dst][k],
                                IF n \in 1 .. PageLen THEN SubSeq(cp.buf, 1, PageLen)[n]
                                ELSE main[cp.src][k])
         /\ job' = job /\ cp' = [cp EXCEPT !.pg = @ + 1, !.col = IF PageLen > 0 THEN 0 ELSE @,
                                           !.buf = SubSeq(@, PageLen + 1, Len(@))]
         /\ pc' = "cpMark" => cp.pg < cp.page \/ torn' = torn \cup {HereLbn}
         /\ pc' \in {"cpMark", "cpUsed", "cpPage"} /\ (pc' = "cpUsed" => cp.pg = Pages - 1)
         /\ torn \subseteq torn' /\ UNCHANGED <<lut, acked, adrift>>
<1>0. /\ cp.dst \in Block /\ main \in [Block -> [Cell -> Val]] /\ cp.buf \in Seq(Val)
      /\ cp.pg \in Nat /\ cp.page \in Nat /\ cp.col \in 0 .. PageSectors - 1
  BY DEF CopyPageStep, TypeOK, ControlOK, Copying, FlashTypeOK, Copies
<1> DEFINE w == PageLen
           vals == SubSeq(cp.buf, 1, w)
<1>1. PICK o \in Ends("program") :
        /\ IF o.done THEN CopyPage(cp.src, cp.dst, cp.pg, cp.col, vals) ELSE UNCHANGED flashVars
        /\ cp' = [cp EXCEPT !.pg = @ + 1, !.col = IF w > 0 THEN 0 ELSE @,
                            !.buf = SubSeq(@, w + 1, Len(@))]
        /\ pc' = IF ~o.ok THEN "cpMark" ELSE IF cp.pg = Pages - 1 THEN "cpUsed" ELSE pc
        /\ torn' = IF ~o.ok /\ cp.pg >= cp.page THEN torn \cup {HereLbn} ELSE torn
  BY DEF CopyPageStep, PageLen
<1>2. /\ pc = "cpPage" /\ job' = job /\ UNCHANGED <<lut, acked, adrift>>
  BY DEF CopyPageStep, ramVars
<1>3. /\ pc' = "cpMark" => cp.pg < cp.page \/ torn' = torn \cup {HereLbn}
      /\ pc' \in {"cpMark", "cpUsed", "cpPage"} /\ (pc' = "cpUsed" => cp.pg = Pages - 1)
      /\ pc' # "cpMark" => o.done
      /\ torn \subseteq torn'
  BY <1>0, <1>1, <1>2, OkIsDone
<1>4. w \in Nat /\ w <= Len(cp.buf)
  BY <1>0, GeometryAssumption DEF Least, PageLen
<1>5. Len(vals) = w
  BY <1>0, <1>4
<1>6. CASE o.done
  <2> DEFINE n(k) == k - (cp.pg * PageSectors + cp.col) + 1
             row == [k \in Cell |->
                IF PageOf(k) # cp.pg THEN main[cp.dst][k]
                ELSE Overlay(main[cp.dst][k],
                             IF k \in {j \in Cell : PageOf(j) = cp.pg /\ n(j) \notin 1 .. Len(vals)}
                             THEN main[cp.src][k] ELSE vals[n(k)])]
  <2>1. main' = [main EXCEPT ![cp.dst] = row]
    BY <1>1, <1>6 DEF CopyPage
  <2>2. \A k \in Cell : row[k] = IF PageOf(k) # cp.pg THEN main[cp.dst][k]
                ELSE Overlay(main[cp.dst][k],
                             IF n(k) \in 1 .. w THEN vals[n(k)] ELSE main[cp.src][k])
    <3> HIDE DEF vals
    <3> QED BY <1>5
  <2> HIDE DEF row
  <2>3. main'[cp.dst] = row /\ \A b \in Block : b # cp.dst => main'[b] = main[b]
    BY <1>0, <2>1
  <2> QED BY <1>1, <1>2, <1>3, <2>2, <2>3
<1>7. CASE ~o.done
  <2>1. main' = main
    BY <1>1, <1>7 DEF flashVars
  <2> QED BY <1>1, <1>2, <1>3, <1>7, <2>1
<1> QED BY <1>6, <1>7

\* Page by page, the copy gets what it has to hold.
LEMMA PageTrue ==
  ASSUME TypeOK, Safe, OwnTag, CopyTrue, CopyPageStep
  PROVE  CopyTrue'
<1> DEFINE p == cp.pg
           w == PageLen
           len == Len(cp.buf)
           G == (p + 1) * PageSectors
<1>0. /\ pc = "cpPage" /\ job \in Jobs /\ cp \in Copies /\ cp.buf \in Seq(Val)
      /\ p \in Nat /\ p < Pages /\ cp.page \in Nat /\ cp.col \in 0 .. PageSectors - 1
      /\ HereCell \in Cell /\ job.w \in Nat /\ len \in Nat
      /\ main \in [Block -> [Cell -> Val]] /\ PageSectors \in Nat /\ PageSectors > 0
  <2>1. pc = "cpPage"
    BY DEF CopyPageStep
  <2>2. cp \in Copies /\ p < Pages
    BY <2>1 DEF TypeOK, ControlOK
  <2>3. /\ cp.buf \in Seq(Val) /\ p \in Nat /\ cp.page \in Nat
        /\ cp.col \in 0 .. PageSectors - 1
    BY <2>2 DEF Copies
  <2>4. job \in Jobs /\ job.w \in Nat /\ main \in [Block -> [Cell -> Val]]
    BY DEF TypeOK, JobTypeOK, Jobs, FlashTypeOK
  <2>5. HereCell \in Cell /\ PageSectors \in Nat /\ PageSectors > 0
    BY HereTypes, GeometryAssumption
  <2>6. len \in Nat
    BY <2>3
  <2> QED BY <2>1, <2>2, <2>3, <2>4, <2>5, <2>6
<1>1. /\ \A b \in Block : b # cp.dst => main'[b] = main[b]
      /\ pc' # "cpMark" => \A k \in Cell :
              main'[cp.dst][k] =
                IF PageOf(k) # p THEN main[cp.dst][k]
                ELSE LET n == k - (p * PageSectors + cp.col) + 1
                     IN Overlay(main[cp.dst][k],
                                IF n \in 1 .. w THEN SubSeq(cp.buf, 1, w)[n] ELSE main[cp.src][k])
      /\ job' = job /\ cp' = [cp EXCEPT !.pg = @ + 1, !.col = IF w > 0 THEN 0 ELSE @,
                                        !.buf = SubSeq(@, w + 1, Len(@))]
      /\ pc' = "cpMark" => p < cp.page \/ torn' = torn \cup {HereLbn}
      /\ pc' \in {"cpMark", "cpUsed", "cpPage"} /\ (pc' = "cpUsed" => p = Pages - 1)
      /\ torn \subseteq torn' /\ UNCHANGED <<lut, acked, adrift>>
  BY PageWritten
<1>2. /\ cp'.src = cp.src /\ cp'.dst = cp.dst /\ cp'.page = cp.page /\ cp'.pg = p + 1
      /\ cp'.col = (IF w > 0 THEN 0 ELSE cp.col)
      /\ cp'.buf = SubSeq(cp.buf, w + 1, len)
  BY <1>0, <1>1 DEF Copies
<1>3. HereCell' = HereCell /\ HereLbn' = HereLbn
  BY <1>1, HereInMove
<1>4. HereCell + job.w <= BlockSectors
  BY <1>0 DEF CopyTrue, Copying
<1> HIDE DEF p, w, len, G
<1>5. CASE HereLbn \notin Kept'
  BY <1>1, <1>3, <1>4, <1>5 DEF CopyTrue
<1>6. CASE HereLbn \in Kept'
  <2>1. HereLbn \in Kept /\ HereLbn \notin torn'
    BY <1>1, <1>6 DEF Kept
  <2>2. /\ cp.page = PageOf(HereCell)
        /\ len > 0 => cp.col = From % PageSectors
        /\ len = IF From < HereCell + job.w THEN HereCell + job.w - From ELSE 0
        /\ \A j \in 1 .. len : cp.buf[j] = Moved(From + j - 1)
        /\ \A k \in Cell : main[cp.dst][k] = IF PageOf(k) < p THEN Moved(k) ELSE Blank
    BY <1>0, <2>1 DEF CopyTrue, p, len
  <2>3. \A k : Moved(k)' = Moved(k)
    <3>1. cp.src \in Block /\ cp.dst # cp.src
      BY <1>0, <2>1, CopyIsOther DEF Copying
    <3> QED BY <1>1, <1>2, <3>1, MovedStays
  <2>4. CASE p < cp.page
    <3>1. w = 0 /\ From = HereCell
      BY <1>0, <2>4 DEF w, p, From, PageLen
    <3>2. cp'.buf = cp.buf /\ cp'.col = cp.col
      <4>1. SubSeq(cp.buf, 1, Len(cp.buf)) = cp.buf
        BY <1>0
      <4> QED BY <1>2, <3>1, <4>1 DEF len
    <3>3. From' = HereCell
      BY <1>0, <1>2, <1>3, <2>4 DEF From
    <3>4. \A k \in Cell : PageOf(k) = p => ~(k - HereCell \in 0 .. job.w - 1)
      <4> SUFFICES ASSUME NEW k \in Cell, PageOf(k) = p PROVE k < HereCell
        BY <1>0 DEF Cell
      <4>1. k < PageSectors * (p + 1)
        BY <1>0, PageBounds
      <4>2. PageSectors * (p + 1) <= HereCell
        <5>0. p + 1 \in Nat /\ ~(PageOf(HereCell) < p + 1)
          BY <1>0, <2>2, <2>4
        <5>1. ~(HereCell < PageSectors * (p + 1))
          BY <1>0, <5>0, PageBounds
        <5>2. PageSectors * (p + 1) \in Int /\ HereCell \in Int
          BY <1>0 DEF Cell
        <5> QED BY <5>1, <5>2
      <4>3. PageSectors * (p + 1) \in Int /\ HereCell \in Int /\ k \in Int
        BY <1>0 DEF Cell
      <4> QED BY <4>1, <4>2, <4>3
    <3>5. pc' # "cpMark" =>
            \A k \in Cell : main'[cp.dst][k] = IF PageOf(k) < p + 1 THEN Moved(k) ELSE Blank
      <4> SUFFICES ASSUME pc' # "cpMark", NEW k \in Cell
                   PROVE  main'[cp.dst][k] = IF PageOf(k) < p + 1 THEN Moved(k) ELSE Blank
        OBVIOUS
      <4>0. PageOf(k) \in Nat
        BY PageBounds
      <4>1. CASE PageOf(k) # p
        BY <1>0, <1>1, <2>2, <4>0, <4>1
      <4>2. CASE PageOf(k) = p
        <5>1. Moved(k) = main[cp.src][k]
          BY <3>4, <4>2 DEF Moved
        <5>2. main[cp.dst][k] = Blank
          BY <1>0, <2>2, <4>2
        <5>3. main'[cp.dst][k] = Overlay(Blank, main[cp.src][k])
          BY <1>1, <3>1, <4>2, <5>2
        <5> QED BY <1>0, <4>2, <5>1, <5>3 DEF Overlay
      <4> QED BY <4>1, <4>2
    <3>6. pc' = "cpUsed" => \A k \in Cell : PageOf(k) < p + 1
      BY <1>0, <1>1, PageBounds
    <3> QED BY <1>1, <1>2, <1>3, <1>4, <2>2, <2>3, <3>1, <3>2, <3>3, <3>5, <3>6
            DEF CopyTrue, len
  <2>5. CASE p >= cp.page
    <3>1. pc' # "cpMark"
      BY <1>0, <1>1, <2>1, <2>5
    <3>2. From = IF p > PageOf(HereCell) THEN p * PageSectors ELSE HereCell
      BY <1>0, <2>2 DEF From, p
    <3>3. w = Least(len, PageSectors - cp.col)
      BY <2>5 DEF w, p, len, PageLen
    <3>4. /\ From \in Nat /\ w \in 0 .. len /\ G \in Nat
          /\ len > 0 => w > 0
          /\ len - w = IF G < HereCell + job.w THEN HereCell + job.w - G ELSE 0
          /\ len - w > 0 => From + w = G
          /\ G % PageSectors = 0
          /\ \A k \in Cell : PageOf(k) = p =>
               /\ k - (p * PageSectors + cp.col) + 1 \in 1 .. w <=> k - HereCell \in 0 .. job.w - 1
               /\ k - HereCell \in 0 .. job.w - 1 =>
                    k - (p * PageSectors + cp.col) + 1 = k - From + 1
      <4>1. MoveAt(HereCell, job.w, p, From, len, cp.col, w, G)
        BY <1>0, <2>2, <2>5, <3>2, <3>3 DEF MoveAt, G
      <4> QED BY <4>1, PageOfMove
    <3>5. /\ Len(cp'.buf) = len - w
          /\ \A j \in 1 .. len - w : cp'.buf[j] = Moved(G + j - 1)
      <4>1. cp.buf \in Seq(Val) /\ len = Len(cp.buf) /\ w \in Nat /\ len \in Nat /\ w <= len
        BY <1>0, <3>4 DEF len
      <4>2. Len(cp'.buf) = len - w
        BY <1>2, <4>1
      <4>3. ASSUME NEW j \in 1 .. len - w PROVE cp'.buf[j] = Moved(G + j - 1)
        <5>1. cp'.buf[j] = cp.buf[w + j] /\ w + j \in 1 .. len
          BY <1>2, <4>1
        <5>2. cp.buf[w + j] = Moved(From + (w + j) - 1)
          BY <2>2, <5>1
        <5>3. From + (w + j) - 1 = G + j - 1
          BY <3>4, <4>1
        <5> QED BY <5>1, <5>2, <5>3
      <4> QED BY <4>2, <4>3
    <3>6. pc' = "cpPage" => From' = G
      <4>1. cp'.pg = p + 1 /\ cp'.pg > cp'.page
        BY <1>0, <1>2, <2>5
      <4>2. pc' = "cpPage" => From' = cp'.pg * PageSectors
        BY <4>1 DEF From
      <4> QED BY <4>1, <4>2 DEF G
    <3>7. len - w > 0 => cp'.col = G % PageSectors
      BY <1>0, <1>2, <3>4
    <3>8. ASSUME NEW k \in Cell
          PROVE  main'[cp.dst][k] = IF PageOf(k) < p + 1 THEN Moved(k) ELSE Blank
      <4>0. PageOf(k) \in Nat
        BY PageBounds
      <4>1. CASE PageOf(k) # p
        BY <1>0, <1>1, <2>2, <3>1, <4>0, <4>1
      <4>2. CASE PageOf(k) = p
        <5> DEFINE n == k - (p * PageSectors + cp.col) + 1
        <5>1. main[cp.dst][k] = Blank
          BY <1>0, <2>2, <4>2
        <5>2. main'[cp.dst][k] = Overlay(Blank, IF n \in 1 .. w THEN SubSeq(cp.buf, 1, w)[n]
                                                ELSE main[cp.src][k])
          BY <1>1, <3>1, <4>2, <5>1
        <5>3. main'[cp.dst][k] = IF n \in 1 .. w THEN SubSeq(cp.buf, 1, w)[n]
                                 ELSE main[cp.src][k]
          BY <5>2 DEF Overlay
        <5>4. /\ n \in 1 .. w <=> k - HereCell \in 0 .. job.w - 1
              /\ n \in 1 .. w => n = k - From + 1
          BY <3>4, <4>2
        <5>5. ~(n \in 1 .. w) => Moved(k) = main[cp.src][k]
          BY <5>4 DEF Moved
        <5>6. ASSUME n \in 1 .. w PROVE SubSeq(cp.buf, 1, w)[n] = Moved(k)
          <6>0. n = k - From + 1 /\ k \in Nat
            BY <1>0, <5>4, <5>6 DEF Cell, BlockSectors
          <6> HIDE DEF n
          <6>1. SubSeq(cp.buf, 1, w)[n] = cp.buf[n] /\ n \in 1 .. len
            BY <1>0, <3>4, <5>6 DEF len
          <6>2. cp.buf[n] = Moved(From + n - 1)
            BY <2>2, <6>1
          <6>3. From + n - 1 = k
            BY <3>4, <6>0
          <6> QED BY <6>1, <6>2, <6>3
        <5> HIDE DEF n
        <5>7. main'[cp.dst][k] = Moved(k)
          BY <5>3, <5>5, <5>6
        <5>8. PageOf(k) < p + 1
          BY <1>0, <4>2
        <5> QED BY <5>7, <5>8
      <4> QED BY <4>1, <4>2
    <3>9. pc' = "cpUsed" => \A k \in Cell : PageOf(k) < p + 1
      BY <1>0, <1>1, PageBounds
    <3>10. CASE pc' = "cpPage"
      BY <1>1, <1>2, <1>3, <1>4, <2>2, <2>3, <3>4, <3>5, <3>6, <3>7, <3>8, <3>10 DEF CopyTrue
    <3>11. CASE pc' = "cpUsed"
      BY <1>1, <1>2, <1>3, <1>4, <2>3, <3>8, <3>9, <3>11 DEF CopyTrue
    <3> QED BY <1>1, <3>1, <3>10, <3>11
  <2> QED BY <1>0, <2>4, <2>5
<1> QED BY <1>5, <1>6

\* A move begins with all its new data, or with the page a read has corrected.
LEMMA BeginTrue ==
  ASSUME TypeOK, NEW n \in Nat, HereCell + n <= BlockSectors, NEW buf, Len(buf) = n,
         pc' = "cpFind",
         cp' = [src |-> HereBlk, page |-> PageOf(HereCell), col |-> HereCol,
                buf |-> buf, dst |-> NoBlock, pg |-> 0],
         job'.kind = job.kind, job'.sec = job.sec, job'.i = job.i, job'.data = job.data,
         job'.w = n,
         \A j \in 1 .. n : buf[j] = IF job.kind = "write" THEN job.data[job.i + j]
                                    ELSE main'[HereBlk][HereCell + j - 1]
  PROVE  CopyTrue'
<1>1. HereCell' = HereCell /\ HereLbn' = HereLbn
  BY DEF HereCell, HereLbn, Here
<1>2. HereCell \in Cell /\ HereCell \in Nat /\ job.i \in Nat
  BY HereTypes DEF TypeOK, JobTypeOK, Jobs, Cell
<1>3. From' = HereCell
  BY <1>1 DEF From
<1>4. ASSUME NEW j \in 1 .. n, NEW k, k = HereCell + j - 1 PROVE buf[j] = Moved(k)'
  <2>1. k - HereCell \in 0 .. n - 1 /\ job.i + 1 + k - HereCell = job.i + j
    BY <1>2, <1>4
  <2>2. Moved(k)' = IF job.kind = "write" THEN job.data[job.i + j] ELSE main'[HereBlk][k]
    BY <1>1, <2>1 DEF Moved
  <2> QED BY <1>4, <2>2
<1>5. n > 0 <=> HereCell < HereCell + n
  BY <1>2
<1>6. n = IF HereCell < HereCell + n THEN HereCell + n - HereCell ELSE 0
  BY <1>2
<1>7. \A j \in 1 .. n : buf[j] = Moved(From + j - 1)'
  <2> SUFFICES ASSUME NEW j \in 1 .. n PROVE buf[j] = Moved(From + j - 1)'
    OBVIOUS
  <2>1. PICK k : k = HereCell + j - 1
    OBVIOUS
  <2>2. (From + j - 1)' = k
    BY <1>3, <2>1
  <2>3. Moved(From + j - 1)' = Moved(k)'
    BY <2>2 DEF Moved
  <2> QED BY <1>4, <2>1, <2>3
<1> QED BY <1>1, <1>3, <1>6, <1>7 DEF CopyTrue, Copying, HereCol

\* The three steps of a write that begin a move.
LEMMA WriteBeginsTrue ==
  ASSUME TypeOK, pc' = "cpFind", WriteInPlace \/ WriteMark \/ WriteMove
  PROVE  CopyTrue'
<1>1. job.kind = "write" /\ job \in Jobs
  BY DEF WriteInPlace, WriteMark, WriteMove, TypeOK, ControlOK, JobTypeOK
<1>2. InBlock \in Nat /\ HereCell + InBlock <= BlockSectors /\ job.i + InBlock <= job.len
  BY HereTypes, ChunkFits
<1>3. Len(Chunk(InBlock)) = InBlock
      /\ \A j \in 1 .. InBlock : Chunk(InBlock)[j] = job.data[job.i + j]
  BY <1>1, <1>2, ChunkItems
<1>4. /\ cp' = [src |-> HereBlk, page |-> PageOf(HereCell), col |-> HereCol,
                buf |-> Chunk(InBlock), dst |-> NoBlock, pg |-> 0]
      /\ job' = [job EXCEPT !.w = InBlock] \/ job' = [job EXCEPT !.w = InBlock, !.marked = HereBlk]
  <2>1. CASE WriteInPlace
    <3>1. StartCopy(InBlock, Chunk(InBlock))
      BY <2>1 DEF WriteInPlace
    <3> QED BY <3>1 DEF StartCopy
  <2>2. CASE WriteMark
    BY <2>2 DEF WriteMark
  <2>3. CASE WriteMove
    BY <2>3 DEF WriteMove, StartCopy
  <2> QED BY <2>1, <2>2, <2>3
<1>5. /\ job'.kind = job.kind /\ job'.sec = job.sec /\ job'.i = job.i /\ job'.data = job.data
      /\ job'.w = InBlock
  BY <1>1, <1>4 DEF Jobs
<1> DEFINE buf == Chunk(InBlock)
           n == InBlock
<1> HIDE DEF buf, n
<1>6. /\ n \in Nat /\ HereCell + n <= BlockSectors /\ Len(buf) = n
      /\ cp' = [src |-> HereBlk, page |-> PageOf(HereCell), col |-> HereCol,
                buf |-> buf, dst |-> NoBlock, pg |-> 0]
      /\ job'.w = n
      /\ \A j \in 1 .. n : buf[j] = IF job.kind = "write" THEN job.data[job.i + j]
                                    ELSE main'[HereBlk][HereCell + j - 1]
  BY <1>1, <1>2, <1>3, <1>4, <1>5 DEF buf, n
<1> QED BY <1>5, <1>6, BeginTrue

\* The step of a read that begins one.
LEMMA ReadBeginsTrue ==
  ASSUME TypeOK, AckedOK, ReadRefresh
  PROVE  CopyTrue'
<1>1. /\ job.kind # "write" /\ job \in Jobs /\ HereBlk \in Block
      /\ main \in [Block -> [Cell -> Val]] /\ main' = main
  BY HereTypes DEF ReadRefresh, AckedOK, TypeOK, JobTypeOK, FlashTypeOK, flashVars
<1>2. /\ InPage \in Nat /\ HereCell + InPage <= BlockSectors /\ HereCell \in Nat
      /\ BlockSectors \in Nat
  BY HereTypes, ChunkFits, GeometryAssumption DEF Cell, BlockSectors
<1> DEFINE all == [k \in 1 .. BlockSectors |-> main[HereBlk][k - 1]]
           n == InPage
           c == HereCell
           buf == SubSeq(all, c + 1, c + n)
<1>3. all \in Seq(Val) /\ Len(all) = BlockSectors
  <2>1. \A k \in 1 .. BlockSectors : main[HereBlk][k - 1] \in Val
    BY <1>1, <1>2 DEF Cell
  <2> QED BY <1>2, <2>1
<1>4. \A k \in 1 .. BlockSectors : all[k] = main[HereBlk][k - 1]
  OBVIOUS
<1> HIDE DEF all, n, c
<1>5. Len(buf) = n /\ \A j \in 1 .. n : buf[j] = all[c + j]
  BY <1>2, <1>3 DEF n, c
<1>6. \A j \in 1 .. n : buf[j] = main'[HereBlk][c + j - 1]
  <2> SUFFICES ASSUME NEW j \in 1 .. n PROVE buf[j] = main[HereBlk][c + j - 1]
    BY <1>1
  <2>1. c + j \in 1 .. BlockSectors
    BY <1>2 DEF n, c
  <2>2. all[c + j] = main[HereBlk][c + j - 1]
    <3>1. PICK k : k = c + j
      OBVIOUS
    <3>2. all[k] = main[HereBlk][k - 1]
      BY <1>4, <2>1, <3>1
    <3>3. c \in Nat /\ j \in Nat
      BY <1>2 DEF n, c
    <3>4. k - 1 = c + j - 1
      BY <3>1, <3>3
    <3> QED BY <3>1, <3>2, <3>4
  <2> QED BY <1>5, <2>2
<1>7. /\ pc' = "cpFind" /\ job' = [job EXCEPT !.w = n]
      /\ cp' = [src |-> HereBlk, page |-> PageOf(HereCell), col |-> HereCol,
                buf |-> buf, dst |-> NoBlock, pg |-> 0]
  BY DEF ReadRefresh, StartCopy, all, n, c
<1>8. /\ job'.kind = job.kind /\ job'.sec = job.sec /\ job'.i = job.i /\ job'.data = job.data
      /\ job'.w = n
  BY <1>1, <1>7 DEF Jobs
<1> HIDE DEF buf
<1>9. /\ n \in Nat /\ HereCell + n <= BlockSectors
      /\ \A j \in 1 .. n : buf[j] = IF job.kind = "write" THEN job.data[job.i + j]
                                    ELSE main'[HereBlk][HereCell + j - 1]
  BY <1>1, <1>2, <1>6 DEF n, c
<1> QED BY <1>5, <1>7, <1>8, <1>9, BeginTrue

\* The rest of a move.
LEMMA MoveTrue ==
  ASSUME TypeOK, CopyTrue, CopyFind \/ CopyMark \/ CopyMark2 \/ CopyUsed
  PROVE  CopyTrue'
<1>0. cp \in Copies
  BY DEF TypeOK
<1>1. job' = job /\ HereCell' = HereCell /\ HereLbn' = HereLbn /\ adrift \subseteq adrift'
      /\ torn \subseteq torn'
  BY HereInMove DEF CopyFind, CopyMark, CopyMark2, CopyUsed, ghostVars
<1>2. CASE CopyFind
  <2>1. /\ cp'.src = cp.src /\ cp'.page = cp.page /\ cp'.col = cp.col /\ cp'.buf = cp.buf
        /\ cp'.pg = 0 /\ main' = main /\ pc = "cpFind" /\ pc' = "cpPage"
        /\ torn' = IF main[cp'.dst] = Erased THEN torn ELSE torn \cup {HereLbn}
    BY <1>0, <1>2 DEF CopyFind, flashVars, Copies
  <2>2. \A k : Moved(k)' = Moved(k)
    BY <1>1, <2>1, MovedStays
  <2>3. From' = From
    BY <1>0, <1>1, <2>1 DEF From, Copies
  <2>4. ASSUME HereLbn \in Kept'
        PROVE  \A k \in Cell : PageOf(k) \in Nat /\ main[cp'.dst][k] = Blank
    BY <2>1, <2>4, PageBounds DEF Kept, Erased
  <2>5. HereLbn \in Kept' => HereLbn \in Kept
    BY <1>1 DEF Kept
  <2> QED BY <1>1, <2>1, <2>2, <2>3, <2>4, <2>5 DEF CopyTrue, Copying
<1>3. CASE CopyMark \/ CopyMark2
  <2>1. /\ cp' = cp /\ main' = main /\ pc \in {"cpMark", "cpMark2"}
        /\ pc' \in {"cpMark2", "cpFind"}
    BY <1>3, MarkEffect DEF CopyMark, CopyMark2
  <2>2. \A k : Moved(k)' = Moved(k)
    BY <1>1, <2>1, MovedStays
  <2>3. From' = From
    BY <1>1, <2>1 DEF From
  <2> QED BY <1>1, <2>1, <2>2, <2>3 DEF CopyTrue, Copying, Kept
<1>4. CASE CopyUsed
  <2>1. /\ cp' = cp /\ main' = main /\ pc = "cpUsed" /\ pc' = "cpErase" /\ torn' = torn
    BY <1>4 DEF CopyUsed, MarkUsed, flashVars, ghostVars
  <2>2. \A k : Moved(k)' = Moved(k)
    BY <1>1, <2>1, MovedStays
  <2> QED BY <1>1, <2>1, <2>2 DEF CopyTrue, Copying, Kept
<1> QED BY <1>2, <1>3, <1>4

\* Every step keeps what the copy has to hold.
LEMMA CopyNext ==
  ASSUME TypeOK, Safe, OwnTag, AckedOK, CopyTrue, [Next]_vars
  PROVE  CopyTrue'
<1>1. CASE pc' = "cpFind" /\ (WriteInPlace \/ WriteMark \/ WriteMove)
  BY <1>1, WriteBeginsTrue
<1>2. CASE ReadRefresh
  BY <1>2, ReadBeginsTrue
<1>3. CASE CopyFind \/ CopyPageStep \/ CopyMark \/ CopyMark2 \/ CopyUsed
  BY <1>3, MoveTrue, PageTrue
<1>4. CASE UNCHANGED vars
  <2>1. UNCHANGED <<job, cp, main, pc, torn, adrift>>
    BY <1>4 DEF vars, flashVars, ghostVars
  <2>2. HereCell' = HereCell /\ HereLbn' = HereLbn /\ \A k : Moved(k)' = Moved(k)
    BY <2>1, HereInMove, MovedStays
  <2>3. From' = From
    BY <2>1, <2>2 DEF From
  <2> QED BY <2>1, <2>2, <2>3 DEF CopyTrue, Kept
<1>5. ASSUME Next, ~(pc' = "cpFind" /\ (WriteInPlace \/ WriteMark \/ WriteMove)), ~ReadRefresh,
             ~(CopyFind \/ CopyPageStep \/ CopyMark \/ CopyMark2 \/ CopyUsed)
      PROVE  pc' \notin {"cpFind"} \cup Copying
  <2>1. CASE WriteInPlace \/ WriteMark \/ WriteMove
    BY <1>5, <2>1, JobGoesOn DEF Working, WriteInPlace, WriteMark, WriteMove, StartCopy, Copying
  <2>2. CASE \/ ReadPage \/ CopyErase \/ RefreshBlank \/ RefreshZero \/ RefreshFill
             \/ RefreshErase \/ RefreshMark \/ RefreshMark2
    BY <2>2 DEF ReadPage, CopyErase, RefreshBlank, RefreshZero, RefreshFill, RefreshErase,
       RefreshMark, RefreshMark2, Copying
  <2>3. CASE \/ Boot \/ FmtErase \/ FmtMark \/ FmtMark2 \/ FmtErased \/ FmtTag \/ FmtTagged
             \/ PowerCut
    BY <2>3 DEF Boot, StartFormat, FmtErase, FmtMark, FmtMark2, FmtErased, FmtTag, FmtTagged,
       PowerCut, Copying
  <2>4. CASE BitError \/ WriteDone \/ Outside \/ ReadDone \/ CopyNoBlock
    BY <2>4 DEF BitError, WriteDone, Outside, ReadDone, CopyNoBlock, Copying
  <2>5. CASE Request
    BY <2>5, RequestEffect DEF Copying
  <2> QED BY <1>5, <2>1, <2>2, <2>3, <2>4, <2>5 DEF Next, Step
<1> QED BY <1>1, <1>2, <1>3, <1>4, <1>5 DEF CopyTrue, Copying

-----------------------------------------------------------------------------
(***************************************************************************)
(* Held                                                                    *)
(***************************************************************************)
\* Held, of one sector.
HeldAt(s) ==
  Due(s) # NoPromise /\ Lbn(s) \in Kept =>
    \E b \in Carriers(Lbn(s), bad, tag) :
      /\ main[b][CellOf(s)] = Due(s)
      /\ pc \in Copying => b # cp.dst
      /\ Mounted => lut[Lbn(s)] = b

\* Of the sectors of a block, those of the request follow the one it has come to.
LEMMA SectorPlace ==
  ASSUME TypeOK, NEW s \in Sector
  PROVE  /\ CellOf(s) \in Cell /\ s \in Nat
         /\ Lbn(s) = HereLbn => CellOf(s) - HereCell = s - Here
         /\ \A j \in Nat : s = Here + j /\ HereCell + j < BlockSectors =>
                             Lbn(s) = HereLbn /\ CellOf(s) = HereCell + j
<1>0. /\ BlockSectors \in Nat \ {0} /\ s \in Nat /\ Here \in Nat /\ HereCell \in Cell
  BY HereTypes, GeometryAssumption
     DEF BlockSectors, Sector, Here, TypeOK, JobTypeOK, Jobs
<1>1. /\ CellOf(s) \in 0 .. BlockSectors - 1 /\ Lbn(s) \in Nat
      /\ s = BlockSectors * Lbn(s) + CellOf(s)
  BY <1>0 DEF CellOf, Lbn
<1>2. /\ HereCell \in 0 .. BlockSectors - 1 /\ HereLbn \in Nat
      /\ Here = BlockSectors * HereLbn + HereCell
  BY <1>0 DEF HereCell, CellOf, HereLbn, Lbn
<1>3. Lbn(s) = HereLbn => CellOf(s) - HereCell = s - Here
  <2> DEFINE q == BlockSectors * HereLbn
  <2>1. q \in Int
    BY <1>0, <1>2
  <2>2. Lbn(s) = HereLbn => s = q + CellOf(s)
    BY <1>1
  <2>3. Here = q + HereCell
    BY <1>2
  <2> HIDE DEF q
  <2> QED BY <1>1, <1>2, <2>1, <2>2, <2>3
<1>4. ASSUME NEW j \in Nat, s = Here + j, HereCell + j < BlockSectors
      PROVE  Lbn(s) = HereLbn /\ CellOf(s) = HereCell + j
  <2>1. HereCell + j \in 0 .. BlockSectors - 1
    BY <1>0, <1>2, <1>4
  <2>2. s = BlockSectors * HereLbn + (HereCell + j)
    BY <1>0, <1>2, <1>4
  <2> QED BY <1>0, <1>2, <2>1, <2>2, OnePlace DEF Lbn, CellOf
<1> QED BY <1>0, <1>1, <1>3, <1>4 DEF Cell

\* What is due is a content a caller wrote, or nothing.
LEMMA DueType ==
  ASSUME TypeOK, AckedOK, NEW s \in Sector
  PROVE  Due(s) \in Datum \cup {NoPromise} /\ (Due(s) # NoPromise => Due(s) # Blank)
<1>1. acked[s] \in Datum \cup {NoPromise}
  BY DEF AckedOK
<1>2. ASSUME job.kind = "write", s - job.sec \in 0 .. job.i - 1
      PROVE  job.data[s - job.sec + 1] \in Datum
  <2>1. job.data \in Seq(Datum) /\ job.i \in Nat /\ job.i <= Len(job.data)
    BY <1>2 DEF TypeOK, JobTypeOK, Jobs
  <2>2. s - job.sec + 1 \in 1 .. Len(job.data)
    BY <1>2, <2>1
  <2> QED BY <2>1, <2>2
<1>3. Due(s) \in Datum \cup {NoPromise}
  BY <1>1, <1>2 DEF Due
<1> QED BY <1>3, ValueAssumption

\* A step that leaves alone the block a sector is held on, or writes on it where it is blank.
LEMMA HeldStays ==
  ASSUME TypeOK, AckedOK, NEW s \in Sector, HeldAt(s), Due(s)' \in {Due(s), NoPromise},
         torn \subseteq torn', adrift \subseteq adrift',
         \A b \in Carriers(Lbn(s), bad, tag) :
           /\ Lbn(s) \notin torn' \cup adrift'
           /\ pc \in Copying => b # cp.dst
           /\ Mounted => lut[Lbn(s)] = b
           => /\ b \in Carriers(Lbn(s), bad', tag')
              /\ main'[b][CellOf(s)] = main[b][CellOf(s)] \/ main[b][CellOf(s)] = Blank
              /\ pc' \in Copying => b # cp'.dst
              /\ Mounted' => lut'[Lbn(s)] = b
  PROVE  HeldAt(s)'
<1> SUFFICES ASSUME Due(s)' # NoPromise, Lbn(s) \in Block, Lbn(s) \notin torn' \cup adrift'
             PROVE  \E b \in Carriers(Lbn(s), bad', tag') :
                      /\ main'[b][CellOf(s)] = Due(s)'
                      /\ pc' \in Copying => b # cp'.dst
                      /\ Mounted' => lut'[Lbn(s)] = b
  BY DEF HeldAt, Kept
<1>1. Due(s)' = Due(s) /\ Due(s) # NoPromise /\ Due(s) # Blank /\ Lbn(s) \in Kept
  BY DueType DEF Kept
<1>2. PICK b \in Carriers(Lbn(s), bad, tag) :
        /\ main[b][CellOf(s)] = Due(s)
        /\ pc \in Copying => b # cp.dst
        /\ Mounted => lut[Lbn(s)] = b
  BY <1>1 DEF HeldAt
<1> QED BY <1>1, <1>2

\* What is due when the request goes on without a sector more, or ends.
LEMMA DueStays ==
  ASSUME acked' = acked, NEW s \in Sector
  PROVE  /\ (/\ job'.kind = job.kind /\ job'.sec = job.sec /\ job'.data = job.data
             /\ job'.i = job.i) => Due(s)' = Due(s)
         /\ job.kind # "write" /\ job'.kind # "write" => Due(s)' = Due(s)
         /\ TypeOK /\ AckedOK /\ job'.kind # "write" => Due(s)' \in {Due(s), NoPromise}
<1>1. ASSUME TypeOK, AckedOK, job'.kind # "write" PROVE Due(s)' \in {Due(s), NoPromise}
  <2>1. Due(s)' = acked[s]
    BY <1>1 DEF Due
  <2>2. CASE job.kind = "write" /\ s - job.sec \in 0 .. job.i - 1
    <3>1. job.i \in Nat /\ job.len \in Nat /\ job.i <= job.len
      BY <1>1 DEF TypeOK, JobTypeOK, Jobs
    <3>2. s - job.sec \in 0 .. job.len - 1
      BY <2>2, <3>1
    <3> QED BY <1>1, <2>1, <2>2, <3>2 DEF AckedOK
  <2>3. CASE ~(job.kind = "write" /\ s - job.sec \in 0 .. job.i - 1)
    BY <2>1, <2>3 DEF Due
  <2> QED BY <2>2, <2>3
<1> QED BY <1>1 DEF Due

\* Held is of every sector.
LEMMA HeldIsAt == Held <=> \A s \in Sector : HeldAt(s)
BY DEF Held, HeldAt

\* A step that leaves the chip's data and the table alone.
LEMMA HeldQuiet ==
  ASSUME TypeOK, AckedOK, Held, UNCHANGED <<main, tag, bad>>,
         torn \subseteq torn', adrift \subseteq adrift', Mounted' => Mounted /\ lut' = lut,
         pc' \in Copying => pc \in Copying /\ cp'.dst = cp.dst,
         \A s \in Sector : Due(s)' \in {Due(s), NoPromise}
  PROVE  Held'
<1> SUFFICES ASSUME NEW s \in Sector PROVE HeldAt(s)'
  BY DEF Held, HeldAt
<1>1. HeldAt(s)
  BY HeldIsAt
<1> QED BY <1>1, HeldStays

\* The steps of a request that begin it, end it, or move nothing.
LEMMA HeldRequest ==
  ASSUME TypeOK, AckedOK, Held,
         Request \/ WriteDone \/ Outside \/ ReadDone \/ ReadPage \/ BitError \/ PowerCut
  PROVE  Held'
<1>0. job \in Jobs
  BY DEF TypeOK, JobTypeOK
<1>1. CASE Request
  <2>0. pc = "ready" /\ job.kind # "write"
    <3>1. pc = "ready"
      BY <1>1, RequestEffect
    <3> QED BY <3>1 DEF AckedOK
  <2>1. ASSUME NEW s \in Starts, NEW d, BeginWrite(s, d)
        PROVE  Held'
    <3>1. /\ UNCHANGED <<main, tag, bad, lut, torn, adrift>> /\ pc' = "write"
          /\ job'.kind = "write" /\ job'.sec = s /\ job'.i = 0
          /\ acked' = [t \in Sector |-> IF t \in s .. s + Len(d) - 1 THEN NoPromise ELSE acked[t]]
      BY <2>1 DEF BeginWrite, flashVars, ramVars, Idle
    <3>2. ASSUME NEW t \in Sector PROVE Due(t)' \in {Due(t), NoPromise}
      <4>1. Due(t)' = acked'[t] /\ Due(t) = acked[t]
        BY <2>0, <3>1 DEF Due
      <4> QED BY <3>1, <4>1
    <3> QED BY <2>0, <3>1, <3>2, HeldQuiet DEF Mounted, Formatting, Copying
  <2>2. ASSUME NEW s \in Starts, NEW n, BeginRead(s, n)
        PROVE  Held'
    <3>1. /\ UNCHANGED <<main, tag, bad, lut, torn, adrift, acked>> /\ pc' = "read" /\ pc = "ready"
          /\ job'.kind = "read"
      BY <2>2 DEF BeginRead, flashVars, ramVars, ghostVars, Idle
    <3>2. \A t \in Sector : Due(t)' \in {Due(t), NoPromise}
      BY <2>0, <3>1, DueStays
    <3> QED BY <3>1, <3>2, HeldQuiet DEF Mounted, Formatting, Copying
  <2> QED BY <1>1, <2>1, <2>2 DEF Request
<1>2. CASE WriteDone
  <2>1. /\ UNCHANGED <<main, tag, bad, lut, torn, adrift>> /\ pc' = "ready" /\ pc = "write"
        /\ job'.kind = "none" /\ job.kind = "write" /\ job.i = job.len
        /\ acked' = [t \in Sector |-> IF t \in job.sec .. job.sec + job.len - 1
                                      THEN job.data[t - job.sec + 1] ELSE acked[t]]
    BY <1>0, <1>2 DEF WriteDone, flashVars, ramVars, Return, Idle, TypeOK, ControlOK, JobTypeOK, Jobs
  <2>2. ASSUME NEW t \in Sector PROVE Due(t)' = Due(t)
    <3>1. Due(t)' = acked'[t]
      BY <2>1 DEF Due
    <3>2. t \in Int /\ job.sec \in Nat /\ job.len \in Nat
      BY <1>0 DEF Sector, Jobs
    <3>3. t \in job.sec .. job.sec + job.len - 1 <=> t - job.sec \in 0 .. job.len - 1
      BY <3>2
    <3> QED BY <2>1, <3>1, <3>3 DEF Due
  <2> QED BY <2>1, <2>2, HeldQuiet DEF Mounted, Formatting, Copying
<1>3. CASE Outside \/ ReadDone \/ PowerCut
  <2>1. /\ UNCHANGED <<main, tag, bad, adrift, acked>> /\ torn \subseteq torn'
        /\ job'.kind = "none"
        /\ pc' = "off" \/ (pc' = "ready" /\ pc \in {"write", "read"} /\ lut' = lut)
    BY <1>3 DEF Outside, ReadDone, PowerCut, flashVars, ramVars, ghostVars, Return, Idle
  <2>2. \A t \in Sector : Due(t)' \in {Due(t), NoPromise}
    BY <2>1, DueStays
  <2> QED BY <2>1, <2>2, HeldQuiet DEF Mounted, Formatting, Copying
<1>4. CASE ReadPage \/ BitError
  <2>1. /\ UNCHANGED <<main, tag, bad, torn, adrift, acked, lut>> /\ pc' = pc
        /\ pc \in {"read", "ready"} /\ job'.kind = job.kind
    BY <1>0, <1>4 DEF ReadPage, BitError, Advance, flashVars, ramVars, ghostVars, Jobs
  <2>2. job.kind # "write"
    BY <2>1 DEF AckedOK
  <2>3. \A t \in Sector : Due(t)' \in {Due(t), NoPromise}
    BY <2>1, <2>2, DueStays
  <2> QED BY <2>1, <2>3, HeldQuiet DEF Mounted, Formatting, Copying
<1> QED BY <1>1, <1>2, <1>3, <1>4

\* The table built from the spare areas leads to the one carrier there is.
LEMMA BuiltLeads ==
  ASSUME OneCarrier', pc' \notin Copying, lut' = LutOf(bad', tag'),
         NEW l \in Block, l \notin torn' \cup adrift', NEW b \in Carriers(l, bad', tag')
  PROVE  lut'[l] = b
<1>1. lut'[l] \in Carriers(l, bad', tag')
  BY LutIsCarrier
<1> QED BY <1>1 DEF OneCarrier, Kept

\* A start, and a format.
LEMMA HeldFormat ==
  ASSUME TypeOK, AckedOK, AckedOK', OneCarrier', Held,
         Boot \/ FmtErase \/ FmtMark \/ FmtMark2 \/ FmtErased \/ FmtTag \/ FmtTagged
  PROVE  Held'
<1>1. CASE Boot
  <2>1. /\ UNCHANGED <<main, tag, bad, torn, adrift, job>> /\ pc' \in {"ready", "fmtErase"}
        /\ lut' = LutOf(bad', tag') /\ pc = "off"
        /\ acked' = acked \/ acked' = [s \in Sector |-> NoPromise]
    BY <1>1 DEF Boot, StartFormat, flashVars
  <2> SUFFICES ASSUME NEW s \in Sector PROVE HeldAt(s)'
    BY DEF Held, HeldAt
  <2>2. Due(s)' \in {Due(s), NoPromise}
    <3>1. job.kind # "write"
      BY <2>1 DEF AckedOK
    <3> QED BY <2>1, <3>1 DEF Due
  <2>3. CASE Lbn(s) \notin Block
    BY <2>3 DEF HeldAt, Kept
  <2>4. CASE Lbn(s) \in Block
    <3>1. ASSUME NEW b \in Carriers(Lbn(s), bad, tag), Lbn(s) \notin torn' \cup adrift'
          PROVE  lut'[Lbn(s)] = b
      BY <2>1, <2>4, <3>1, BuiltLeads DEF Copying
    <3>2. HeldAt(s)
      BY HeldIsAt
    <3> QED BY <2>1, <2>2, <3>1, <3>2, HeldStays DEF Copying
  <2> QED BY <2>3, <2>4
<1>2. CASE FmtErase \/ FmtMark \/ FmtMark2 \/ FmtErased \/ FmtTag \/ FmtTagged
  <2>1. job' = job /\ acked' = acked /\ pc \in Formatting
    BY <1>2 DEF FmtErase, FmtMark, FmtMark2, FmtErased, FmtTag, FmtTagged, ghostVars, Formatting
  <2>2. job.kind # "write" /\ \A s \in Sector : acked[s] = NoPromise
    BY <2>1 DEF AckedOK
  <2>3. \A s \in Sector : Due(s)' = NoPromise
    BY <2>1, <2>2 DEF Due
  <2> QED BY <2>3 DEF Held
<1> QED BY <1>1, <1>2

\* A sector of the chunk just programmed in place.
LEMMA HeldHere ==
  ASSUME TypeOK, TableTrue, Mounted, HereBlk \in Block, pc' = "write",
         UNCHANGED <<tag, bad, lut, torn, adrift>>, NEW s \in Sector,
         s - Here \in 0 .. InPage - 1, main'[HereBlk][HereCell + (s - Here)] = Due(s)'
  PROVE  HeldAt(s)'
<1>1. /\ HereCell \in Nat /\ InPage \in Nat /\ HereCell + InPage <= BlockSectors
      /\ Here \in Nat /\ BlockSectors \in Nat /\ s \in Nat
  <2>1. HereCell \in Nat /\ InPage \in Nat /\ HereCell + InPage <= BlockSectors /\ s \in Nat
    BY HereTypes, ChunkFits, SectorPlace DEF Cell
  <2>2. Here \in Nat /\ BlockSectors \in Nat
    BY GeometryAssumption DEF BlockSectors, Here, TypeOK, JobTypeOK, Jobs
  <2> QED BY <2>1, <2>2
<1>2. s - Here \in Nat /\ s = Here + (s - Here) /\ HereCell + (s - Here) < BlockSectors
  BY <1>1
<1>3. Lbn(s) = HereLbn /\ CellOf(s) = HereCell + (s - Here)
  BY <1>2, SectorPlace
<1>4. HereLbn \in Block /\ lut[HereLbn] = HereBlk
  BY GeometryAssumption DEF HereBlk, Pbn, NoBlock, Block
<1>5. HereLbn \notin adrift => HereBlk \in Carriers(HereLbn, bad, tag)
  BY <1>4, EntryIsCarrier
<1> QED BY <1>3, <1>4, <1>5 DEF HeldAt, Kept, Copying

\* The request goes on by n sectors: what is due of the sectors that are not among them.
LEMMA DueBeyond ==
  ASSUME TypeOK, acked' = acked, job'.kind = job.kind, job'.sec = job.sec, job'.data = job.data,
         NEW n \in Nat, job'.i = job.i + n, NEW s \in Sector
  PROVE  /\ s - Here \notin 0 .. n - 1 => Due(s)' = Due(s)
         /\ job.kind = "write" /\ s - Here \in 0 .. n - 1 =>
              Due(s)' = job.data[job.i + 1 + (s - Here)]
<1>1. s \in Nat /\ job.sec \in Nat /\ job.i \in Nat /\ Here = job.sec + job.i
  BY SectorPlace DEF TypeOK, JobTypeOK, Jobs, Here
<1>2. s - Here \notin 0 .. n - 1 =>
        (s - job.sec \in 0 .. job.i + n - 1 <=> s - job.sec \in 0 .. job.i - 1)
  BY <1>1
<1>3. s - Here \in 0 .. n - 1 =>
        s - job.sec \in 0 .. job.i + n - 1 /\ s - job.sec + 1 = job.i + 1 + (s - Here)
  BY <1>1
<1>4. Due(s)' = IF job.kind = "write" /\ s - job.sec \in 0 .. job.i + n - 1
                THEN job.data[s - job.sec + 1] ELSE acked[s]
  <2>1. (0 .. job.i - 1)' = 0 .. job.i + n - 1
    BY <1>1
  <2>2. Due(s)' = IF job.kind = "write" /\ s - job.sec \in (0 .. job.i - 1)'
                  THEN job.data[s - job.sec + 1] ELSE acked[s]
    BY DEF Due
  <2> QED BY <2>1, <2>2
<1>5. s - Here \notin 0 .. n - 1 => Due(s)' = Due(s)
  BY <1>2, <1>4 DEF Due
<1>6. job.kind = "write" /\ s - Here \in 0 .. n - 1 =>
        Due(s)' = job.data[job.i + 1 + (s - Here)]
  BY <1>3, <1>4
<1> QED BY <1>5, <1>6

\* A page programmed in place.
LEMMA HeldInPlace ==
  ASSUME TypeOK, TableTrue, AckedOK, Held, WriteInPlace
  PROVE  Held'
<1> SUFFICES ASSUME NEW s \in Sector PROVE HeldAt(s)'
  BY DEF Held, HeldAt
<1>0. job \in Jobs /\ InPage \in Nat /\ job.i \in Nat /\ HereCell \in Nat
  BY HereTypes DEF TypeOK, JobTypeOK, Jobs, Cell
<1>1. /\ HereBlk \in Block /\ job.kind = "write" /\ pc = "write"
      /\ \A k \in HereCell .. HereCell + InPage - 1 : k \in Cell /\ main[HereBlk][k] = Blank
      /\ \A b \in Block, k \in Cell : b # HereBlk => main'[b][k] = main[b][k]
      /\ \A k \in Cell : k \notin HereCell .. HereCell + InPage - 1 =>
                           main'[HereBlk][k] = main[HereBlk][k]
      /\ pc' # "cpFind" => \A k \in 0 .. InPage - 1 :
                             main'[HereBlk][HereCell + k] = job.data[job.i + 1 + k]
      /\ UNCHANGED <<tag, bad, acked, torn, lut>>
  BY InPlaceEffect
<1>2. /\ job'.kind = job.kind /\ job'.sec = job.sec /\ job'.data = job.data
      /\ \/ job'.i = job.i /\ adrift \subseteq adrift'
         \/ job'.i = job.i + InPage /\ pc' = "write" /\ adrift' = adrift
      /\ pc' \in {"write", "wrUsed", "cpFind"}
  BY <1>0, <1>1 DEF WriteInPlace, StartCopy, Advance, Jobs
<1>3. CellOf(s) \in Cell /\ HeldAt(s)
  BY SectorPlace, HeldIsAt
<1>4. \A b \in Carriers(Lbn(s), bad, tag) :
        main'[b][CellOf(s)] = main[b][CellOf(s)] \/ main[b][CellOf(s)] = Blank
  BY <1>1, <1>3 DEF Carriers
<1>5. Due(s)' = Due(s) => HeldAt(s)'
  <2>1. /\ Mounted /\ UNCHANGED <<lut, tag, bad, torn>> /\ adrift \subseteq adrift'
        /\ pc' \notin Copying
    BY <1>1, <1>2 DEF Mounted, Formatting, Copying
  <2> QED BY <1>3, <1>4, <2>1, HeldStays
<1>6. CASE job'.i = job.i
  BY <1>1, <1>2, <1>5, <1>6, DueStays
<1>7. CASE job'.i = job.i + InPage /\ pc' = "write" /\ adrift' = adrift
  <2>1. CASE s - Here \notin 0 .. InPage - 1
    BY <1>0, <1>1, <1>2, <1>5, <1>7, <2>1, DueBeyond
  <2>2. CASE s - Here \in 0 .. InPage - 1
    <3>1. Due(s)' = job.data[job.i + 1 + (s - Here)]
      BY <1>0, <1>1, <1>2, <1>7, <2>2, DueBeyond
    <3>2. main'[HereBlk][HereCell + (s - Here)] = Due(s)'
      BY <1>1, <1>7, <2>2, <3>1
    <3> QED BY <1>1, <1>7, <2>2, <3>2, HeldHere DEF Mounted, Formatting
  <2> QED BY <2>1, <2>2
<1> QED BY <1>2, <1>6, <1>7

\* The block programmed is marked used, or the move begins.
LEMMA HeldMark ==
  ASSUME TypeOK, TableTrue, AckedOK, Programmed, Held, WriteMark
  PROVE  Held'
<1> SUFFICES ASSUME NEW s \in Sector PROVE HeldAt(s)'
  BY DEF Held, HeldAt
<1>0. job \in Jobs /\ InPage \in Nat /\ job.i \in Nat
  BY HereTypes DEF TypeOK, JobTypeOK, Jobs
<1>1. /\ UNCHANGED <<main, tag, bad, lut, torn, acked>> /\ pc = "wrUsed" /\ Mounted
      /\ HereBlk \in Block /\ job.kind = "write"
  BY DEF WriteMark, MarkUsed, flashVars, ramVars, Mounted, Formatting, TypeOK, ControlOK
<1>2. /\ job'.kind = job.kind /\ job'.sec = job.sec /\ job'.data = job.data
      /\ \/ job'.i = job.i /\ adrift \subseteq adrift' /\ pc' = "cpFind"
         \/ job'.i = job.i + InPage /\ pc' = "write" /\ adrift' = adrift
  BY <1>0 DEF WriteMark, Jobs
<1>3. HeldAt(s)
  BY HeldIsAt
<1>4. Due(s)' = Due(s) => HeldAt(s)'
  <2>1. pc' \notin Copying /\ adrift \subseteq adrift'
    BY <1>2 DEF Copying
  <2> QED BY <1>1, <1>3, <2>1, HeldStays
<1>5. CASE job'.i = job.i
  BY <1>1, <1>2, <1>4, <1>5, DueStays
<1>6. CASE job'.i = job.i + InPage /\ pc' = "write" /\ adrift' = adrift
  <2>1. CASE s - Here \notin 0 .. InPage - 1
    BY <1>0, <1>1, <1>2, <1>4, <1>6, <2>1, DueBeyond
  <2>2. CASE s - Here \in 0 .. InPage - 1
    <3>1. Due(s)' = job.data[job.i + 1 + (s - Here)]
      BY <1>0, <1>1, <1>2, <1>6, <2>2, DueBeyond
    <3>2. main'[HereBlk][HereCell + (s - Here)] = Due(s)'
      BY <1>1, <2>2, <3>1 DEF Programmed
    <3> QED BY <1>1, <1>6, <2>2, <3>2, HeldHere
  <2> QED BY <2>1, <2>2
<1> QED BY <1>2, <1>5, <1>6

\* A move begins without a write to the chip.
LEMMA HeldBegins ==
  ASSUME TypeOK, AckedOK, Held, WriteMove \/ ReadRefresh
  PROVE  Held'
<1>0. job \in Jobs
  BY DEF TypeOK, JobTypeOK
<1>1. /\ UNCHANGED <<main, tag, bad, lut, torn, acked>> /\ Mounted /\ adrift \subseteq adrift'
      /\ pc' = "cpFind" /\ \E n : job' = [job EXCEPT !.w = n]
  BY DEF WriteMove, ReadRefresh, StartCopy, flashVars, ramVars, Mounted, Formatting
<1>2. job'.kind = job.kind /\ job'.sec = job.sec /\ job'.data = job.data /\ job'.i = job.i
  BY <1>0, <1>1 DEF Jobs
<1>3. \A s \in Sector : Due(s)' \in {Due(s), NoPromise}
  BY <1>1, <1>2, DueStays
<1> QED BY <1>1, <1>3, HeldQuiet DEF Copying

\* The copy is looked for: no block that carries a number is taken.
LEMMA HeldFind ==
  ASSUME TypeOK, AckedOK, Held, CopyFind \/ CopyNoBlock
  PROVE  Held'
<1>1. CASE CopyFind
  <2>1. cp.src \in Block /\ cur \in 0 .. Blocks /\ cp \in Copies
    BY <1>1 DEF CopyFind, TypeOK, ControlOK, RamTypeOK
  <2>2. /\ UNCHANGED <<main, tag, bad, lut, job, acked>> /\ torn \subseteq torn'
        /\ adrift \subseteq adrift' /\ Mounted
        /\ pc = "cpFind" /\ cp' = [cp EXCEPT !.dst = SamePlaneUnused(cp.src), !.pg = 0]
    BY <1>1 DEF CopyFind, flashVars, Mounted, Formatting
  <2>3. tag[cp'.dst] = NoTag
    BY <1>1, <2>1, <2>2, SamePlaneResult DEF CopyFind, Unused, Copies
  <2> SUFFICES ASSUME NEW s \in Sector PROVE HeldAt(s)'
    BY DEF Held, HeldAt
  <2>4. Due(s)' = Due(s) /\ HeldAt(s)
    BY <2>2, DueStays, HeldIsAt
  <2>5. CASE Lbn(s) \notin Block
    BY <2>5 DEF HeldAt, Kept
  <2>6. CASE Lbn(s) \in Block
    <3>1. \A b \in Carriers(Lbn(s), bad, tag) : b # cp'.dst
      BY <2>3, <2>6, OfCarrier
    <3> QED BY <2>2, <2>4, <3>1, HeldStays
  <2> QED BY <2>5, <2>6
<1>2. CASE CopyNoBlock
  <2>1. /\ UNCHANGED <<main, tag, bad, lut, acked, torn>> /\ Mounted /\ adrift \subseteq adrift'
        /\ pc' \in {"ready", "rfBlank"} /\ (job'.kind = "none" \/ job' = job)
    BY <1>2 DEF CopyNoBlock, flashVars, Mounted, Formatting, Return, Idle
  <2>2. \A s \in Sector : Due(s)' \in {Due(s), NoPromise}
    BY <2>1, DueStays
  <2> QED BY <2>1, <2>2, HeldQuiet DEF Copying
<1> QED BY <1>1, <1>2

\* A page is programmed onto the copy, and nothing else is touched.
LEMMA HeldPage ==
  ASSUME TypeOK, Safe, AckedOK, Held, CopyPageStep
  PROVE  Held'
<1> SUFFICES ASSUME NEW s \in Sector PROVE HeldAt(s)'
  BY DEF Held, HeldAt
<1>1. /\ \A b \in Block : b # cp.dst => main'[b] = main[b]
      /\ job' = job /\ torn \subseteq torn' /\ UNCHANGED <<lut, acked, adrift>>
  BY PageWritten
<1>2. pc = "cpPage" /\ cp'.dst = cp.dst
  BY PageEffect
<1>3. Due(s)' = Due(s) /\ HeldAt(s)
  BY <1>1, DueStays, HeldIsAt
<1>4. CASE Lbn(s) \notin Block
  BY <1>4 DEF HeldAt, Kept
<1>5. CASE Lbn(s) \in Block
  <2>1. ASSUME Lbn(s) \notin adrift', NEW b \in Carriers(Lbn(s), bad, tag)
        PROVE  b \in Carriers(Lbn(s), bad', tag') /\ b \in Block
    <3>1. Lbn(s) \notin adrift
      BY <1>1, <2>1
    <3> QED BY <1>5, <2>1, <3>1, PageCarriers, OfCarrier
  <2> QED BY <1>1, <1>2, <1>3, <2>1, HeldStays DEF Copying, Mounted, Formatting
<1> QED BY <1>4, <1>5

\* The copy that failed is marked; the table is built, and leads to the source.
LEMMA HeldMarked ==
  ASSUME TypeOK, Safe, AckedOK, OneCarrier', Held, CopyMark \/ CopyMark2
  PROVE  Held'
<1> SUFFICES ASSUME NEW s \in Sector PROVE HeldAt(s)'
  BY DEF Held, HeldAt
<1>1. /\ UNCHANGED <<main, job, cp, acked, adrift>> /\ torn \subseteq torn'
      /\ pc \in {"cpMark", "cpMark2"}
      /\ \/ pc' = "cpMark2" /\ lut' = lut
         \/ pc' = "cpFind" /\ lut' = LutOf(bad', tag')
  <2>1. CASE CopyMark
    BY <2>1, MarkEffect DEF CopyMark, ramVars, ghostVars
  <2>2. CASE CopyMark2
    BY <2>2, MarkEffect DEF CopyMark2, CreateLut
  <2> QED BY <2>1, <2>2
<1>2. Due(s)' = Due(s) /\ HeldAt(s)
  BY <1>1, DueStays, HeldIsAt
<1>3. CASE Lbn(s) \notin Block
  BY <1>3 DEF HeldAt, Kept
<1>4. CASE Lbn(s) \in Block
  <2>1. Carriers(Lbn(s), bad, tag) \ {cp.dst} \subseteq Carriers(Lbn(s), bad', tag')
    BY <1>4, MarkCarriers
  <2>2. ASSUME pc' = "cpFind", NEW b \in Carriers(Lbn(s), bad', tag'),
               Lbn(s) \notin torn' \cup adrift'
        PROVE  lut'[Lbn(s)] = b
    BY <1>1, <1>4, <2>2, BuiltLeads DEF Copying
  <2>3. pc \in Copying /\ Mounted
    BY <1>1 DEF Copying, Mounted, Formatting
  <2> QED BY <1>1, <1>2, <2>1, <2>2, <2>3, HeldStays
<1> QED BY <1>3, <1>4

\* A refresh erases, zeroes and marks one block.
LEMMA RefreshElsewhere ==
  ASSUME TypeOK, RefreshBlank \/ RefreshZero \/ RefreshFill \/ RefreshErase \/ RefreshMark
                   \/ RefreshMark2
  PROVE  (\A b \in Block : b # cp.src => main'[b] = main[b]) /\ cap' = cap
<1>0. main \in [Block -> [Cell -> Val]]
  BY DEF TypeOK, FlashTypeOK
<1>1. CASE RefreshBlank \/ RefreshZero \/ RefreshErase
  BY <1>0, <1>1 DEF RefreshBlank, RefreshZero, RefreshErase, Erase, flashVars, ghostVars
<1>2. CASE RefreshFill
  BY <1>0, <1>2 DEF RefreshFill, FillZero, flashVars, ghostVars
<1>3. CASE RefreshMark \/ RefreshMark2
  BY <1>3, MarkEffect DEF RefreshMark, RefreshMark2, ghostVars
<1> QED BY <1>1, <1>2, <1>3

\* A refreshed block holds nothing: the table leads elsewhere.
LEMMA HeldRefresh ==
  ASSUME TypeOK, Safe, MoveAlone, AckedOK, OneCarrier', Held,
         RefreshBlank \/ RefreshZero \/ RefreshFill \/ RefreshErase \/ RefreshMark \/ RefreshMark2
  PROVE  Held'
<1> SUFFICES ASSUME NEW s \in Sector PROVE HeldAt(s)'
  BY DEF Held, HeldAt
<1>1. /\ \A l \in Block : Carriers(l, bad, tag) \ {cp.src} \subseteq Carriers(l, bad', tag')
      /\ lut' = lut \/ lut' = LutOf(bad', tag')
      /\ pc \in Refreshing /\ Mounted /\ pc' \in Refreshing \cup {"read"}
      /\ UNCHANGED <<torn, adrift, acked>>
  BY RefreshCarriers
<1>2. \A b \in Block : b # cp.src => main'[b] = main[b]
  BY RefreshElsewhere
<1>3. Due(s)' = Due(s) /\ HeldAt(s)
  <2>1. job.kind # "write"
    BY <1>1 DEF AckedOK
  <2>2. job'.kind = job.kind
    BY JobGoesOn DEF Working
  <2> QED BY <1>1, <2>1, <2>2, DueStays, HeldIsAt
<1>4. CASE Lbn(s) \notin Block
  BY <1>4 DEF HeldAt, Kept
<1>5. CASE Lbn(s) \in Block
  <2>1. ASSUME NEW b \in Carriers(Lbn(s), bad, tag), Lbn(s) \notin torn' \cup adrift',
               lut[Lbn(s)] = b
        PROVE  /\ b \in Carriers(Lbn(s), bad', tag')
               /\ main'[b] = main[b] /\ lut'[Lbn(s)] = b
    <3>1. b # cp.src /\ b \in Block
      BY <1>1, <1>5, <2>1 DEF MoveAlone, Carriers
    <3>2. b \in Carriers(Lbn(s), bad', tag')
      BY <1>1, <1>5, <3>1
    <3>3. pc' \notin Copying
      BY <1>1 DEF Refreshing, Copying
    <3>4. lut'[Lbn(s)] = b
      BY <1>1, <1>5, <2>1, <3>2, <3>3, BuiltLeads
    <3> QED BY <1>2, <3>1, <3>2, <3>4
  <2>2. pc \notin Copying /\ pc' \notin Copying
    BY <1>1 DEF Refreshing, Copying
  <2> QED BY <1>1, <1>3, <2>1, <2>2, HeldStays
<1> QED BY <1>4, <1>5

\* The source is erased, and the table led to the copy: the number that was moved is held
\* there, with its new data, and the others where they were.
LEMMA HeldErase ==
  ASSUME TypeOK, Safe, TableTrue, TableTrue', MoveAlone, OneCarrier, OneCarrier', OwnTag,
         AckedOK, CopyTrue, Held, CopyErase
  PROVE  Held'
<1> SUFFICES ASSUME NEW s \in Sector, Due(s)' # NoPromise,
                    Lbn(s) \in Block, Lbn(s) \notin torn' \cup adrift'
             PROVE  HeldAt(s)'
  BY DEF Held, HeldAt, Kept
<1> DEFINE l == Lbn(s)
           k == CellOf(s)
           i == s - Here
<1>0. job \in Jobs /\ main \in [Block -> [Cell -> Val]] /\ job.w \in Nat /\ job.i \in Nat
  BY DEF TypeOK, JobTypeOK, FlashTypeOK, Jobs
<1>1. /\ pc = "cpErase" /\ pc \in Copying /\ Mounted /\ Mounted' /\ acked' = acked
      /\ adrift' = adrift /\ torn \subseteq torn' /\ pc' \notin Copying
      /\ \A b \in Block : b # cp.src => main'[b] = main[b]
  BY <1>0 DEF CopyErase, Erase, flashVars, Copying, Mounted, Formatting
<1>2. /\ job'.kind = job.kind /\ job'.sec = job.sec /\ job'.data = job.data
      /\ job'.i = IF job.kind = "write" THEN job.i + job.w ELSE job.i
  BY <1>0 DEF CopyErase, Advance, Jobs
<1>3. l \in Kept /\ HeldAt(s) /\ k \in Cell
  BY <1>1, HeldIsAt, SectorPlace DEF Kept
<1>4. /\ l = HereLbn => k - HereCell = i
      /\ i \in 0 .. job.w - 1 => l = HereLbn
  <2>1. /\ HereCell \in Nat /\ HereCell + job.w <= BlockSectors /\ BlockSectors \in Nat
        /\ Here \in Nat /\ s \in Nat
    <3>1. HereCell \in Nat /\ s \in Nat
      BY HereTypes, SectorPlace DEF Cell
    <3>2. HereCell + job.w <= BlockSectors
      BY <1>1 DEF CopyTrue
    <3>3. Here \in Nat /\ BlockSectors \in Nat
      BY <1>0, GeometryAssumption DEF BlockSectors, Here, Jobs
    <3> QED BY <3>1, <3>2, <3>3
  <2>2. i \in 0 .. job.w - 1 => i \in Nat /\ s = Here + i /\ HereCell + i < BlockSectors
    BY <1>0, <2>1
  <2> QED BY <2>2, SectorPlace
<1>5. /\ i \notin 0 .. job.w - 1 \/ job.kind # "write" => Due(s)' = Due(s)
      /\ job.kind = "write" /\ i \in 0 .. job.w - 1 => Due(s)' = job.data[job.i + 1 + i]
  <2>1. CASE job.kind = "write"
    <3>1. job'.i = job.i + job.w
      BY <1>2, <2>1
    <3> HIDE DEF l, k, i
    <3>2. /\ s - Here \notin 0 .. job.w - 1 => Due(s)' = Due(s)
          /\ s - Here \in 0 .. job.w - 1 => Due(s)' = job.data[job.i + 1 + (s - Here)]
      BY <1>0, <1>1, <1>2, <2>1, <3>1, DueBeyond
    <3> QED BY <2>1, <3>2 DEF i
  <2>2. CASE job.kind # "write"
    BY <1>1, <1>2, <2>2, DueStays
  <2> QED BY <2>1, <2>2
<1> HIDE DEF i
<1>6. CASE l = HereLbn
  <2>1. /\ cp.src \in Block /\ cp.dst \in Block /\ cp.dst # cp.src
        /\ cp.src \in Carriers(l, bad, tag) /\ tag[cp.src] = l /\ l \notin Forsaken
    BY <1>1, <1>3, <1>6, CopyIsOther
  <2>2. cp.dst \in Carriers(l, bad, tag)
    <3>1. cp.dst \notin Bad /\ tag[cp.dst] = tag[cp.src]
      BY <1>1, <2>1 DEF Safe, MoveSafe
    <3> QED BY <2>1, <3>1, CarrierIs DEF Bad
  <2>3. cp.dst \in Carriers(l, bad', tag')
    BY <2>1, <2>2, EraseCarriers
  <2>4. lut'[l] = cp.dst
    <3>1. lut'[l] \in Carriers(l, bad', tag')
      BY <1>1, <2>3 DEF TableTrue
    <3> QED BY <1>1, <2>3, <3>1 DEF OneCarrier, Kept
  <2>5. main'[cp.dst][k] = Moved(k)
    BY <1>1, <1>3, <1>6, <2>1 DEF CopyTrue
  <2>6. Moved(k) = Due(s)'
    <3>1. CASE job.kind = "write" /\ i \in 0 .. job.w - 1
      <4>1. Moved(k) = job.data[job.i + 1 + k - HereCell]
        BY <1>4, <1>6, <3>1 DEF Moved
      <4>2. job.i + 1 + k - HereCell = job.i + 1 + i
        <5>1. k \in Nat /\ HereCell \in Nat
          BY <1>3, HereTypes DEF Cell
        <5> HIDE DEF k
        <5> QED BY <1>0, <1>4, <1>6, <5>1
      <4> QED BY <1>5, <3>1, <4>1, <4>2
    <3>2. CASE ~(job.kind = "write" /\ i \in 0 .. job.w - 1)
      <4>1. Moved(k) = main[cp.src][k]
        BY <1>4, <1>6, <3>2 DEF Moved
      <4>2. Due(s)' = Due(s)
        BY <1>5, <3>2
      <4>3. PICK b \in Carriers(l, bad, tag) : main[b][k] = Due(s) /\ b # cp.dst
        BY <1>1, <1>3, <4>2 DEF HeldAt
      <4>4. b = cp.src
        BY <1>3, <2>1, <2>2, <4>3 DEF OneCarrier
      <4> QED BY <4>1, <4>2, <4>3, <4>4
    <3> QED BY <3>1, <3>2
  <2> QED BY <1>1, <2>3, <2>4, <2>5, <2>6 DEF HeldAt
<1>7. CASE l # HereLbn
  <2>1. Due(s)' = Due(s)
    BY <1>4, <1>5, <1>7
  <2>2. ASSUME NEW b \in Carriers(l, bad, tag), lut[l] = b
        PROVE  /\ b \in Carriers(l, bad', tag') /\ main'[b] = main[b] /\ lut'[l] = b
    <3>1. b \in Block /\ tag[b] = l
      BY OfCarrier
    <3>2. b # cp.src
      BY <1>1, <1>3, <1>7, <3>1 DEF OwnTag
    <3>3. lut'[l] = lut[l]
      BY <1>1, <2>2, <3>2, EraseTable
    <3> QED BY <1>1, <2>2, <3>1, <3>2, <3>3, EraseCarriers
  <2> QED BY <1>1, <1>3, <2>1, <2>2, HeldStays
<1> QED BY <1>6, <1>7

\* Every step keeps what was acknowledged where it was, or takes it along.
LEMMA HeldNext ==
  ASSUME TypeOK, Safe, TableTrue, TableTrue', MoveAlone, OneCarrier, OneCarrier', OwnTag,
         AckedOK, AckedOK', Programmed, CopyTrue, Held, [Next]_vars
  PROVE  Held'
<1>1. CASE Request \/ WriteDone \/ Outside \/ ReadDone \/ ReadPage \/ BitError \/ PowerCut
  BY <1>1, HeldRequest
<1>2. CASE Boot \/ FmtErase \/ FmtMark \/ FmtMark2 \/ FmtErased \/ FmtTag \/ FmtTagged
  BY <1>2, HeldFormat
<1>3. CASE WriteInPlace \/ WriteMark \/ WriteMove \/ ReadRefresh
  BY <1>3, HeldInPlace, HeldMark, HeldBegins
<1>4. CASE CopyFind \/ CopyNoBlock \/ CopyPageStep \/ CopyMark \/ CopyMark2 \/ CopyErase
  BY <1>4, HeldFind, HeldPage, HeldMarked, HeldErase
<1>5. CASE CopyUsed
  <2>1. /\ UNCHANGED <<main, tag, bad, lut, torn, adrift, acked, job, cp>>
        /\ pc = "cpUsed" /\ pc' = "cpErase"
    BY <1>5 DEF CopyUsed, MarkUsed, flashVars, ramVars, ghostVars
  <2>2. \A s \in Sector : Due(s)' \in {Due(s), NoPromise}
    BY <2>1, DueStays
  <2> QED BY <2>1, <2>2, HeldQuiet DEF Copying, Mounted, Formatting
<1>6. CASE RefreshBlank \/ RefreshZero \/ RefreshFill \/ RefreshErase \/ RefreshMark
           \/ RefreshMark2
  BY <1>6, HeldRefresh
<1>7. CASE UNCHANGED vars
  <2>1. UNCHANGED <<main, tag, bad, lut, torn, adrift, acked, job, cp, pc>>
    BY <1>7 DEF vars, flashVars, ramVars, ghostVars
  <2>2. \A s \in Sector : Due(s)' \in {Due(s), NoPromise}
    BY <2>1, DueStays
  <2> QED BY <2>1, <2>2, HeldQuiet DEF Copying, Mounted, Formatting
<1> QED BY <1>1, <1>2, <1>3, <1>4, <1>5, <1>6, <1>7 DEF Next, Step

-----------------------------------------------------------------------------
\* The inductive invariant, whole: whatever marks the chip has from the factory, whichever
\* of the layer's own marks are not carried out, and whatever else fails or is cut.
THEOREM SoundAlways == Spec => []Sound
<1>1. Init => Sound
  <2> SUFFICES ASSUME Init PROVE Sound
    OBVIOUS
  <2>1. /\ pc = "off" /\ job.kind = "none"
        /\ acked = [s \in Sector |-> NoPromise]
        /\ \A b \in Block : tag[b] = NoTag
    BY DEF Init, Idle
  <2>2. Safe
    BY SafeInit
  <2>3. TableTrue /\ MoveAlone
    BY <2>1 DEF TableTrue, MoveAlone, Mounted, Formatting, Copying, Refreshing
  <2>4. OneCarrier /\ FormatFresh /\ OwnTag
    <3>1. \A l \in Block : Carriers(l, bad, tag) = {}
      BY <2>1, GeometryAssumption DEF Carriers, NoTag, Block
    <3> QED BY <2>1, <3>1 DEF OneCarrier, Kept, FormatFresh, OwnTag, Copying
  <2>5. AckedOK /\ Programmed /\ CopyTrue
    BY <2>1 DEF AckedOK, Programmed, CopyTrue, Copying
  <2>6. Held
    BY <2>1 DEF Held, Due
  <2> QED BY <2>2, <2>3, <2>4, <2>5, <2>6 DEF Sound
<1>2. TypeOK /\ Sound /\ [Next]_vars => Sound'
  <2> SUFFICES ASSUME TypeOK, Sound, [Next]_vars PROVE Sound'
    OBVIOUS
  <2>1. /\ Safe /\ TableTrue /\ MoveAlone /\ OneCarrier /\ FormatFresh /\ OwnTag
        /\ AckedOK /\ Programmed /\ CopyTrue /\ Held
    BY DEF Sound
  <2>2. Safe'
    BY <2>1, SafeNext
  <2>3. TableTrue' /\ MoveAlone'
    BY <2>1, <2>2, TableNext
  <2>4. FormatFresh' /\ OneCarrier' /\ OwnTag'
    BY <2>1, FreshNext, OwnNext
  <2>5. AckedOK' /\ Programmed' /\ CopyTrue'
    BY <2>1, AckedNext, ProgrammedNext, CopyNext
  <2>6. Held'
    BY <2>1, <2>3, <2>4, <2>5, HeldNext
  <2> QED BY <2>2, <2>3, <2>4, <2>5, <2>6 DEF Sound
<1> QED BY <1>1, <1>2, TypeCorrect, PTL DEF Spec

\* What ftl_write_sectors acknowledged is what ftl_read_sectors finds, after any number of
\* moves, failed commands, marks not carried out, refreshes and power cuts, for every
\* logical block that is not torn (a move that went wrong in one of the ways CopyFind,
\* CopyPageStep, CopyMark2, CopyErase and PowerCut note, an unfinished copy with neither
\* mark among them) and not adrift (refreshed when no block was unused, moved to a block
\* marked on page 1 only, or entangled with one of these).
THEOREM ReadBackAlways == Spec => []ReadBack
<1>1. TypeOK /\ Sound => ReadBack
  <2> SUFFICES ASSUME TypeOK, Sound, Mounted, NEW s \in Sector, acked[s] # NoPromise,
                      Lbn(s) \notin torn \cup adrift
               PROVE  Stored(s) = acked[s]
    BY DEF ReadBack
  <2>1. AckedOK /\ Held
    BY DEF Sound
  <2>2. Due(s) = acked[s]
    <3>1. CASE job.kind = "write" /\ s - job.sec \in 0 .. job.i - 1
      <4>1. job.i \in Nat /\ job.len \in Nat /\ job.i <= job.len
        BY DEF TypeOK, JobTypeOK, Jobs
      <4>2. s - job.sec \in 0 .. job.len - 1
        BY <3>1, <4>1
      <4> QED BY <2>1, <3>1, <4>2 DEF AckedOK
    <3>2. CASE ~(job.kind = "write" /\ s - job.sec \in 0 .. job.i - 1)
      BY <3>2 DEF Due
    <3> QED BY <3>1, <3>2
  <2>3. Lbn(s) \in Block
    <3>1. BlockSectors \in Nat \ {0}
      BY GeometryAssumption DEF BlockSectors
    <3>2. s \in Nat /\ s < BlockSectors * Blocks /\ Blocks \in Nat
      BY <3>1, GeometryAssumption DEF Sector
    <3>3. Lbn(s) \in Nat /\ s = BlockSectors * Lbn(s) + CellOf(s) /\ CellOf(s) \in Nat
      BY <3>1, <3>2 DEF Lbn, CellOf
    <3>4. Lbn(s) < Blocks
      <4> SUFFICES ASSUME Blocks <= Lbn(s) PROVE FALSE
        BY <3>2, <3>3
      <4>1. BlockSectors * Blocks <= BlockSectors * Lbn(s)
        BY <3>1, <3>2, <3>3, ProductGrows
      <4>2. BlockSectors * Blocks \in Int /\ BlockSectors * Lbn(s) \in Int
        BY <3>1, <3>2, <3>3
      <4> QED BY <3>2, <3>3, <4>1, <4>2
    <3> QED BY <3>2, <3>3, <3>4 DEF Block
  <2>4. PICK b \in Carriers(Lbn(s), bad, tag) : main[b][CellOf(s)] = Due(s) /\ lut[Lbn(s)] = b
    BY <2>1, <2>2, <2>3 DEF Held, Kept
  <2> QED BY <2>2, <2>4 DEF Stored
<1> QED BY <1>1, SoundAlways, TypeCorrect, PTL

-----------------------------------------------------------------------------
(***************************************************************************)
(* Fifth part.  StoreStep: the steps of the layer are steps of a plain     *)
(* array of sectors, whatever fails or is cut, as long as nothing is torn  *)
(* or adrift.                                                             *)
(*                                                                         *)
(* Each number then has one carrier outside a move, so that the table that *)
(* the next start will build is the one that the cut took away.  StoreInv  *)
(* says what else is needed: that a chip is blank until its first format   *)
(* has ended, where the array ends, and that a write has not passed there. *)
(***************************************************************************)
\* The table a read follows: the one in RAM, and with the power off the one to be built.
Table == IF Mounted THEN lut ELSE LutOf(bad, tag)

\* What a read of a sector finds.
At(s) == IF Lbn(s) < cap THEN main[Table[Lbn(s)]][CellOf(s)] ELSE Blank

\* The contents are those of every sector.
LEMMA ContentsAt ==
  /\ Contents = [s \in Sector |-> At(s)]
  /\ Contents' = [s \in Sector |-> At(s)']
BY DEF Contents, At, Table

\* The place of a sector is on a block that the chip has.
LEMMA SectorBlock ==
  ASSUME NEW s \in Sector
  PROVE  Lbn(s) \in Block /\ CellOf(s) \in Cell /\ s \in Nat
<1>1. BlockSectors \in Nat \ {0}
  BY GeometryAssumption DEF BlockSectors
<1>2. s \in Nat /\ s < BlockSectors * Blocks /\ Blocks \in Nat
  BY <1>1, GeometryAssumption DEF Sector
<1>3. Lbn(s) \in Nat /\ s = BlockSectors * Lbn(s) + CellOf(s) /\ CellOf(s) \in 0 .. BlockSectors - 1
  BY <1>1, <1>2 DEF Lbn, CellOf
<1>4. Lbn(s) < Blocks
  <2> SUFFICES ASSUME Blocks <= Lbn(s) PROVE FALSE
    BY <1>2, <1>3
  <2>1. BlockSectors * Blocks <= BlockSectors * Lbn(s)
    BY <1>1, <1>2, <1>3, ProductGrows
  <2>2. BlockSectors * Blocks \in Int /\ BlockSectors * Lbn(s) \in Int
    BY <1>1, <1>2, <1>3
  <2> QED BY <1>2, <1>3, <2>1, <2>2
<1> QED BY <1>2, <1>3, <1>4 DEF Block, Cell

\* The table leads every number that was handed out to a carrier of it.
LEMMA Leads ==
  ASSUME TypeOK, Sound, Intact, NEW l \in Block, l < cap
  PROVE  Table[l] \in Carriers(l, bad, tag) /\ Table[l] \in Block
<1>1. Safe /\ TableTrue /\ adrift = {} /\ l \in (0 .. cap - 1) \ adrift
  <2>1. cap \in Nat /\ l \in Nat
    BY GeometryAssumption DEF TypeOK, RamTypeOK, Block
  <2>2. Safe /\ TableTrue /\ adrift = {}
    BY DEF Sound, Intact
  <2> QED BY <2>1, <2>2
<1>2. Carriers(l, bad, tag) # {}
  BY <1>1 DEF Safe, NoLbnLost
<1>3. Table[l] \in Carriers(l, bad, tag)
  BY <1>1, <1>2, LutIsCarrier DEF Table, TableTrue
<1> QED BY <1>3 DEF Carriers

\* The same after a step.
LEMMA LeadsNext ==
  ASSUME TypeOK', Sound', Intact', NEW l \in Block, l < cap'
  PROVE  Table'[l] \in Carriers(l, bad', tag') /\ Table'[l] \in Block
<1>1. Safe' /\ TableTrue' /\ adrift' = {} /\ l \in (0 .. cap' - 1) \ adrift'
  <2>1. cap' \in Nat /\ l \in Nat
    BY GeometryAssumption DEF TypeOK, RamTypeOK, Block
  <2>2. Safe' /\ TableTrue' /\ adrift' = {}
    BY DEF Sound, Intact
  <2>3. l \in 0 .. cap' - 1
    <3> DEFINE c == cap'
    <3>1. c \in Nat /\ l \in Nat /\ l < c
      BY <2>1
    <3> HIDE DEF c
    <3>2. l \in 0 .. c - 1
      BY <3>1
    <3> QED BY <3>2 DEF c
  <2> QED BY <2>2, <2>3
<1>2. Carriers(l, bad', tag') # {}
  BY <1>1 DEF Safe, NoLbnLost
<1>3. Table'[l] \in Carriers(l, bad', tag')
  BY <1>1, <1>2, LutIsCarrier DEF Table, TableTrue
<1> QED BY <1>3 DEF Carriers

\* Outside a move there is one carrier, so that a table that is built leads where the last
\* one did.
LEMMA LeadsOn ==
  ASSUME TypeOK', Sound', Intact', pc' \notin Copying, NEW l \in Block, l < cap',
         NEW b \in Carriers(l, bad', tag')
  PROVE  Table'[l] = b
<1>1. OneCarrier' /\ l \in Kept'
  BY DEF Sound, Intact, Kept
<1>2. Table'[l] \in Carriers(l, bad', tag')
  BY LeadsNext
<1> QED BY <1>1, <1>2 DEF OneCarrier

\* A step that leaves the table and the chip's data alone.
LEMMA AtQuiet ==
  ASSUME UNCHANGED <<main, lut, cap>>, Mounted, Mounted', NEW s
  PROVE  At(s)' = At(s)
BY DEF At, Table

\* A step after which the block that holds a sector still does, and holds the same.
LEMMA AtStays ==
  ASSUME TypeOK, Sound, Intact, TypeOK', Sound', Intact', cap' = cap, pc' \notin Copying,
         NEW s \in Sector,
         Lbn(s) < cap => /\ Table[Lbn(s)] \in Carriers(Lbn(s), bad', tag')
                         /\ main'[Table[Lbn(s)]] = main[Table[Lbn(s)]]
  PROVE  At(s)' = At(s)
<1>1. Lbn(s) \in Block
  BY SectorBlock
<1>2. Lbn(s) < cap => Table'[Lbn(s)] = Table[Lbn(s)]
  BY <1>1, LeadsOn
<1> QED BY <1>2 DEF At

\* Nothing is found on a chip without a format.
LEMMA AtNothing ==
  ASSUME NEW s \in Sector
  PROVE  /\ cap = 0 => At(s) = Blank
         /\ cap' = 0 => At(s)' = Blank
<1>1. Lbn(s) \in Nat
  BY SectorBlock DEF Block
<1> QED BY <1>1 DEF At

\* Nothing is found on a chip whose numbers are on erased blocks.
LEMMA AtErased ==
  ASSUME TypeOK', Sound', Intact', Clean', NEW s \in Sector
  PROVE  At(s)' = Blank
<1>1. Lbn(s) \in Block /\ CellOf(s) \in Cell
  BY SectorBlock
<1>2. ASSUME Lbn(s) < cap' PROVE main'[Table'[Lbn(s)]] = Erased
  <2>1. Table'[Lbn(s)] \in Carriers(Lbn(s), bad', tag')
    BY <1>1, <1>2, LeadsNext
  <2>2. Lbn(s) # NoTag /\ torn' = {}
    BY <1>1, GeometryAssumption DEF NoTag, Block, Intact
  <2>3. Table'[Lbn(s)] \in Block \ Bad' /\ tag'[Table'[Lbn(s)]] = Lbn(s)
    BY <2>1 DEF Carriers, Bad
  <2> QED BY <2>2, <2>3 DEF Clean
<1> QED BY <1>1, <1>2 DEF At, Erased

\* The share of the good blocks that a start wants to find is a number of blocks.
LEMMA WantedType ==
  /\ Wanted \in Nat /\ Wanted >= MinBlocks /\ MinBlocks \in Nat \ {0}
  /\ \A v \in Nat : v < Wanted <=>
       \/ v < MinBlocks
       \/ v < (Cardinality(Block \ Bad) * CheckPercent) \div 100
<1> DEFINE g == Cardinality(Block \ Bad)
<1>1. g \in Nat /\ CheckPercent \in Nat /\ MinBlocks \in Nat \ {0}
  BY CountBlocks, ConfigAssumption, GeometryAssumption
<1> HIDE DEF g
<1>2. (g * CheckPercent) \div 100 \in Nat
  <2>1. g * CheckPercent \in Nat
    BY <1>1
  <2> QED BY <2>1
<1> DEFINE p == (g * CheckPercent) \div 100
<1>3. Wanted = IF p <= MinBlocks THEN MinBlocks ELSE p
  BY DEF Wanted, g
<1> HIDE DEF p
<1>4. p \in Nat
  BY <1>2 DEF p
<1>5. /\ Wanted \in Nat /\ Wanted >= MinBlocks
      /\ \A v \in Nat : v < Wanted <=> v < MinBlocks \/ v < p
  BY <1>1, <1>3, <1>4
<1> QED BY <1>1, <1>5 DEF p, g

\* ftl_init mounts the chip if it finds the numbers it wants, else it formats it.
LEMMA BootEnds ==
  ASSUME TypeOK', Boot
  PROVE  /\ lut' = LutOf(bad, tag) /\ valid' = ValidOf(LutOf(bad, tag), valid)
         /\ \/ valid' >= Wanted /\ pc' = "ready" /\ cap' = IF cap = 0 THEN valid' ELSE cap
            \/ valid' < Wanted /\ pc' = "fmtErase" /\ cap' = 0 /\ loop' = NoLoop
<1>1. valid' \in Nat
  BY GeometryAssumption DEF TypeOK, RamTypeOK
<1>2. lut' = LutOf(bad, tag) /\ valid' = ValidOf(LutOf(bad, tag), valid)
  BY DEF Boot
<1>3. CASE valid' < Wanted
  BY <1>1, <1>2, <1>3, WantedType DEF Boot, StartFormat
<1>4. CASE ~(valid' < Wanted)
  <2>1. valid' >= Wanted
    BY <1>1, <1>4, WantedType
  <2> QED BY <1>1, <1>2, <1>4, <2>1, WantedType DEF Boot
<1> QED BY <1>3, <1>4

\* What a table just built leads to are the numbers below the first that nobody carries.
LEMMA ValidFinds ==
  ASSUME NEW bd, NEW tg, \A b \in Block : tg[b] # Blocks - 1,
         NEW old, NEW v, v = ValidOf(LutOf(bd, tg), old)
  PROVE  /\ v \in Block /\ Carriers(v, bd, tg) = {}
         /\ \A l \in 0 .. v - 1 : l \in Block /\ Carriers(l, bd, tg) # {}
         /\ \A n \in 0 .. Blocks :
              (\A l \in 0 .. n - 1 : Carriers(l, bd, tg) # {}) => n <= v
<1>1. /\ v \in Block
      /\ \A l \in 0 .. v - 1 : Carriers(l, bd, tg) # {}
      /\ \A n \in 0 .. Blocks :
           (\A l \in 0 .. n - 1 : Carriers(l, bd, tg) # {}) => n <= v
  BY ValidIsFirstHole
<1>2. \A l \in 0 .. v - 1 : l \in Block
  BY <1>1, GeometryAssumption DEF Block
<1>3. Carriers(v, bd, tg) = {}
  <2> SUFFICES ASSUME Carriers(v, bd, tg) # {} PROVE FALSE
    OBVIOUS
  <2>1. v \in Nat /\ v + 1 \in 0 .. Blocks
    BY <1>1, GeometryAssumption DEF Block
  <2>2. \A l \in 0 .. (v + 1) - 1 : Carriers(l, bd, tg) # {}
    BY <1>1, <2>1
  <2> QED BY <1>1, <2>1, <2>2
<1> QED BY <1>1, <1>2, <1>3

\* A start: the table is built; on a chip that no format has ended on the numbers lead to
\* blank blocks.
LEMMA AtBoot ==
  ASSUME TypeOK, Sound, Intact, FormatBlank, TypeOK', Sound', Intact', Boot,
         cap > 0 => Wanted <= cap, NEW s \in Sector
  PROVE  At(s)' = At(s)
<1>1. cap \in Nat /\ valid' \in Nat /\ Safe /\ pc = "off" /\ UNCHANGED <<main, tag, bad, torn>>
  <2>1. cap \in Nat /\ valid' \in Nat
    BY GeometryAssumption DEF TypeOK, RamTypeOK
  <2> QED BY <2>1 DEF Sound, Boot, flashVars
<1>2. /\ lut' = LutOf(bad, tag) /\ valid' = ValidOf(LutOf(bad, tag), valid)
      /\ \/ valid' >= Wanted /\ pc' = "ready" /\ cap' = IF cap = 0 THEN valid' ELSE cap
         \/ valid' < Wanted /\ pc' = "fmtErase" /\ cap' = 0
  BY <1>1, BootEnds
<1>3. /\ \A l \in 0 .. valid' - 1 : l \in Block /\ Carriers(l, bad, tag) # {}
      /\ \A n \in 0 .. Blocks :
           (\A l \in 0 .. n - 1 : Carriers(l, bad, tag) # {}) => n <= valid'
  BY <1>1, <1>2, ValidFinds DEF Safe, FormatSafe
<1>4. CASE pc' = "ready" /\ cap > 0
  <2>1. lut' = Table /\ lut' = Table' /\ cap' = cap
    BY <1>1, <1>2, <1>4 DEF Table, Mounted, Formatting
  <2> QED BY <1>1, <2>1 DEF At
<1>5. CASE pc' = "ready" /\ ~(cap > 0)
  <2>1. cap = 0
    BY <1>1, <1>5
  <2>2. Accepted
    <3>1. 0 .. Wanted - 1 \subseteq 0 .. valid' - 1
      BY <1>1, <1>2, <1>5, WantedType
    <3> QED BY <1>3, <3>1 DEF Accepted
  <2>3. Clean
    BY <1>1, <2>1, <2>2 DEF FormatBlank
  <2>4. Clean'
    BY <1>1, <2>3 DEF Clean, Bad
  <2> QED BY <2>1, <2>4, AtErased, AtNothing
<1>6. CASE pc' = "fmtErase"
  <2>1. \A l \in 0 .. cap - 1 : Carriers(l, bad, tag) # {}
    BY <1>1 DEF Safe, NoLbnLost, Intact
  <2>2. cap <= valid'
    BY <1>3, <2>1 DEF TypeOK, RamTypeOK
  <2>3. cap = 0
    BY <1>1, <1>2, <1>6, <2>2, WantedType
  <2> QED BY <1>2, <1>6, <2>3, AtNothing
<1> QED BY <1>2, <1>4, <1>5, <1>6

\* A format: nothing was there, and nothing is.
LEMMA AtFormat ==
  ASSUME TypeOK, Sound, FormatBlank, TypeOK', Sound', Intact',
         FmtErase \/ FmtMark \/ FmtMark2 \/ FmtErased \/ FmtTag \/ FmtTagged, NEW s \in Sector
  PROVE  At(s) = Blank /\ At(s)' = Blank
<1>1. cap = 0
  <2>1. pc \in Formatting
    BY DEF FmtErase, FmtMark, FmtMark2, FmtErased, FmtTag, FmtTagged, Formatting
  <2> QED BY <2>1 DEF Sound, Safe, FormatSafe
<1>2. CASE FmtErase \/ FmtMark \/ FmtMark2 \/ FmtErased \/ FmtTag
  <2>1. cap' = 0
    BY <1>1, <1>2 DEF FmtErase, FmtMark, FmtMark2, FmtErased, FmtTag, ghostVars
  <2> QED BY <1>1, <2>1, AtNothing
<1>3. CASE FmtTagged
  <2>1. Clean /\ UNCHANGED <<main, tag, bad, torn>>
    BY <1>3 DEF FmtTagged, FormatBlank, flashVars
  <2>2. Clean'
    BY <2>1 DEF Clean, Bad
  <2> QED BY <1>1, <2>2, AtErased, AtNothing
<1> QED BY <1>2, <1>3

\* The steps of a request, and of the environment, that write nothing on a chip's sectors.
LEMMA AtRequest ==
  ASSUME TypeOK,
         \/ Request \/ WriteDone \/ Outside \/ ReadDone \/ ReadPage \/ BitError
         \/ WriteMark \/ WriteMove \/ ReadRefresh \/ CopyFind \/ CopyNoBlock \/ CopyUsed,
         NEW s \in Sector
  PROVE  At(s)' = At(s)
<1>1. CASE Request
  <2>1. UNCHANGED <<main, lut, cap>> /\ pc = "ready" /\ pc' \in {"write", "read"}
    BY <1>1, RequestEffect
  <2> QED BY <2>1, AtQuiet DEF Mounted, Formatting
<1>2. CASE WriteDone \/ Outside \/ ReadDone \/ ReadPage \/ BitError
  <2>1. /\ UNCHANGED <<main, lut, cap>> /\ pc \in {"ready", "write", "read"}
        /\ pc' \in {"ready", "read"}
    BY <1>2 DEF WriteDone, Outside, ReadDone, ReadPage, BitError, flashVars, ramVars, ghostVars
  <2> QED BY <2>1, AtQuiet DEF Mounted, Formatting
<1>3. CASE WriteMark \/ WriteMove \/ ReadRefresh
  <2>1. /\ UNCHANGED <<main, lut, cap>> /\ pc \in {"write", "wrUsed", "read"}
        /\ pc' \in {"write", "cpFind"}
    BY <1>3 DEF WriteMark, WriteMove, ReadRefresh, StartCopy, MarkUsed, flashVars, ramVars
  <2> QED BY <2>1, AtQuiet DEF Mounted, Formatting
<1>4. CASE CopyFind \/ CopyNoBlock \/ CopyUsed
  <2>1. /\ UNCHANGED <<main, lut, cap>> /\ pc \in {"cpFind", "cpUsed"}
        /\ pc' \in {"cpPage", "cpErase", "ready", "rfBlank"}
    BY <1>4 DEF CopyFind, CopyNoBlock, CopyUsed, MarkUsed, flashVars, ramVars, ghostVars
  <2> QED BY <2>1, AtQuiet DEF Mounted, Formatting
<1> QED BY <1>1, <1>2, <1>3, <1>4

\* A page of the copy, its marks, and the refreshed block: no number leads there.
LEMMA AtElsewhere ==
  ASSUME TypeOK, Sound, Intact, TypeOK', Sound', Intact',
         \/ CopyPageStep \/ CopyMark \/ CopyMark2
         \/ RefreshBlank \/ RefreshZero \/ RefreshFill \/ RefreshErase
         \/ RefreshMark \/ RefreshMark2,
         NEW s \in Sector
  PROVE  At(s)' = At(s)
<1>0. Safe /\ MoveAlone /\ adrift = {} /\ adrift' = {}
  BY DEF Sound, Intact
<1>1. Lbn(s) \in Block
  BY SectorBlock
<1>2. Lbn(s) < cap => Table[Lbn(s)] \in Carriers(Lbn(s), bad, tag) /\ Table[Lbn(s)] \in Block
  BY <1>1, Leads
<1>3. CASE CopyPageStep
  <2>1. \A b \in Block : b # cp.dst => main'[b] = main[b]
    BY <1>3, PageWritten
  <2>2. /\ UNCHANGED <<lut, cap>> /\ pc = "cpPage" /\ Mounted /\ Mounted'
        /\ cp.dst # lut[Lbn(s)]
    <3>1. UNCHANGED <<lut, cap>> /\ pc = "cpPage" /\ pc' \in {"cpMark", "cpUsed", "cpPage"}
      BY <1>0, <1>3, PageEffect
    <3>2. lut[Lbn(s)] # cp.dst
      BY <1>0, <1>1, <3>1 DEF MoveAlone, Copying
    <3> QED BY <3>1, <3>2 DEF Mounted, Formatting
  <2> QED BY <1>2, <2>1, <2>2 DEF At, Table
<1>4. CASE CopyMark
  <2>1. UNCHANGED <<main, lut, cap>> /\ pc = "cpMark" /\ pc' = "cpMark2"
    BY <1>4, MarkEffect DEF CopyMark, ramVars, ghostVars
  <2> QED BY <2>1, AtQuiet DEF Mounted, Formatting
<1>5. CASE CopyMark2
  <2>1. pc = "cpMark2" /\ pc' = "cpFind" /\ Mounted /\ UNCHANGED <<main, cap>>
    BY <1>5, MarkEffect DEF CopyMark2, Mounted, Formatting
  <2>2. Table[Lbn(s)] # cp.dst
    BY <1>0, <1>1, <2>1 DEF MoveAlone, Copying, Table
  <2>3. Lbn(s) < cap => Table[Lbn(s)] \in Carriers(Lbn(s), bad', tag')
    BY <1>1, <1>2, <1>5, <2>2, MarkCarriers
  <2> QED BY <2>1, <2>3, AtStays DEF Copying
<1>6. CASE RefreshBlank \/ RefreshZero \/ RefreshFill \/ RefreshErase \/ RefreshMark
           \/ RefreshMark2
  <2>1. /\ pc \in Refreshing /\ Mounted /\ pc' \in Refreshing \cup {"read"} /\ cap' = cap
        /\ \A b \in Block : b # cp.src => main'[b] = main[b]
        /\ Carriers(Lbn(s), bad, tag) \ {cp.src} \subseteq Carriers(Lbn(s), bad', tag')
    BY <1>1, <1>6, RefreshCarriers, RefreshElsewhere
  <2>2. Table[Lbn(s)] # cp.src
    BY <1>0, <1>1, <2>1 DEF MoveAlone, Table
  <2>3. pc' \notin Copying
    BY <2>1 DEF Copying, Refreshing
  <2> QED BY <1>2, <2>1, <2>2, <2>3, AtStays
<1> QED BY <1>3, <1>4, <1>5, <1>6

\* The power is cut: the next start leads where the table did.
LEMMA AtCut ==
  ASSUME TypeOK, Sound, Intact, TypeOK', Sound', Intact', PowerCut, NEW s \in Sector
  PROVE  At(s)' = At(s)
<1>1. UNCHANGED <<main, tag, bad, cap>> /\ pc' = "off"
  BY DEF PowerCut, flashVars
<1>2. Lbn(s) < cap => Table[Lbn(s)] \in Carriers(Lbn(s), bad', tag')
  BY <1>1, SectorBlock, Leads
<1> QED BY <1>1, <1>2, AtStays DEF Copying

\* What a sector holds after a step of a write: what it held, or its part of the new data.
Lands(s) ==
  \/ At(s)' = At(s)
  \/ /\ job.kind = "write" /\ s - job.sec \in 0 .. job.len - 1
     /\ At(s)' = job.data[s - job.sec + 1]

\* The j-th sector from the one the write has come to.
LEMMA DataOf ==
  ASSUME TypeOK, job.kind = "write", NEW s \in Sector, NEW n \in Nat, job.i + n <= job.len,
         s - Here \in 0 .. n - 1
  PROVE  /\ s - job.sec \in 0 .. job.len - 1
         /\ job.i + 1 + (s - Here) = s - job.sec + 1
<1>1. job.sec \in Nat /\ job.i \in Nat /\ job.len \in Nat /\ s \in Nat
  BY SectorPlace DEF TypeOK, JobTypeOK, Jobs
<1> QED BY <1>1 DEF Here

\* The table leads two numbers that were handed out to two blocks.
LEMMA LeadsApart ==
  ASSUME TypeOK, Sound, Intact, Mounted, NEW l \in Block, NEW m \in Block,
         lut[l] = lut[m], lut[l] \in Block
  PROVE  l = m
<1>1. TableTrue /\ adrift = {}
  BY DEF Sound, Intact
<1> QED BY <1>1, EntryIsCarrier

\* The block a request works on is the one the table leads its number to.
LEMMA HereLeads ==
  ASSUME TypeOK, HereBlk # NoBlock
  PROVE  HereLbn \in Block /\ HereBlk = lut[HereLbn] /\ HereLbn <= valid
<1>1. HereBlk = IF HereLbn > valid \/ HereLbn \notin Block THEN NoBlock ELSE lut[HereLbn]
  BY DEF HereBlk, Pbn
<1>2. HereLbn \in Block /\ HereBlk = lut[HereLbn] /\ ~(HereLbn > valid)
  BY <1>1
<1> QED BY <1>2, GeometryAssumption DEF TypeOK, RamTypeOK, Block

\* A page programmed in place: some of its sectors, or all, get the new data.
LEMMA AtInPlace ==
  ASSUME TypeOK, Sound, Intact, WriteInPlace, NEW s \in Sector
  PROVE  Lands(s)
<1> DEFINE l == Lbn(s)
           k == CellOf(s)
<1>1. /\ HereBlk \in Block /\ job.kind = "write" /\ pc = "write" /\ UNCHANGED <<lut, cap>>
      /\ Mounted /\ Mounted'
  <2>1. pc' \in {"write", "wrUsed", "cpFind"} /\ UNCHANGED <<lut, cap>>
    BY DEF WriteInPlace, StartCopy, ramVars
  <2> QED BY <2>1, InPlaceEffect DEF Mounted, Formatting
<1>2. l \in Block /\ k \in Cell /\ HereCell \in Nat /\ InPage \in Nat /\ k \in Nat
      /\ job.i + InPage <= job.len
  BY SectorBlock, HereTypes DEF Cell
<1>3. At(s) = (IF l < cap THEN main[lut[l]][k] ELSE Blank)
      /\ At(s)' = (IF l < cap THEN main'[lut[l]][k] ELSE Blank)
  BY <1>1 DEF At, Table
<1>4. l < cap => lut[l] \in Block
  BY <1>1, <1>2, Leads DEF Table
<1>5. HereLbn \in Block /\ HereBlk = lut[HereLbn]
  BY <1>1, HereLeads DEF WriteInPlace
<1> HIDE DEF k
<1>6. CASE l < cap /\ lut[l] = HereBlk /\ k \in HereCell .. HereCell + InPage - 1
  <2>1. l = HereLbn
    BY <1>1, <1>2, <1>5, <1>6, LeadsApart
  <2>2. k - HereCell = s - Here
    BY <2>1, SectorPlace DEF k
  <2>3. s - Here \in 0 .. InPage - 1
    <3>1. k - HereCell \in 0 .. InPage - 1
      BY <1>2, <1>6
    <3> QED BY <2>2, <3>1
  <2>4. /\ main[HereBlk][k] = Blank
        /\ main'[HereBlk][HereCell + (s - Here)] \in {Blank, job.data[job.i + 1 + (s - Here)]}
    BY <1>6, <2>3, InPlaceEffect
  <2>5. HereCell + (s - Here) = k
    BY <1>2, <2>2
  <2>6. /\ s - job.sec \in 0 .. job.len - 1
        /\ job.i + 1 + (s - Here) = s - job.sec + 1
    BY <1>1, <1>2, <2>3, DataOf
  <2> QED BY <1>1, <1>3, <1>6, <2>4, <2>5, <2>6 DEF Lands
<1>7. CASE ~(l < cap /\ lut[l] = HereBlk /\ k \in HereCell .. HereCell + InPage - 1)
  BY <1>2, <1>3, <1>4, <1>7, InPlaceEffect DEF Lands
<1> QED BY <1>6, <1>7

\* The source is erased, and the table led to the copy, which holds the new data.
LEMMA AtErase ==
  ASSUME TypeOK, Sound, Intact, TypeOK', Sound', Intact', CopyErase, NEW s \in Sector
  PROVE  Lands(s)
<1> DEFINE l == Lbn(s)
           k == CellOf(s)
<1>0. /\ main \in [Block -> [Cell -> Val]] /\ Safe /\ TableTrue /\ MoveAlone /\ OwnTag
      /\ CopyTrue /\ adrift = {} /\ torn = {}
  BY DEF TypeOK, FlashTypeOK, Sound, Intact
<1>1. /\ pc = "cpErase" /\ pc \in Copying /\ Mounted /\ Mounted' /\ cap' = cap
      /\ \A b \in Block : b # cp.src => main'[b] = main[b]
  BY <1>0 DEF CopyErase, Erase, flashVars, Copying, Mounted, Formatting
<1>2. l \in Block /\ k \in Cell /\ HereCell \in Nat /\ k \in Nat
  BY SectorBlock, HereTypes DEF Cell
<1>3. lut'[l] = IF lut[l] = cp.src THEN cp.dst ELSE lut[l]
  BY <1>0, <1>2, EraseTable
<1>4. At(s) = (IF l < cap THEN main[lut[l]][k] ELSE Blank)
      /\ At(s)' = (IF l < cap THEN main'[lut'[l]][k] ELSE Blank)
  BY <1>1 DEF At, Table
<1>5. l < cap => lut[l] \in Block
  BY <1>1, <1>2, Leads DEF Table
<1> HIDE DEF k
<1>6. CASE l < cap /\ lut[l] = cp.src
  <2>1. tag[cp.src] = l
    BY <1>0, <1>1, <1>2, <1>5, <1>6, EntryIsCarrier
  <2>2. l = HereLbn /\ HereLbn \in Kept
    BY <1>0, <1>1, <1>2, <2>1 DEF OwnTag, Kept
  <2>3. cp.dst \in Block /\ cp.dst # cp.src
    BY <1>0, <1>1, <2>2, CopyIsOther
  <2>4. At(s)' = Moved(k) /\ At(s) = main[cp.src][k]
    <3>1. main[cp.dst][k] = Moved(k)
      BY <1>0, <1>1, <1>2, <2>2 DEF CopyTrue
    <3> QED BY <1>1, <1>3, <1>4, <1>6, <2>3, <3>1
  <2>5. k - HereCell = s - Here
    BY <2>2, SectorPlace DEF k
  <2>6. CASE job.kind = "write" /\ k - HereCell \in 0 .. job.w - 1
    <3>1. /\ job.w \in Nat /\ job.i \in Nat /\ job.i + job.w <= job.len
      BY <1>1 DEF TypeOK, JobTypeOK, Jobs, ControlOK
    <3>2. /\ s - job.sec \in 0 .. job.len - 1
          /\ job.i + 1 + (s - Here) = s - job.sec + 1
      BY <2>5, <2>6, <3>1, DataOf
    <3>3. Moved(k) = job.data[job.i + 1 + k - HereCell]
      BY <2>6 DEF Moved
    <3>4. job.i + 1 + k - HereCell = job.i + 1 + (s - Here)
      BY <1>2, <2>5, <3>1
    <3> QED BY <2>4, <2>6, <3>2, <3>3, <3>4 DEF Lands
  <2>7. CASE ~(job.kind = "write" /\ k - HereCell \in 0 .. job.w - 1)
    <3>1. Moved(k) = main[cp.src][k]
      BY <2>7 DEF Moved
    <3> QED BY <2>4, <3>1 DEF Lands
  <2> QED BY <2>6, <2>7
<1>7. CASE ~(l < cap /\ lut[l] = cp.src)
  <2>1. At(s)' = At(s)
    BY <1>1, <1>3, <1>4, <1>5, <1>7
  <2> QED BY <2>1 DEF Lands
<1> QED BY <1>6, <1>7

\* The steps of a request and of the environment, the power cut aside.
Running == Working \/ WriteDone \/ Outside \/ ReadDone \/ CopyNoBlock \/ Request \/ BitError

\* None of them leaves the layer, or forgets a block that was given up.
LEMMA RunningStays ==
  ASSUME TypeOK, Running
  PROVE  Mounted /\ Mounted' /\ cap' = cap /\ adrift \subseteq adrift'
<1>1. CASE WriteInPlace \/ WriteMark \/ WriteMove \/ ReadPage \/ ReadRefresh
  BY <1>1 DEF WriteInPlace, WriteMark, WriteMove, ReadPage, ReadRefresh, StartCopy, ghostVars,
              Mounted, Formatting
<1>2. CASE CopyFind \/ CopyPageStep \/ CopyMark \/ CopyMark2 \/ CopyUsed \/ CopyErase
           \/ CopyNoBlock
  BY <1>2 DEF CopyFind, CopyPageStep, CopyMark, CopyMark2, CopyUsed, CopyErase, CopyNoBlock,
              ghostVars, Mounted, Formatting
<1>3. CASE RefreshBlank \/ RefreshZero \/ RefreshFill \/ RefreshErase \/ RefreshMark
           \/ RefreshMark2
  BY <1>3 DEF RefreshBlank, RefreshZero, RefreshFill, RefreshErase, RefreshMark, RefreshMark2,
              ghostVars, Mounted, Formatting
<1>4. CASE WriteDone \/ Outside \/ ReadDone \/ BitError
  BY <1>4 DEF WriteDone, Outside, ReadDone, BitError, ghostVars, Mounted, Formatting
<1>5. CASE Request
  BY <1>5, RequestEffect DEF Mounted, Formatting
<1> QED BY <1>1, <1>2, <1>3, <1>4, <1>5 DEF Running, Working

\* The second pass of a format writes a number on a blank block, or gives it up.
LEMMA TagClean ==
  ASSUME TypeOK, Clean, FmtTag
  PROVE  Clean'
<1>1. /\ bad' = bad /\ torn \subseteq torn' /\ loop.i \in Block
      /\ \A b \in Block : b # loop.i => tag'[b] = tag[b]
  BY TagEffect
<1>2. main' = main
  BY DEF FmtTag, WriteTag, flashVars
<1>3. loop.i \notin Bad => tag'[loop.i] \in torn' \cup {NoTag} \/ main[loop.i] = Erased
  BY DEF FmtTag
<1> QED BY <1>1, <1>2, <1>3 DEF Clean, Bad

\* A chip on which no format has ended is refused, or blank.
LEMMA BlankNext ==
  ASSUME TypeOK, Sound, FormatBlank, TypeOK', Sound', [Next]_vars,
         pc \in Formatting => Wanted' = Wanted
  PROVE  FormatBlank'
<1>0. /\ main \in [Block -> [Cell -> Val]] /\ bad \in [{0, 1} -> SUBSET Block]
      /\ Safe /\ Safe' /\ cap \in Nat /\ valid' \in Nat /\ loop \in Loops
      /\ loop.i \in Nat /\ MinBlocks \in Nat \ {0}
  <2>1. cap \in Nat /\ valid' \in Nat
    BY GeometryAssumption DEF TypeOK, RamTypeOK
  <2>2. Safe /\ Safe'
    BY DEF Sound
  <2> QED BY <2>1, <2>2, ConfigAssumption DEF TypeOK, FlashTypeOK, Loops
<1>1. CASE Boot
  <2>1. pc' = "ready" => cap' > 0
    BY <1>0, <1>1, BootEnds, WantedType
  <2>2. pc' = "fmtErase" => ~Accepted'
    <3> SUFFICES ASSUME pc' = "fmtErase", Accepted' PROVE FALSE
      OBVIOUS
    <3>1. UNCHANGED <<bad, tag>>
      BY <1>1 DEF Boot, flashVars
    <3>2. Accepted
      BY <3>1 DEF Accepted, Wanted, Bad
    <3>3. valid' < Wanted /\ valid' = ValidOf(LutOf(bad, tag), valid)
      BY <1>1, BootEnds
    <3>4. Carriers(valid', bad, tag) = {}
      BY <1>0, <3>3, ValidFinds DEF Safe, FormatSafe
    <3>5. valid' \in 0 .. Wanted - 1
      BY <1>0, <3>3, WantedType
    <3> QED BY <3>2, <3>4, <3>5 DEF Accepted
  <2>3. pc' \in {"ready", "fmtErase"}
    BY <1>1, BootEnds
  <2> QED BY <2>1, <2>2, <2>3 DEF FormatBlank, Mounted, Formatting
<1>2. CASE FmtErase \/ FmtMark \/ FmtMark2
  <2>1. /\ pc \in {"fmtErase", "fmtMark", "fmtMark2"} /\ pc' \in {"fmtErase", "fmtMark", "fmtMark2"}
        /\ \/ tag' = tag /\ bad' = bad
           \/ tag' = [tag EXCEPT ![loop.i] = NoTag] /\ bad' = [p \in {0, 1} |-> bad[p] \ {loop.i}]
           \/ tag' = tag /\ Bad \subseteq Bad' /\ Bad' \subseteq Bad \cup {loop.i}
    <3>1. CASE FmtErase
      BY <3>1 DEF FmtErase, Erase, flashVars
    <3>2. CASE FmtMark \/ FmtMark2
      BY <3>2, MarkEffect DEF FmtMark, FmtMark2
    <3> QED BY <1>2, <3>1, <3>2
  <2>2. \A l \in Block : Carriers(l, bad', tag') \subseteq Carriers(l, bad, tag)
    BY <2>1, LostCarriers
  <2>3. cap = 0 /\ Wanted' = Wanted /\ ~Accepted
    BY <1>0, <2>1 DEF Safe, FormatSafe, Formatting, FormatBlank
  <2>4. ~Accepted'
    BY <2>2, <2>3 DEF Accepted
  <2> QED BY <2>1, <2>4 DEF FormatBlank, Mounted, Formatting
<1>3. CASE FmtErased
  <2>1. /\ pc' \in {"off", "fmtTag"} /\ UNCHANGED <<tag, bad>>
        /\ torn' = {tag[b] : b \in Block \ Bad} \ {NoTag}
    BY <1>3 DEF FmtErased, flashVars
  <2>2. Clean'
    BY <2>1 DEF Clean, Bad
  <2> QED BY <2>1, <2>2 DEF FormatBlank, Mounted, Formatting
<1>4. CASE FmtTag
  <2>1. Clean'
    BY <1>4, TagClean DEF FormatBlank, FmtTag
  <2> QED BY <1>4, <2>1 DEF FormatBlank, Mounted, Formatting, FmtTag
<1>8. CASE FmtTagged
  <2>1. /\ Clean /\ UNCHANGED <<main, tag, bad, torn>>
        /\ pc' = "off" \/ (pc' = "ready" /\ cap' > 0)
    BY <1>0, <1>8 DEF FmtTagged, FormatBlank, flashVars
  <2>2. Clean'
    BY <2>1 DEF Clean, Bad
  <2> QED BY <2>1, <2>2 DEF FormatBlank, Mounted, Formatting
<1>5. CASE PowerCut
  <2>1. /\ pc' = "off" /\ UNCHANGED <<main, tag, bad, cap>> /\ pc # "off" /\ torn \subseteq torn'
    BY <1>5 DEF PowerCut, flashVars
  <2>2. Accepted' = Accepted /\ (Clean => Clean')
    BY <2>1 DEF Accepted, Wanted, Clean, Bad
  <2>3. cap = 0 => pc \in Formatting
    BY <2>1 DEF FormatBlank, Mounted
  <2> QED BY <2>1, <2>2, <2>3 DEF FormatBlank, Mounted, Formatting
<1>6. CASE Running
  <2>1. Mounted /\ Mounted' /\ cap' = cap
    BY <1>6, RunningStays
  <2> QED BY <2>1 DEF FormatBlank, Mounted, Formatting
<1>7. CASE UNCHANGED vars
  <2>1. UNCHANGED <<main, tag, bad, cap, pc, torn>>
    BY <1>7 DEF vars, flashVars, ghostVars
  <2>2. Accepted' = Accepted /\ Clean' = Clean
    BY <2>1 DEF Accepted, Wanted, Clean, Bad
  <2> QED BY <2>1, <2>2 DEF FormatBlank, Mounted, Formatting
<1> QED BY <1>1, <1>2, <1>3, <1>4, <1>5, <1>6, <1>7, <1>8 DEF Next, Step, Running, Working

\* The steps that work on no copy and refresh no block leave the spare areas alone, but for
\* used marks.
LEMMA RunningKeepsTags ==
  ASSUME Running,
         ~(CopyPageStep \/ CopyMark \/ CopyMark2 \/ CopyErase \/ RefreshBlank \/ RefreshZero
             \/ RefreshFill \/ RefreshErase \/ RefreshMark \/ RefreshMark2)
  PROVE  UNCHANGED <<tag, bad>>
<1>1. CASE WriteInPlace \/ WriteMark \/ WriteMove \/ ReadPage \/ ReadRefresh
  BY <1>1 DEF WriteInPlace, WriteMark, WriteMove, ReadPage, ReadRefresh, Program, MarkUsed,
              flashVars
<1>2. CASE CopyFind \/ CopyUsed \/ CopyNoBlock
  BY <1>2 DEF CopyFind, CopyUsed, CopyNoBlock, MarkUsed, flashVars
<1>3. CASE WriteDone \/ Outside \/ ReadDone \/ BitError
  BY <1>3 DEF WriteDone, Outside, ReadDone, BitError, flashVars
<1>4. CASE Request
  BY <1>4, RequestEffect
<1> QED BY <1>1, <1>2, <1>3, <1>4 DEF Running, Working

\* They leave the end of the table alone, or build it anew.
LEMMA RunningKeepsTable ==
  ASSUME TypeOK, Running
  PROVE  valid' = valid \/ valid' = ValidOf(LutOf(bad', tag'), valid)
<1>1. CASE WriteInPlace \/ WriteMark \/ WriteMove \/ ReadPage \/ ReadRefresh
  BY <1>1 DEF WriteInPlace, WriteMark, WriteMove, ReadPage, ReadRefresh, ramVars
<1>2. CASE CopyFind \/ CopyPageStep \/ CopyMark \/ CopyUsed \/ CopyErase \/ CopyNoBlock
  BY <1>2 DEF CopyFind, CopyPageStep, CopyMark, CopyUsed, CopyErase, CopyNoBlock, ramVars
<1>3. CASE RefreshBlank \/ RefreshZero \/ RefreshFill \/ RefreshErase \/ RefreshMark
  BY <1>3 DEF RefreshBlank, RefreshZero, RefreshFill, RefreshErase, RefreshMark, ramVars
<1>4. CASE CopyMark2 \/ RefreshMark2
  <2>1. tag' = tag
    BY <1>4, MarkEffect DEF CopyMark2, RefreshMark2
  <2> QED BY <1>4, <2>1 DEF CopyMark2, RefreshMark2, CreateLut
<1>5. CASE WriteDone \/ Outside \/ ReadDone \/ BitError
  BY <1>5 DEF WriteDone, Outside, ReadDone, BitError, ramVars
<1>6. CASE Request
  BY <1>6, RequestEffect
<1> QED BY <1>1, <1>2, <1>3, <1>4, <1>5, <1>6 DEF Running, Working

\* Of a table built anew the first hole is the end of the store.
LEMMA ValidIsCap ==
  ASSUME NEW bd, NEW tg, \A b \in Block : tg[b] # Blocks - 1, NEW old,
         NEW c \in Block, Carriers(c, bd, tg) = {}, \A l \in 0 .. c - 1 : Carriers(l, bd, tg) # {}
  PROVE  ValidOf(LutOf(bd, tg), old) = c
<1> DEFINE v == ValidOf(LutOf(bd, tg), old)
<1>1. /\ v \in Block
      /\ \A l \in 0 .. v - 1 : Carriers(l, bd, tg) # {}
      /\ \A n \in 0 .. Blocks :
           (\A l \in 0 .. n - 1 : Carriers(l, bd, tg) # {}) => n <= v
  BY ValidFinds
<1> HIDE DEF v
<1>2. c \in Nat /\ v \in Nat /\ c \in 0 .. Blocks
  BY <1>1, GeometryAssumption DEF Block
<1>3. c <= v
  BY <1>1, <1>2
<1>4. ~(c < v)
  BY <1>1, <1>2
<1> QED BY <1>2, <1>3, <1>4 DEF v

\* The end of the store is no block's number, and what is found of it ends there.
LEMMA EndsNext ==
  ASSUME TypeOK, Sound, StoreEnds, TypeOK', Sound', [Next]_vars
  PROVE  StoreEnds'
<1>0. /\ Safe /\ Safe' /\ cap \in Nat /\ cap' \in Nat /\ valid' \in Nat
      /\ \A b \in Block : tag[b] # Blocks - 1
      /\ \A b \in Block : tag'[b] # Blocks - 1
  <2>1. cap \in Nat /\ cap' \in Nat /\ valid' \in Nat
    BY GeometryAssumption DEF TypeOK, RamTypeOK
  <2>2. Safe /\ Safe'
    BY DEF Sound
  <2> QED BY <2>1, <2>2 DEF Safe, FormatSafe
<1>1. adrift' = {} => \A l \in 0 .. cap' - 1 : Carriers(l, bad', tag') # {}
  BY <1>0 DEF Safe, NoLbnLost
<1>2. CASE Boot
  <2>1. UNCHANGED <<bad, tag, adrift>> /\ valid' = ValidOf(LutOf(bad, tag), valid)
        /\ cap' \in {0, cap, valid'} /\ (cap > 0 => cap' \in {0, cap})
    BY <1>2, BootEnds DEF Boot, flashVars
  <2>2. valid' \in Block /\ Carriers(valid', bad, tag) = {}
    BY <1>0, <2>1, ValidFinds
  <2>3. CASE cap' > 0 /\ cap > 0
    <3>1. /\ cap' = cap /\ cap \in Block
          /\ cap \notin adrift => Carriers(cap, bad, tag) = {}
      BY <2>1, <2>3 DEF StoreEnds
    <3>2. adrift' = {} => valid' = cap
      BY <1>0, <1>1, <2>1, <3>1, ValidIsCap
    <3> QED BY <2>1, <3>1, <3>2 DEF StoreEnds
  <2>4. CASE cap' > 0 /\ ~(cap > 0)
    <3>1. cap' = valid'
      BY <1>0, <2>1, <2>4
    <3> QED BY <2>1, <2>2, <3>1 DEF StoreEnds
  <2> QED BY <2>3, <2>4 DEF StoreEnds
<1>3. CASE FmtErase \/ FmtMark \/ FmtMark2 \/ FmtErased \/ FmtTag
  <2>1. cap' = cap /\ pc \in Formatting
    BY <1>3 DEF FmtErase, FmtMark, FmtMark2, FmtErased, FmtTag, ghostVars, Formatting
  <2> QED BY <1>0, <2>1 DEF StoreEnds, Safe, FormatSafe
<1>4. CASE FmtTagged
  <2>1. UNCHANGED <<bad, tag>> /\ valid' = ValidOf(LutOf(bad, tag), valid) /\ cap' \in {0, valid'}
    BY <1>4 DEF FmtTagged, CreateLut, flashVars
  <2>2. valid' \in Block /\ Carriers(valid', bad, tag) = {}
    BY <1>0, <2>1, ValidFinds
  <2> QED BY <2>1, <2>2 DEF StoreEnds
<1>5. CASE PowerCut \/ UNCHANGED vars
  <2>1. UNCHANGED <<bad, tag, cap, adrift>> /\ (pc' = "off" \/ UNCHANGED <<pc, valid>>)
    BY <1>5 DEF PowerCut, vars, flashVars, ramVars, ghostVars
  <2> QED BY <2>1 DEF StoreEnds, Mounted, Formatting
<1>6. CASE Running
  <2> SUFFICES ASSUME cap' > 0
               PROVE  /\ cap' \in Block
                      /\ cap' \notin adrift' => Carriers(cap', bad', tag') = {}
                      /\ adrift' = {} => valid' = cap'
    BY DEF StoreEnds
  <2>1. Mounted /\ Mounted' /\ cap' = cap /\ adrift \subseteq adrift'
    BY <1>6, RunningStays
  <2>2. /\ cap \in Block /\ (cap \notin adrift => Carriers(cap, bad, tag) = {})
        /\ adrift = {} => valid = cap
    BY <2>1 DEF StoreEnds
  <2>3. ASSUME cap \notin adrift PROVE Carriers(cap, bad', tag') = {}
    <3>0. Carriers(cap, bad, tag) = {}
      BY <2>2, <2>3
    <3>1. CASE CopyPageStep
      BY <1>0, <2>2, <2>3, <3>0, <3>1, PageCarriers
    <3>2. CASE CopyMark \/ CopyMark2
      BY <2>2, <3>0, <3>2, MarkCarriers
    <3>3. CASE CopyErase
      BY <2>2, <3>0, <3>3, EraseCarriers
    <3>4. CASE RefreshBlank \/ RefreshZero \/ RefreshFill \/ RefreshErase \/ RefreshMark
               \/ RefreshMark2
      BY <2>2, <3>0, <3>4, RefreshCarriers
    <3>5. CASE ~(CopyPageStep \/ CopyMark \/ CopyMark2 \/ CopyErase \/ RefreshBlank
                   \/ RefreshZero \/ RefreshFill \/ RefreshErase \/ RefreshMark \/ RefreshMark2)
      <4>1. UNCHANGED <<tag, bad>>
        BY <1>6, <3>5, RunningKeepsTags
      <4> QED BY <3>0, <4>1
    <3> QED BY <3>1, <3>2, <3>3, <3>4, <3>5
  <2>4. valid' = valid \/ valid' = ValidOf(LutOf(bad', tag'), valid)
    BY <1>6, RunningKeepsTable
  <2>5. adrift' = {} => valid' = cap'
    <3> SUFFICES ASSUME adrift' = {} PROVE valid' = cap'
      OBVIOUS
    <3>1. adrift = {}
      BY <2>1
    <3>2. ValidOf(LutOf(bad', tag'), valid) = cap
      BY <1>0, <1>1, <2>1, <2>2, <2>3, <3>1, ValidIsCap
    <3> QED BY <2>1, <2>2, <2>4, <3>1, <3>2
  <2> QED BY <2>1, <2>2, <2>3, <2>5
<1> QED BY <1>2, <1>3, <1>4, <1>5, <1>6 DEF Next, Step, Running, Working

\* The block a request has found is one of the store.
LEMMA HereWithin ==
  ASSUME TypeOK, Sound, StoreEnds, FormatBlank, Mounted, adrift = {}, HereBlk # NoBlock
  PROVE  HereLbn < cap
<1>1. cap \in Block /\ Carriers(cap, bad, tag) = {} /\ valid = cap
  BY DEF StoreEnds, FormatBlank
<1>2. HereLbn \in Block /\ HereBlk = lut[HereLbn] /\ HereLbn <= valid
  BY HereLeads
<1>3. HereLbn # cap
  <2> SUFFICES ASSUME HereLbn = cap PROVE FALSE
    OBVIOUS
  <2>1. lut[cap] = NoBlock
    BY <1>1 DEF Sound, TableTrue
  <2> QED BY <1>2, <2>1
<1> QED BY <1>1, <1>2, <1>3, GeometryAssumption DEF Block

\* A chunk that ends with its block ends on it.
LEMMA ChunkWithin ==
  ASSUME TypeOK, NEW n \in Nat \ {0}, HereCell + n <= BlockSectors
  PROVE  Lbn(Here + n - 1) = HereLbn
<1>1. BlockSectors \in Nat \ {0} /\ Here \in Nat
  BY GeometryAssumption DEF BlockSectors, Here, TypeOK, JobTypeOK, Jobs
<1>2. HereLbn \in Nat /\ HereCell \in Nat /\ Here = BlockSectors * HereLbn + HereCell
  BY <1>1 DEF HereLbn, HereCell, Lbn, CellOf
<1> DEFINE q == BlockSectors * HereLbn
           x == Here + n - 1
<1>3. q \in Int
  BY <1>1, <1>2
<1>4. Here = q + HereCell
  BY <1>2
<1> HIDE DEF q
<1>5. x = q + (HereCell + n - 1) /\ HereCell + n - 1 \in 0 .. BlockSectors - 1 /\ x \in Nat
  BY <1>1, <1>2, <1>3, <1>4
<1> HIDE DEF x
<1>6. x \div BlockSectors = HereLbn
  BY <1>1, <1>2, <1>5, OnePlace DEF q
<1> QED BY <1>6 DEF Lbn, x

\* After a chunk the sectors behind the request lie within the store, if the chunk does.
LEMMA BehindWithin ==
  ASSUME TypeOK, NEW n \in Nat, HereCell + n <= BlockSectors, HereLbn < cap,
         job.i > 0 => Lbn(Here - 1) < cap, job'.sec = job.sec, job'.i = job.i + n, cap' = cap
  PROVE  job'.i > 0 => Lbn(Here' - 1) < cap'
<1>1. job.sec \in Nat /\ job.i \in Nat
  BY DEF TypeOK, JobTypeOK, Jobs
<1>2. Here' = Here + n /\ Here \in Nat
  BY <1>1 DEF Here
<1>3. CASE n = 0
  BY <1>1, <1>2, <1>3
<1>4. CASE n # 0
  BY <1>2, <1>4, ChunkWithin
<1> QED BY <1>3, <1>4

\* Where a request has come to, and what a write has behind it, is within the store.
LEMMA WithinNext ==
  ASSUME TypeOK, Sound, StoreInv, TypeOK', Sound', [Next]_vars
  PROVE  RequestWithin'
<1> SUFFICES ASSUME adrift' = {}
             PROVE  /\ job'.kind = "write" /\ job'.i > 0 => Lbn(Here' - 1) < cap'
                    /\ pc' \in {"wrUsed", "cpFind"} \cup Copying => HereLbn' < cap'
  BY DEF RequestWithin
<1>0. job \in Jobs /\ StoreEnds /\ FormatBlank /\ RequestWithin /\ AckedOK /\ CopyTrue
  BY DEF TypeOK, JobTypeOK, StoreInv, Sound
<1>1. CASE Working
  <2>1. /\ job'.kind = job.kind /\ job'.sec = job.sec
        /\ Mounted /\ cap' = cap /\ adrift = {}
    BY <1>1, JobGoesOn, RunningStays DEF Running
  <2>2. job.kind = "write" /\ job.i > 0 => Lbn(Here - 1) < cap
    BY <1>0, <2>1 DEF RequestWithin
  <2>3. HereBlk # NoBlock => HereLbn < cap
    BY <1>0, <2>1, HereWithin
  <2>4. HereCell + InPage <= BlockSectors /\ InPage \in Nat
    BY ChunkFits, HereTypes
  <2>5. CASE WriteInPlace \/ WriteMark \/ WriteMove \/ ReadRefresh
    <3>1. HereLbn < cap
      BY <1>0, <2>1, <2>3, <2>5
         DEF WriteInPlace, WriteMark, WriteMove, ReadRefresh, RequestWithin
    <3>2. \/ job'.i = job.i
          \/ job'.i = job.i + InPage /\ pc' = "write"
      BY <1>0, <2>5 DEF WriteInPlace, WriteMark, WriteMove, ReadRefresh, StartCopy, Advance, Jobs
    <3>3. CASE job'.i = job.i
      BY <2>1, <2>2, <3>1, <3>3 DEF Here, HereLbn
    <3>4. CASE job'.i = job.i + InPage /\ pc' = "write"
      BY <2>1, <2>2, <2>4, <3>1, <3>4, BehindWithin DEF Copying
    <3> QED BY <3>2, <3>3, <3>4
  <2>6. CASE CopyFind \/ CopyPageStep \/ CopyMark \/ CopyMark2 \/ CopyUsed
    <3>1. job' = job /\ pc \in {"cpFind"} \cup Copying
      BY <2>6 DEF CopyFind, CopyPageStep, CopyMark, CopyMark2, CopyUsed, Copying
    <3>2. HereLbn < cap
      BY <1>0, <2>1, <3>1 DEF RequestWithin
    <3> QED BY <2>1, <2>2, <3>1, <3>2 DEF Here, HereLbn
  <2>7. CASE CopyErase
    <3>1. /\ pc = "cpErase" /\ pc \in Copying /\ pc' \in {"write", "rfBlank"} /\ job.w \in Nat
          /\ job.kind = "write" => job'.i = job.i + job.w
      BY <1>0, <2>1, <2>7 DEF CopyErase, Advance, Copying, Jobs
    <3>2. HereLbn < cap /\ HereCell + job.w <= BlockSectors
      BY <1>0, <2>1, <3>1 DEF RequestWithin, CopyTrue
    <3>3. job'.kind = "write" /\ job'.i > 0 => Lbn(Here' - 1) < cap'
      BY <2>1, <2>2, <3>1, <3>2, BehindWithin
    <3> QED BY <3>1, <3>3 DEF Copying
  <2>8. CASE ReadPage \/ RefreshBlank \/ RefreshZero \/ RefreshFill \/ RefreshErase
             \/ RefreshMark \/ RefreshMark2
    <3>1. pc \in {"read"} \cup Refreshing
      BY <2>8 DEF ReadPage, RefreshBlank, RefreshZero, RefreshFill, RefreshErase, RefreshMark,
                  RefreshMark2, Refreshing
    <3>2. job.kind # "write"
      BY <1>0, <3>1 DEF AckedOK
    <3>3. pc' \in {"read"} \cup Refreshing
      BY <2>8 DEF ReadPage, RefreshBlank, RefreshZero, RefreshFill, RefreshErase, RefreshMark,
                  RefreshMark2, Refreshing
    <3> QED BY <2>1, <3>2, <3>3 DEF Copying, Refreshing
  <2> QED BY <1>1, <2>5, <2>6, <2>7, <2>8 DEF Working
<1>2. CASE Boot \/ FmtErase \/ FmtMark \/ FmtMark2 \/ FmtErased \/ FmtTag \/ FmtTagged
  <2>1. /\ job' = job /\ pc \in {"off"} \cup Formatting
        /\ pc' \in {"off", "ready"} \cup Formatting
    BY <1>2 DEF Boot, StartFormat, FmtErase, FmtMark, FmtMark2, FmtErased, FmtTag, FmtTagged,
                Formatting
  <2> QED BY <1>0, <2>1 DEF AckedOK, Copying, Formatting
<1>3. CASE WriteDone \/ Outside \/ ReadDone \/ PowerCut
  BY <1>3 DEF WriteDone, Outside, ReadDone, PowerCut, Return, Idle, Copying
<1>4. CASE CopyNoBlock
  BY <1>4 DEF CopyNoBlock, Return, Idle, Copying
<1>5. CASE Request
  <2>1. job'.i = 0
    <3>1. ASSUME NEW s \in Starts, NEW n \in 1 .. MaxLen, NEW d \in [1 .. n -> Datum],
                 BeginWrite(s, d)
          PROVE  job'.i = 0
      BY <3>1 DEF BeginWrite, Idle
    <3>2. ASSUME NEW s \in Starts, NEW n \in 1 .. MaxLen, BeginRead(s, n)
          PROVE  job'.i = 0
      BY <3>2 DEF BeginRead, Idle
    <3> QED BY <1>5, <3>1, <3>2 DEF Request
  <2> QED BY <1>5, <2>1, RequestEffect DEF Copying
<1>6. CASE BitError \/ UNCHANGED vars
  <2>1. UNCHANGED <<job, pc, cap, adrift>>
    BY <1>6 DEF BitError, vars, ghostVars
  <2> QED BY <1>0, <2>1 DEF RequestWithin, Here, HereLbn
<1> QED BY <1>1, <1>2, <1>3, <1>4, <1>5, <1>6 DEF Next, Step, Working

\* Every step keeps them, if a format does not change how many numbers a start wants.
LEMMA StoreInvNext ==
  ASSUME TypeOK, Sound, StoreInv, TypeOK', Sound', [Next]_vars,
         pc \in Formatting => Wanted' = Wanted
  PROVE  StoreInv'
BY BlankNext, EndsNext, WithinNext DEF StoreInv

\* What was torn or adrift is only forgotten by a format.
LEMMA HarmStays ==
  ASSUME TypeOK, Next
  PROVE  FmtErased \/ (torn \subseteq torn' /\ adrift \subseteq adrift')
<1>1. CASE Boot \/ FmtErase \/ FmtMark \/ FmtMark2 \/ FmtErased \/ FmtTagged
  BY <1>1 DEF Boot, StartFormat, FmtErase, FmtMark, FmtMark2, FmtTagged, ghostVars
<1>2. CASE FmtTag
  BY <1>2, TagEffect
<1>3. CASE Running
  <2>1. adrift \subseteq adrift'
    BY <1>3, RunningStays
  <2>2. CASE WriteDone \/ Outside \/ WriteInPlace \/ WriteMark \/ WriteMove \/ BitError
    BY <2>1, <2>2 DEF WriteDone, Outside, WriteInPlace, WriteMark, WriteMove, BitError, ghostVars
  <2>3. CASE CopyFind \/ CopyNoBlock \/ CopyPageStep \/ CopyMark \/ CopyMark2 \/ CopyUsed
             \/ CopyErase
    BY <2>1, <2>3 DEF CopyFind, CopyNoBlock, CopyPageStep, CopyMark, CopyMark2, CopyUsed,
                      CopyErase, ghostVars
  <2>4. CASE ReadDone \/ ReadPage \/ ReadRefresh \/ RefreshBlank \/ RefreshZero \/ RefreshFill
             \/ RefreshErase \/ RefreshMark \/ RefreshMark2
    BY <2>1, <2>4 DEF ReadDone, ReadPage, ReadRefresh, RefreshBlank, RefreshZero, RefreshFill,
                      RefreshErase, RefreshMark, RefreshMark2, ghostVars
  <2>5. CASE Request
    BY <2>5, RequestEffect
  <2> QED BY <1>3, <2>1, <2>2, <2>3, <2>4, <2>5 DEF Running, Working
<1>4. CASE PowerCut
  BY <1>4 DEF PowerCut, ghostVars
<1> QED BY <1>1, <1>2, <1>3, <1>4 DEF Next, Step, Running, Working

\* What a step of the layer does to what a read finds: nothing, but for two steps of a write.
LEMMA EveryLands ==
  ASSUME TypeOK, Sound, Intact, FormatBlank, TypeOK', Sound', Intact', [Next]_vars,
         cap > 0 => Wanted <= cap, NEW s \in Sector
  PROVE  /\ Lands(s)
         /\ ~(WriteInPlace \/ CopyErase) => At(s)' = At(s)
<1>1. CASE Boot
  BY <1>1, AtBoot DEF Lands
<1>2. CASE FmtErase \/ FmtMark \/ FmtMark2 \/ FmtErased \/ FmtTag \/ FmtTagged
  BY <1>2, AtFormat DEF Lands
<1>3. CASE \/ Request \/ WriteDone \/ Outside \/ ReadDone \/ ReadPage \/ BitError
           \/ WriteMark \/ WriteMove \/ ReadRefresh \/ CopyFind \/ CopyNoBlock \/ CopyUsed
  BY <1>3, AtRequest DEF Lands
<1>4. CASE \/ CopyPageStep \/ CopyMark \/ CopyMark2
           \/ RefreshBlank \/ RefreshZero \/ RefreshFill \/ RefreshErase
           \/ RefreshMark \/ RefreshMark2
  BY <1>4, AtElsewhere DEF Lands
<1>5. CASE PowerCut
  BY <1>5, AtCut DEF Lands
<1>6. CASE WriteInPlace
  BY <1>6, AtInPlace
<1>7. CASE CopyErase
  BY <1>7, AtErase
<1>8. CASE UNCHANGED vars
  <2>1. UNCHANGED <<main, lut, bad, tag, cap, pc>>
    BY <1>8 DEF vars, flashVars, ramVars, ghostVars
  <2>2. Table' = Table
    BY <2>1 DEF Table, Mounted, Formatting
  <2> QED BY <2>1, <2>2 DEF At, Lands
<1> QED BY <1>1, <1>2, <1>3, <1>4, <1>5, <1>6, <1>7, <1>8 DEF Next, Step

\* The contents are data a caller wrote, or blank.
Pure == \A s \in Sector : At(s) \in {Blank} \cup Datum

LEMMA PureNext ==
  ASSUME TypeOK, Sound, FormatBlank, Intact => Pure, TypeOK', Sound', Intact', [Next]_vars,
         cap > 0 => Wanted <= cap
  PROVE  Pure'
<1> SUFFICES ASSUME NEW s \in Sector PROVE At(s)' \in {Blank} \cup Datum
  BY DEF Pure
<1>1. CASE ~Intact
  <2>1. FmtErased
    <3>1. UNCHANGED vars => Intact = Intact'
      BY DEF vars, ghostVars, Intact
    <3> QED BY <1>1, <3>1, HarmStays DEF Intact
  <2> QED BY <2>1, AtFormat
<1>2. CASE Intact
  <2>1. At(s) \in {Blank} \cup Datum /\ Lands(s)
    BY <1>2, EveryLands DEF Pure
  <2>2. ASSUME job.kind = "write", s - job.sec \in 0 .. job.len - 1
        PROVE  job.data[s - job.sec + 1] \in Datum
    <3>1. job.data \in Seq(Datum) /\ Len(job.data) = job.len /\ job.len \in Nat
      BY <2>2 DEF TypeOK, JobTypeOK, Jobs
    <3>2. s - job.sec + 1 \in 1 .. Len(job.data)
      BY <2>2, <3>1
    <3> QED BY <3>1, <3>2
  <2> QED BY <2>1, <2>2 DEF Lands
<1> QED BY <1>1, <1>2

\* The write in progress, as module SectorStore sees it.
pendingWrite == IF job.kind = "write" THEN <<job.sec, job.data>> ELSE << >>

\* The steps of module SectorStore, in the words of this one.
LEMMA StoreStutters ==
  ASSUME \A s \in Sector : At(s)' = At(s), pendingWrite' = pendingWrite, job'.ret = job.ret
  PROVE  UNCHANGED Store!vars
<1>1. Contents' = Contents
  BY ContentsAt
<1> QED BY <1>1 DEF Store!vars, pendingWrite

LEMMA StoreLands ==
  ASSUME \A s \in Sector : Lands(s), Pure', job.kind = "write", job.sec \in Nat, job.len \in Nat,
         Len(job.data) = job.len, pendingWrite' = pendingWrite, job'.ret = job.ret
  PROVE  Store!Land
<1>1. /\ Contents = [s \in Sector |-> At(s)]
      /\ Contents' = [s \in Sector |-> At(s)']
  BY ContentsAt
<1>2. Contents' \in [Sector -> {Blank} \cup Datum]
  BY <1>1 DEF Pure
<1>3. ASSUME NEW s \in Sector
      PROVE  \/ Contents'[s] = Contents[s]
             \/ /\ s \in job.sec .. job.sec + Len(job.data) - 1
                /\ Contents'[s] = job.data[s - job.sec + 1]
  <2>1. s \in Nat
    BY SectorBlock
  <2>2. s - job.sec \in 0 .. job.len - 1 => s \in job.sec .. job.sec + Len(job.data) - 1
    BY <2>1
  <2> QED BY <1>1, <2>2 DEF Lands
<1>4. pendingWrite = <<job.sec, job.data>> /\ pendingWrite # << >>
  BY DEF pendingWrite
<1> QED BY <1>2, <1>3, <1>4 DEF Store!Land, Store!Target, Store!Data, pendingWrite

LEMMA StoreAcknowledges ==
  ASSUME \A s \in Sector : At(s)' = At(s), job.kind = "write", job'.kind = "none", job'.ret = "ok",
         \A s \in job.sec .. job.sec + Len(job.data) - 1 :
           s \in Sector /\ At(s) = job.data[s - job.sec + 1]
  PROVE  Store!Acknowledge
<1>1. Contents' = Contents /\ Contents = [s \in Sector |-> At(s)]
  BY ContentsAt
<1>2. pendingWrite = <<job.sec, job.data>> /\ pendingWrite # << >>
  BY DEF pendingWrite
<1> QED BY <1>1, <1>2 DEF Store!Acknowledge, Store!Target, Store!Data, pendingWrite

\* A request that ends without having written all, or anything: it failed, or only read.
LEMMA StoreEndsOtherwise ==
  ASSUME \A s \in Sector : At(s)' = At(s), job'.kind # "write",
         \/ job'.ret \in {"error", "none"}
         \/ job'.ret = "ok" /\ job.kind # "write"
  PROVE  Store!Fail \/ Store!Other
<1>1. Contents' = Contents
  BY ContentsAt
<1>2. CASE job.kind = "write"
  <2>1. pendingWrite = <<job.sec, job.data>> /\ pendingWrite # << >>
    BY <1>2 DEF pendingWrite
  <2> QED BY <1>1, <1>2, <2>1 DEF Store!Fail, pendingWrite
<1>3. CASE job.kind # "write"
  BY <1>1, <1>3 DEF Store!Other
<1> QED BY <1>2, <1>3

\* What lies before a sector of the store is of the store.
LEMMA LbnWithin ==
  ASSUME NEW x \in Nat, NEW y \in Nat, x <= y, NEW c \in 0 .. Blocks, Lbn(y) < c
  PROVE  x \in Sector /\ Lbn(x) < c
<1>1. BlockSectors \in Nat \ {0} /\ Blocks \in Nat /\ c \in Nat /\ c <= Blocks
  BY GeometryAssumption DEF BlockSectors
<1>2. /\ Lbn(y) \in Nat /\ y < BlockSectors * Lbn(y) + BlockSectors
      /\ Lbn(x) \in Nat /\ BlockSectors * Lbn(x) <= x
  BY <1>1 DEF Lbn
<1>3. Lbn(y) + 1 <= Blocks
  BY <1>1, <1>2
<1>4. BlockSectors * (Lbn(y) + 1) <= BlockSectors * Blocks
  BY <1>1, <1>2, <1>3, ProductGrows
<1>5. BlockSectors * (Lbn(y) + 1) = BlockSectors * Lbn(y) + BlockSectors
  BY <1>1, <1>2
<1>6. x \in Sector
  <2>1. x < BlockSectors * Blocks
    <3> DEFINE q == BlockSectors * Lbn(y)
               r == BlockSectors * Blocks
    <3>1. q \in Int /\ r \in Int
      BY <1>1, <1>2
    <3>2. y < q + BlockSectors /\ q + BlockSectors <= r
      BY <1>2, <1>4, <1>5
    <3> HIDE DEF q, r
    <3>3. x < r
      BY <1>1, <3>1, <3>2
    <3> QED BY <3>3 DEF r
  <2> QED BY <1>1, <2>1 DEF Sector
<1>7. Lbn(x) < c
  <2> SUFFICES ASSUME c <= Lbn(x) PROVE FALSE
    BY <1>1, <1>2
  <2>1. Lbn(y) + 1 <= Lbn(x)
    BY <1>1, <1>2
  <2>2. BlockSectors * (Lbn(y) + 1) <= BlockSectors * Lbn(x)
    BY <1>1, <1>2, <2>1, ProductGrows
  <2> DEFINE q == BlockSectors * Lbn(y)
             r == BlockSectors * Lbn(x)
  <2>3. q \in Int /\ r \in Int
    BY <1>1, <1>2
  <2>4. y < q + BlockSectors /\ q + BlockSectors <= r /\ r <= x
    BY <1>2, <1>5, <2>2
  <2> HIDE DEF q, r
  <2> QED BY <1>1, <2>3, <2>4
<1> QED BY <1>6, <1>7

\* A write about to be acknowledged lies within the store, and has put its data there.
LEMMA DoneWithin ==
  ASSUME TypeOK, Sound, StoreInv, Intact, pc = "write", job.i >= job.len,
         NEW s \in job.sec .. job.sec + Len(job.data) - 1
  PROVE  /\ s \in Sector /\ At(s) = job.data[s - job.sec + 1] /\ At(s) = Stored(s)
         /\ Len(job.data) = job.len /\ job.sec \in Nat /\ job.len \in Nat
<1>1. /\ job.kind = "write" /\ pc = "write" /\ job.sec \in Nat /\ job.i \in Nat /\ job.len \in Nat
      /\ job.i = job.len /\ Len(job.data) = job.len /\ job.data \in Seq(Datum)
  BY DEF TypeOK, JobTypeOK, ControlOK, Jobs
<1>2. /\ Mounted /\ pc \notin Copying /\ adrift = {} /\ torn = {}
      /\ AckedOK /\ Held /\ RequestWithin /\ cap \in 0 .. Blocks
  BY <1>1 DEF Mounted, Formatting, Copying, Intact, Sound, StoreInv, TypeOK, RamTypeOK
<1>3. /\ s \in Nat /\ s - job.sec \in 0 .. job.i - 1 /\ s <= Here - 1 /\ Here - 1 \in Nat
      /\ job.i > 0 /\ s - job.sec + 1 \in 1 .. Len(job.data)
  <2>1. s \in job.sec .. job.sec + job.len - 1
    BY <1>1
  <2>2. s \in Nat /\ s - job.sec \in 0 .. job.len - 1
    BY <1>1, <2>1
  <2>3. Here = job.sec + job.len /\ job.i - 1 = job.len - 1 /\ job.len > 0
    BY <1>1, <2>1 DEF Here
  <2>4. s <= Here - 1 /\ Here - 1 \in Nat
    BY <1>1, <2>1, <2>3
  <2>5. job.i > 0 /\ s - job.sec \in 0 .. job.i - 1
    BY <1>1, <2>2, <2>3
  <2>6. s - job.sec + 1 \in 1 .. Len(job.data)
    BY <1>1, <2>2
  <2> QED BY <2>2, <2>4, <2>5, <2>6
<1>4. s \in Sector /\ Lbn(s) < cap
  <2>1. Lbn(Here - 1) < cap
    BY <1>1, <1>2, <1>3 DEF RequestWithin
  <2> QED BY <1>2, <1>3, <2>1, LbnWithin
<1>5. Due(s) = job.data[s - job.sec + 1] /\ Due(s) # NoPromise
  <2>1. Due(s) = job.data[s - job.sec + 1]
    BY <1>1, <1>3 DEF Due
  <2>2. job.data[s - job.sec + 1] \in Datum
    BY <1>1, <1>3
  <2> QED BY <2>1, <2>2, ConfigAssumption DEF Val
<1>6. Lbn(s) \in Kept
  BY <1>2, <1>4, SectorBlock DEF Kept
<1>7. main[lut[Lbn(s)]][CellOf(s)] = Due(s)
  BY <1>2, <1>4, <1>5, <1>6 DEF Held
<1> QED BY <1>1, <1>2, <1>4, <1>5, <1>7 DEF At, Table, Stored

\* The steps that work on a request leave it as the array sees it.
LEMMA JobSeen ==
  ASSUME TypeOK, Working
  PROVE  pendingWrite' = pendingWrite /\ job'.ret = job.ret
<1>1. job \in Jobs
  BY DEF TypeOK, JobTypeOK
<1>2. pendingWrite' = pendingWrite
  BY JobGoesOn DEF pendingWrite
<1>3. CASE WriteInPlace \/ WriteMark \/ WriteMove \/ ReadRefresh
  BY <1>1, <1>2, <1>3 DEF WriteInPlace, WriteMark, WriteMove, ReadRefresh, StartCopy, Advance, Jobs
<1>4. CASE ReadPage \/ CopyErase \/ RefreshErase \/ RefreshMark2
  BY <1>1, <1>2, <1>4 DEF ReadPage, CopyErase, RefreshErase, RefreshMark2, Advance, Jobs
<1>5. CASE CopyFind \/ CopyPageStep \/ CopyMark \/ CopyMark2 \/ CopyUsed \/ RefreshBlank
           \/ RefreshZero \/ RefreshFill \/ RefreshMark
  BY <1>2, <1>5 DEF CopyFind, CopyPageStep, CopyMark, CopyMark2, CopyUsed, RefreshBlank,
                    RefreshZero, RefreshFill, RefreshMark
<1> QED BY <1>3, <1>4, <1>5 DEF Working

\* Every step of the layer is one of the array's, or cannot be seen.
LEMMA StoreNext ==
  ASSUME TypeOK, Sound, StoreInv, Intact, TypeOK', Sound', Intact', Pure', [Next]_vars,
         cap > 0 => Wanted <= cap
  PROVE  Store!Next \/ UNCHANGED Store!vars
<1>0. /\ job \in Jobs /\ AckedOK /\ FormatBlank
      /\ \A s \in Sector : /\ Lands(s)
                           /\ ~(WriteInPlace \/ CopyErase) => At(s)' = At(s)
  <2>1. FormatBlank
    BY DEF StoreInv
  <2> QED BY <2>1, EveryLands DEF TypeOK, JobTypeOK, Sound
<1>1. CASE Working /\ job.kind = "write" /\ (WriteInPlace \/ CopyErase)
  <2>1. job.sec \in Nat /\ job.len \in Nat /\ Len(job.data) = job.len
    BY <1>0, <1>1 DEF TypeOK, JobTypeOK, Jobs
  <2> QED BY <1>0, <1>1, <2>1, JobSeen, StoreLands DEF Store!Next
<1>2. CASE Working /\ ~(job.kind = "write" /\ (WriteInPlace \/ CopyErase))
  <2>1. \A s \in Sector : At(s)' = At(s)
    BY <1>0, <1>2 DEF Lands
  <2> QED BY <1>2, <2>1, JobSeen, StoreStutters
<1>3. CASE Boot \/ FmtErase \/ FmtMark \/ FmtMark2 \/ FmtErased \/ FmtTag \/ FmtTagged
           \/ BitError \/ UNCHANGED vars
  <2>1. job' = job
    BY <1>3 DEF Boot, FmtErase, FmtMark, FmtMark2, FmtErased, FmtTag, FmtTagged, BitError, vars
  <2>2. ~(WriteInPlace \/ CopyErase) \/ UNCHANGED vars
    BY <1>3 DEF Boot, FmtErase, FmtMark, FmtMark2, FmtErased, FmtTag, FmtTagged, BitError,
                WriteInPlace, CopyErase
  <2>3. UNCHANGED vars => \A s \in Sector : At(s)' = At(s)
    <3> SUFFICES ASSUME UNCHANGED vars PROVE \A s \in Sector : At(s)' = At(s)
      OBVIOUS
    <3>1. UNCHANGED <<main, lut, bad, tag, cap, pc>>
      BY DEF vars, flashVars, ramVars, ghostVars
    <3>2. Table' = Table
      BY <3>1 DEF Table, Mounted, Formatting
    <3> QED BY <3>1, <3>2 DEF At
  <2> QED BY <1>0, <2>1, <2>2, <2>3, StoreStutters DEF pendingWrite
<1>4. CASE WriteDone
  <2>1. /\ job.kind = "write" /\ job'.kind = "none" /\ job'.ret = "ok"
    BY <1>4 DEF WriteDone, Return, Idle, TypeOK, ControlOK
  <2>2. \A s \in Sector : At(s)' = At(s)
    BY <1>4, AtRequest
  <2>3. \A s \in job.sec .. job.sec + Len(job.data) - 1 :
          s \in Sector /\ At(s) = job.data[s - job.sec + 1]
    BY <1>4, DoneWithin DEF WriteDone
  <2> QED BY <2>1, <2>2, <2>3, StoreAcknowledges DEF Store!Next
<1>5. CASE Outside \/ ReadDone \/ PowerCut \/ CopyNoBlock
  <2>1. CopyNoBlock => job.kind = "write"
    <3>1. CopyNoBlock /\ job.kind # "write" => adrift' = adrift \cup {HereLbn, tag[cp.src]}
      BY DEF CopyNoBlock
    <3>2. adrift' = {}
      BY DEF Intact
    <3> QED BY <3>1, <3>2
  <2>2. /\ job'.kind = "none"
        /\ job'.ret \in {"error", "none"} \/ (job'.ret = "ok" /\ job.kind # "write")
    BY <1>0, <1>5, <2>1 DEF Outside, ReadDone, PowerCut, CopyNoBlock, Return, Idle, AckedOK
  <2>3. ~(WriteInPlace \/ CopyErase) \/ \A s \in Sector : At(s)' = At(s)
    <3>1. CASE PowerCut
      BY <3>1, AtCut
    <3>2. CASE Outside \/ ReadDone \/ CopyNoBlock
      BY <3>2, AtRequest
    <3> QED BY <1>5, <3>1, <3>2
  <2> QED BY <1>0, <2>2, <2>3, StoreEndsOtherwise DEF Store!Next
<1>6. CASE Request
  <2>1. \A s \in Sector : At(s)' = At(s)
    BY <1>6, AtRequest
  <2>2. job.kind # "write"
    BY <1>0, <1>6, RequestEffect DEF AckedOK
  <2>3. ASSUME NEW s \in Starts, NEW n \in 1 .. MaxLen, NEW d \in [1 .. n -> Datum],
               BeginWrite(s, d)
        PROVE  Store!BeginWrite
    <3>1. /\ job'.kind = "write" /\ job'.sec = s /\ job'.data = d /\ job'.ret = "none"
      BY <2>3 DEF BeginWrite, Idle
    <3>2. s \in Nat /\ Contents' = Contents
      BY <2>1, ContentsAt, ConfigAssumption
    <3>3. <<s, d>> \in Nat \X UNION {[1 .. m -> Datum] : m \in 1 .. MaxLen}
      BY <3>2
    <3> QED BY <2>2, <3>1, <3>2, <3>3 DEF Store!BeginWrite
  <2>4. ASSUME NEW s \in Starts, NEW n \in 1 .. MaxLen, BeginRead(s, n)
        PROVE  Store!Other
    <3>1. job'.kind = "read" /\ job'.ret = "none"
      BY <2>4 DEF BeginRead, Idle
    <3>2. Contents' = Contents
      BY <2>1, ContentsAt
    <3> QED BY <2>2, <3>1, <3>2 DEF Store!Other
  <2> QED BY <1>6, <2>3, <2>4 DEF Request, Store!Next
<1> QED BY <1>1, <1>2, <1>3, <1>4, <1>5, <1>6 DEF Next, Step, Working

\* Without a start-up check of its own a start wants MinBlocks numbers.
LEMMA WantsMin ==
  ASSUME CheckPercent = 0
  PROVE  Wanted = MinBlocks /\ Wanted' = MinBlocks
<1>1. ASSUME NEW A \in SUBSET Block
      PROVE  (Cardinality(A) * CheckPercent) \div 100 = 0
  BY <1>1, CountBlocks, GeometryAssumption
<1>2. (Cardinality(Block \ Bad) * CheckPercent) \div 100 = 0
  BY <1>1
<1>3. (Cardinality(Block \ Bad') * CheckPercent) \div 100 = 0
  BY <1>1
<1> QED BY <1>2, <1>3, ConfigAssumption DEF Wanted

\* A chip fresh from the factory is a blank array.
LEMMA StoreInit == Init => Store!Init /\ StoreInv /\ Intact /\ Pure
<1> SUFFICES ASSUME Init PROVE Store!Init /\ StoreInv /\ Intact /\ Pure
  OBVIOUS
<1>1. /\ pc = "off" /\ job = Idle /\ cap = 0 /\ torn = {} /\ adrift = {}
      /\ main = [b \in Block |-> Erased]
  BY DEF Init
<1>2. \A s \in Sector : At(s) = Blank
  BY <1>1, AtNothing
<1>3. Contents = [s \in Sector |-> Blank] /\ job.kind = "none" /\ job.ret = "none"
  BY <1>1, <1>2, ContentsAt DEF Idle
<1>4. FormatBlank /\ StoreEnds /\ RequestWithin
  <2>1. Clean
    BY <1>1 DEF Clean
  <2> QED BY <1>1, <1>3, <2>1 DEF FormatBlank, StoreEnds, RequestWithin, Mounted, Formatting, Copying
<1> QED BY <1>1, <1>2, <1>3, <1>4 DEF Store!Init, StoreInv, Intact, Pure

\* The layer behaves as an array of sectors, whatever commands time out, the bad-block marks
\* included, and wherever the power is cut, from a step without harm to a step without harm:
\* while no logical block is torn (a move or a format that went wrong in one of the ways
\* FmtErased, FmtTag, CopyFind, CopyPageStep, CopyMark2, CopyErase and PowerCut note) and none
\* is adrift (refreshed when no block was unused, or moved to a block whose second page alone
\* is marked), every step is one of the array's or cannot be seen.  It is about ftl_init's own
\* test: the start-up check of 54_usb_device_msc is left out.
THEOREM StoreSteps ==
  ASSUME CheckPercent = 0
  PROVE  Spec => StoreStep
<1> DEFINE I == TypeOK /\ Sound /\ StoreInv /\ (Intact => Pure)
<1>1. Init => StoreInv /\ (Intact => Pure)
  BY StoreInit
<1>2. TypeOK /\ Sound => (pc \in Formatting => Wanted' = Wanted) /\ (cap > 0 => Wanted <= cap)
  <2> SUFFICES ASSUME TypeOK, Sound
               PROVE  Wanted' = Wanted /\ (cap > 0 => Wanted <= cap)
    OBVIOUS
  <2>1. Wanted = MinBlocks /\ Wanted' = MinBlocks
    BY WantsMin
  <2>2. cap = 0 \/ cap >= MinBlocks
    BY DEF Sound, Safe, FormatSafe
  <2> QED BY <2>1, <2>2, ConfigAssumption DEF TypeOK, RamTypeOK
<1>3. I /\ TypeOK' /\ Sound' /\ [Next]_vars =>
        /\ StoreInv' /\ (Intact => Pure)'
        /\ Intact /\ Intact' => (Store!Next \/ UNCHANGED Store!vars)
  <2> SUFFICES ASSUME I, TypeOK', Sound', [Next]_vars
               PROVE  /\ StoreInv' /\ (Intact' => Pure')
                      /\ Intact /\ Intact' => (Store!Next \/ UNCHANGED Store!vars)
    OBVIOUS
  <2>1. (pc \in Formatting => Wanted' = Wanted) /\ (cap > 0 => Wanted <= cap)
    BY <1>2
  <2>2. StoreInv'
    BY <2>1, StoreInvNext
  <2>3. Intact' => Pure'
    BY <2>1, PureNext DEF StoreInv
  <2> QED BY <2>1, <2>2, <2>3, StoreNext
<1> QED BY <1>1, <1>3, TypeCorrect, SoundAlways, PTL DEF Spec, StoreStep

-----------------------------------------------------------------------------
(***************************************************************************)
(* Sixth part.  The layer implements an array of sectors (SectorStore) as  *)
(* long as nothing harms a move.                                           *)
(*                                                                         *)
(* That is so when no command times out (so that no mark is made), the     *)
(* power is not cut while a block is moved or while the refreshed one is   *)
(* erased and zeroed, the start-up check asks for no more than a format    *)
(* gives, the format leaves a good block unused in each plane              *)
(* (Undisturbed), and the manufacturer marked no block on its second page  *)
(* alone (FirstPageMarked).  Unharmed says why nothing is torn or adrift   *)
(* then.                                                                   *)
(***************************************************************************)
NoFaults    == Faults = {}
FirstPageMarked == FactoryBad1 \subseteq FactoryBad0
CutsBetween == CutWhen \cap (Copying \cup {"rfZero", "rfFill", "rfErase"}) = {}
CheckHolds  == CheckPercent <= FormatPercent
SpareBlocks ==
  \A plane \in {0, 1} : \E b \in Block \ FactoryBad : b % 2 = plane /\ GoodBelow(b) >= Quota
Undisturbed == NoFaults /\ CutsBetween /\ CheckHolds /\ SpareBlocks

\* Every command is carried out, and returns success.
LEMMA AllOk ==
  ASSUME NoFaults, NEW kind, NEW o \in Ends(kind)
  PROVE  o.ok /\ o.done
<1>1. o = [ok |-> TRUE, done |-> TRUE]
  BY DEF NoFaults, Ends, Outcomes
<1> QED BY <1>1

\* The good blocks below the next are those below this one, and this one if it is good.
LEMMA GoodStep ==
  /\ GoodBelow(0) = 0
  /\ \A i \in Block : GoodBelow(i + 1) = IF i \in FactoryBad THEN GoodBelow(i) ELSE GoodBelow(i) + 1
  /\ \A i : GoodBelow(i) \in 0 .. Blocks
<1> DEFINE B(i) == {b \in Block \ FactoryBad : b < i}
<1>1. IsFiniteSet(Block)
  BY FS_Interval, GeometryAssumption DEF Block
<1>2. \A i : B(i) \in SUBSET Block /\ IsFiniteSet(B(i))
  BY <1>1, FS_Subset
<1>3. B(0) = {}
  BY GeometryAssumption DEF Block
<1>4. ASSUME NEW i \in Block
      PROVE  Cardinality(B(i + 1)) = IF i \in FactoryBad THEN Cardinality(B(i)) ELSE Cardinality(B(i)) + 1
  <2>1. i \notin B(i)
    BY GeometryAssumption DEF Block
  <2>2. CASE i \in FactoryBad
    <3>1. B(i + 1) = B(i)
      BY <2>2, GeometryAssumption DEF Block
    <3> QED BY <2>2, <3>1
  <2>3. CASE i \notin FactoryBad
    <3>1. B(i + 1) = B(i) \cup {i}
      BY <2>3, GeometryAssumption DEF Block
    <3> HIDE DEF B
    <3>2. Cardinality(B(i) \cup {i}) = Cardinality(B(i)) + 1
      BY <1>2, <2>1, FS_AddElement
    <3> QED BY <2>3, <3>1, <3>2
  <2> QED BY <2>2, <2>3
<1>5. \A i : GoodBelow(i) = Cardinality(B(i))
  BY DEF GoodBelow
<1> HIDE DEF B
<1> QED BY <1>2, <1>3, <1>4, <1>5, CountBlocks, FS_EmptySet

\* A format gives out fewer numbers than there are good blocks, and than there are blocks,
\* and as many as the start-up check wants.
LEMMA QuotaFits ==
  /\ Quota \in 0 .. Blocks - 1 /\ Quota <= GoodBelow(Blocks)
  /\ CheckHolds => (GoodBelow(Blocks) * CheckPercent) \div 100 <= Quota
<1> DEFINE g == GoodBelow(Blocks)
<1>1. /\ g \in 0 .. Blocks /\ g \in Nat /\ FormatPercent \in Nat /\ FormatPercent <= 99
      /\ CheckPercent \in Nat
  BY GoodStep, GeometryAssumption, ConfigAssumption
<1> HIDE DEF g
<1>2. (g * FormatPercent) \div 100 \in 0 .. Blocks - 1
  BY <1>1, FewerThanBlocks
<1>3. (g * FormatPercent) \div 100 <= g
  <2>1. g * FormatPercent <= g * 99 /\ g * FormatPercent \in Nat
    BY <1>1
  <2> DEFINE k == g * FormatPercent
  <2>2. k \in Nat /\ k <= 100 * g
    BY <1>1, <2>1
  <2> HIDE DEF k
  <2>3. k \div 100 <= g
    BY <1>1, <2>2
  <2> QED BY <2>3 DEF k
<1>4. ASSUME CheckHolds PROVE (g * CheckPercent) \div 100 <= (g * FormatPercent) \div 100
  <2> DEFINE j == g * CheckPercent
             k == g * FormatPercent
  <2>1. j \in Nat /\ k \in Nat /\ j <= k
    BY <1>1, <1>4, ProductGrows DEF CheckHolds
  <2> HIDE DEF j, k
  <2>2. j \div 100 <= k \div 100
    BY <2>1
  <2> QED BY <2>2 DEF j, k
<1> QED BY <1>2, <1>3, <1>4 DEF Quota, g

\* The blocks that are marked are the manufacturer's.
LEMMA MarksKnown ==
  ASSUME FirstPageMarked, NoneMarked
  PROVE  /\ bad[0] = FactoryBad /\ Bad = FactoryBad
         /\ bad = [p \in {0, 1} |-> bad[p]]
BY DEF FirstPageMarked, NoneMarked, FactoryBad, Bad

\* Erasing a good block changes no mark.
LEMMA EraseMarks ==
  ASSUME FirstPageMarked, NoneMarked, NEW b \in Block, b \notin FactoryBad, Erase(b)
  PROVE  bad' = bad
<1>1. b \notin bad[0] /\ b \notin bad[1] /\ bad = [p \in {0, 1} |-> bad[p]]
  BY MarksKnown DEF Bad
<1>2. \A p \in {0, 1} : bad[p] \ {b} = bad[p]
  BY <1>1
<1> QED BY <1>1, <1>2 DEF Erase

\* A format gives a start what it wants.
LEMMA QuotaWanted ==
  ASSUME FirstPageMarked, CheckHolds, NoneMarked, NEW v \in Nat, v >= MinBlocks, v >= Quota
  PROVE  v >= Wanted
<1>1. Cardinality(Block \ Bad) = GoodBelow(Blocks)
  <2>1. {b \in Block \ FactoryBad : b < Blocks} = Block \ FactoryBad
    BY GeometryAssumption DEF Block
  <2> QED BY <2>1, MarksKnown DEF GoodBelow
<1>2. (GoodBelow(Blocks) * CheckPercent) \div 100 <= Quota /\ Quota \in Nat
  BY QuotaFits
<1>3. (GoodBelow(Blocks) * CheckPercent) \div 100 \in Int
  <2>1. GoodBelow(Blocks) \in Nat /\ CheckPercent \in Nat
    BY GoodStep, ConfigAssumption
  <2>2. GoodBelow(Blocks) * CheckPercent \in Nat
    BY <2>1
  <2> QED BY <2>2
<1>4. MinBlocks \in Nat
  BY ConfigAssumption
<1> DEFINE p == (GoodBelow(Blocks) * CheckPercent) \div 100
<1>5. Wanted = IF p <= MinBlocks THEN MinBlocks ELSE p
  BY <1>1 DEF Wanted
<1>6. p \in Int /\ p <= Quota /\ Quota \in Nat
  BY <1>2, <1>3
<1> HIDE DEF p
<1> QED BY <1>4, <1>5, <1>6

\* A block that is moved carries a number of the store.
LEMMA SourceKnown ==
  ASSUME TypeOK, Sound, StoreInv, Intact, pc \in {"cpFind"} \cup Copying
  PROVE  /\ cp.src \in Block /\ cp.src \notin bad[0] /\ tag[cp.src] = HereLbn
         /\ HereLbn \in Block /\ HereLbn < cap /\ tag[cp.src] # NoTag /\ cap > 0
<1>1. Safe /\ OwnTag /\ RequestWithin /\ adrift = {} /\ FormatBlank
  BY DEF Sound, StoreInv, Intact
<1>2. HereLbn < cap /\ tag[cp.src] = HereLbn /\ cap > 0
  <2>1. HereLbn < cap
    BY <1>1 DEF RequestWithin
  <2>2. Mounted
    BY DEF Mounted, Formatting, Copying
  <2> QED BY <1>1, <2>1, <2>2 DEF OwnTag, FormatBlank
<1>3. HereLbn \in Nat /\ cap \in 0 .. Blocks /\ cp.src \in Block
  <2>1. Here \in Nat /\ BlockSectors \in Nat \ {0}
    BY GeometryAssumption DEF TypeOK, JobTypeOK, Jobs, Here, BlockSectors
  <2> QED BY <2>1 DEF TypeOK, RamTypeOK, ControlOK, HereLbn, Lbn
<1>4. HereLbn \in Block /\ HereLbn # NoTag
  BY <1>2, <1>3, GeometryAssumption DEF Block, NoTag
<1> QED BY <1>1, <1>2, <1>3, <1>4 DEF Safe, MoveSafe, Forsaken, Bad

\* So does the block a request works on.
LEMMA HereKnown ==
  ASSUME TypeOK, Sound, Intact, Mounted, HereBlk # NoBlock
  PROVE  HereBlk \in Block /\ tag[HereBlk] # NoTag
<1>1. HereBlk \in Block /\ HereLbn \in Block /\ HereBlk = lut[HereLbn]
  BY HereTypes, HereLeads
<1>2. TableTrue /\ adrift = {}
  BY DEF Sound, Intact
<1>3. tag[HereBlk] = HereLbn
  BY <1>1, <1>2, EntryIsCarrier
<1> QED BY <1>1, <1>3, GeometryAssumption DEF Block, NoTag

\* A move finds an unused block, and nothing is marked.
LEMMA NoneFails ==
  ASSUME Undisturbed, TypeOK, Sound, StoreInv, Unharmed
  PROVE  ~CopyNoBlock /\ ~(\/ FmtMark \/ FmtMark2 \/ CopyMark \/ CopyMark2
                            \/ RefreshMark \/ RefreshMark2)
<1>1. ~(FmtMark \/ FmtMark2 \/ CopyMark \/ CopyMark2 \/ RefreshMark \/ RefreshMark2)
  BY DEF FmtMark, FmtMark2, CopyMark, CopyMark2, RefreshMark, RefreshMark2, Unharmed, NoneMarked
<1>2. ~CopyNoBlock
  <2> SUFFICES ASSUME CopyNoBlock PROVE FALSE
    OBVIOUS
  <2>1. pc = "cpFind" /\ SamePlaneUnused(cp.src) = NoBlock /\ pc \notin Copying
    BY DEF CopyNoBlock, Copying
  <2>2. cp.src \in Block /\ cap > 0
    BY <2>1, SourceKnown DEF Unharmed
  <2>3. cp.src % 2 \in {0, 1}
    BY <2>2, GeometryAssumption DEF Block
  <2>4. \E b \in Block : b % 2 = cp.src % 2 /\ Unused(b)
    BY <2>1, <2>2, <2>3 DEF Unharmed, SpareKept
  <2> QED BY <2>1, <2>2, <2>4, SamePlaneResult DEF TypeOK, RamTypeOK
<1> QED BY <1>1, <1>2

\* The first pass of a format erases what is good.
LEMMA ErasedAlone ==
  ASSUME FirstPageMarked, Undisturbed, TypeOK, Unharmed, FmtErase
  PROVE  /\ pc = "fmtErase" /\ pc' = pc /\ loop.i \in Block /\ bad' = bad
         /\ loop'.i = loop.i + 1
         /\ \/ loop.i \in FactoryBad /\ UNCHANGED <<main, tag, used, good>>
            \/ /\ loop.i \notin FactoryBad /\ good' = good + 1
               /\ main' = [main EXCEPT ![loop.i] = Erased] /\ tag' = [tag EXCEPT ![loop.i] = NoTag]
               /\ used' = used \ {loop.i}
<1>1. /\ pc = "fmtErase" /\ loop.i \in Block /\ loop \in Loops
      /\ NoFaults /\ NoneMarked /\ Bad = FactoryBad
  BY MarksKnown, GeometryAssumption
     DEF FmtErase, TypeOK, Loops, Block, Undisturbed, Unharmed
<1>2. CASE loop.i \in FactoryBad
  BY <1>1, <1>2 DEF FmtErase, flashVars, Loops
<1>3. CASE loop.i \notin FactoryBad
  <2>1. /\ Erase(loop.i) /\ loop' = [loop EXCEPT !.i = @ + 1] /\ good' = good + 1 /\ pc' = pc
    BY <1>1, <1>3, AllOk DEF FmtErase
  <2>2. bad' = bad
    BY <1>1, <1>3, <2>1, EraseMarks
  <2> QED BY <1>1, <1>3, <2>1, <2>2 DEF Erase, Loops
<1> QED BY <1>2, <1>3

\* The second pass writes a number on every good block it comes to, and all are erased.
LEMMA TagAlone ==
  ASSUME FirstPageMarked, Undisturbed, TypeOK, Sound, Unharmed, FmtTag
  PROVE  /\ pc = "fmtTag" /\ pc' = pc /\ loop.i \in Block /\ loop.n \in Nat
         /\ loop'.i = loop.i + 1 /\ UNCHANGED <<main, used, bad, good, cap, torn, adrift>>
         /\ \/ loop.i \in FactoryBad /\ tag' = tag /\ loop'.n = loop.n
            \/ /\ loop.i \notin FactoryBad /\ tag[loop.i] = NoTag /\ loop'.n = loop.n + 1
               /\ tag' = [tag EXCEPT ![loop.i] = loop.n]
<1>1. /\ pc = "fmtTag" /\ pc' = pc /\ loop \in Loops /\ loop.i \in Block /\ loop.n \in Nat
      /\ NoFaults /\ NoneMarked /\ Bad = FactoryBad /\ bad[0] = FactoryBad
      /\ UnusedErased /\ FormatFresh /\ torn = {} /\ UNCHANGED <<good, cap, adrift>>
  BY MarksKnown, GeometryAssumption
     DEF FmtTag, TypeOK, Loops, Block, Undisturbed, Unharmed, Sound, Intact, ramVars
<1>2. CASE loop.i \in FactoryBad
  BY <1>1, <1>2 DEF FmtTag, flashVars, Loops
<1>3. CASE loop.i \notin FactoryBad
  <2>1. tag[loop.i] = NoTag
    BY <1>1, <1>3 DEF FormatFresh, Block
  <2>2. main[loop.i] = Erased
    BY <1>1, <1>3, <2>1 DEF UnusedErased, Unused
  <2>3. /\ WriteTag(loop.i, loop.n) /\ loop' = [loop EXCEPT !.i = @ + 1, !.n = @ + 1]
        /\ torn' = torn
    BY <1>1, <1>3, <2>1, <2>2, AllOk DEF FmtTag
  <2>4. tag' = [tag EXCEPT ![loop.i] = loop.n] /\ UNCHANGED <<main, used, bad>>
    BY <2>1, <2>3 DEF WriteTag, Merged
  <2> QED BY <1>1, <1>3, <2>1, <2>3, <2>4 DEF Loops
<1> QED BY <1>2, <1>3

\* Nothing is torn, and no block is given up.
LEMMA IntactNext ==
  ASSUME FirstPageMarked, Undisturbed, TypeOK, Sound, StoreInv, Unharmed, [Next]_vars
  PROVE  Intact'
<1>0. torn = {} /\ adrift = {} /\ NoFaults /\ CutsBetween /\ Entangled = {}
  BY DEF Unharmed, Intact, Undisturbed, Entangled
<1>1. CASE Boot \/ FmtErase \/ FmtTagged
  BY <1>0, <1>1 DEF Boot, FmtErase, FmtTagged, ghostVars, Intact
<1>2. CASE FmtErased
  <2>1. \A b \in Block \ Bad : tag[b] = NoTag
    BY <1>2, MarksKnown, GeometryAssumption DEF FmtErased, Unharmed, ShareKept, Block
  <2> QED BY <1>2, <2>1 DEF FmtErased, Intact
<1>3. CASE FmtTag
  BY <1>0, <1>3, TagAlone DEF Intact
<1>4. CASE WriteInPlace \/ WriteMark \/ WriteMove \/ ReadRefresh
  BY <1>0, <1>4 DEF WriteInPlace, WriteMark, WriteMove, ReadRefresh, StartCopy, Intact
<1>5. CASE CopyFind
  <2>1. pc = "cpFind" /\ cp.src \in Block
    BY <1>5 DEF CopyFind, TypeOK, ControlOK
  <2>2. SamePlaneUnused(cp.src) \in Block /\ Unused(SamePlaneUnused(cp.src))
    BY <1>5, <2>1, SamePlaneResult DEF CopyFind, TypeOK, RamTypeOK
  <2>3. main[SamePlaneUnused(cp.src)] = Erased
    BY <2>1, <2>2 DEF Unharmed, UnusedErased
  <2>4. SamePlaneUnused(cp.src) \notin bad[1]
    BY <2>2, MarksKnown DEF Unused, Unharmed, Bad
  <2>5. cp'.dst = SamePlaneUnused(cp.src)
    BY <1>5 DEF CopyFind, TypeOK, Copies
  <2> QED BY <1>0, <1>5, <2>3, <2>4, <2>5 DEF CopyFind, Intact
<1>6. CASE CopyPageStep \/ CopyErase
  BY <1>0, <1>6, AllOk DEF CopyPageStep, CopyErase, Intact
<1>7. CASE CopyUsed \/ RefreshBlank \/ RefreshZero \/ RefreshFill \/ RefreshErase
  BY <1>0, <1>7 DEF CopyUsed, RefreshBlank, RefreshZero, RefreshFill, RefreshErase, ghostVars,
                    Intact
<1>8. CASE WriteDone \/ Outside \/ ReadDone \/ ReadPage \/ BitError \/ UNCHANGED vars
  BY <1>0, <1>8 DEF WriteDone, Outside, ReadDone, ReadPage, BitError, vars, ghostVars, Intact
<1>9. CASE Request
  BY <1>0, <1>9, RequestEffect DEF Intact
<1>10. CASE PowerCut
  <2>1. ~Moving
    BY <1>0, <1>10 DEF PowerCut, Moving, CutsBetween, Copying
  <2> QED BY <1>0, <1>10, <2>1 DEF PowerCut, Intact
<1> QED BY <1>1, <1>2, <1>3, <1>4, <1>5, <1>6, <1>7, <1>8, <1>9, <1>10, NoneFails
        DEF Next, Step

\* The steps after which the chip holds what it held, the order of its bit errors aside.
Calm == \/ Boot \/ FmtErased \/ FmtTagged \/ Request \/ WriteDone \/ Outside \/ WriteMove
        \/ CopyFind \/ ReadDone \/ ReadPage \/ ReadRefresh \/ BitError \/ PowerCut
        \/ UNCHANGED vars

LEMMA CalmKeeps ==
  ASSUME Undisturbed, Calm
  PROVE  /\ UNCHANGED <<main, tag, used, bad>>
         /\ pc' \in Refreshing \cup Copying \cup Formatting =>
              \/ UNCHANGED <<pc, cp, loop>>
              \/ Boot \/ FmtErased \/ CopyFind
         /\ pc \in Copying \cup {"rfZero", "rfFill", "rfErase"} => UNCHANGED <<pc, cp, loop>>
<1>1. CASE Boot \/ FmtErased \/ FmtTagged
  BY <1>1 DEF Boot, FmtErased, FmtTagged, StartFormat, flashVars, Refreshing, Copying, Formatting
<1>2. CASE WriteDone \/ Outside \/ ReadDone
  BY <1>2 DEF WriteDone, Outside, ReadDone, flashVars, Refreshing, Copying, Formatting
<1>3. CASE WriteMove \/ ReadPage \/ ReadRefresh \/ CopyFind
  BY <1>3 DEF WriteMove, ReadPage, ReadRefresh, StartCopy, CopyFind, flashVars,
              Refreshing, Copying, Formatting
<1>4. CASE BitError \/ UNCHANGED vars
  BY <1>4 DEF BitError, vars, flashVars, Refreshing, Copying, Formatting
<1>5. CASE PowerCut
  BY <1>5 DEF PowerCut, flashVars, Refreshing, Copying, Formatting, Undisturbed, CutsBetween
<1>6. CASE Request
  BY <1>6, RequestEffect DEF Refreshing, Copying, Formatting
<1> QED BY <1>1, <1>2, <1>3, <1>4, <1>5, <1>6 DEF Calm

\* One page of a copy: its block gets the number of the source, and nothing else happens.
LEMMA PageAlone ==
  ASSUME Undisturbed, TypeOK, Sound, StoreInv, Unharmed, CopyPageStep
  PROVE  /\ pc = "cpPage" /\ pc' \in {"cpPage", "cpUsed"} /\ cap' = cap /\ bad' = bad
         /\ cp.dst \in Block /\ cp'.src = cp.src /\ cp'.dst = cp.dst
         /\ \A b \in Block : b # cp.dst => main'[b] = main[b] /\ tag'[b] = tag[b]
         /\ tag'[cp.dst] # NoTag /\ used \subseteq used' /\ used' \subseteq used \cup {cp.dst}
<1>1. pc = "cpPage" /\ Safe /\ NoFaults
  BY DEF CopyPageStep, Sound, Undisturbed
<1>2. tag[cp.src] \notin Forsaken
  BY <1>1, SourceKnown DEF Unharmed, Copying, Forsaken, Intact
<1>3. pc' # "cpMark"
  BY <1>1, AllOk DEF CopyPageStep
<1>4. /\ cp.dst \in Block /\ cap' = cap /\ bad' = bad /\ pc' \in {"cpPage", "cpUsed"}
      /\ cp'.src = cp.src /\ cp'.dst = cp.dst /\ tag'[cp.dst] # NoTag
      /\ \A b \in Block : b # cp.dst => tag'[b] = tag[b]
  BY <1>1, <1>2, <1>3, PageEffect DEF Forsaken
<1>5. \A b \in Block : b # cp.dst => main'[b] = main[b]
  BY PageWritten
<1>6. used \subseteq used' /\ used' \subseteq used \cup {cp.dst}
  BY DEF CopyPageStep, CopyPage, flashVars
<1> QED BY <1>1, <1>4, <1>5, <1>6

\* The source of a move is erased.
LEMMA SourceErased ==
  ASSUME FirstPageMarked, Undisturbed, TypeOK, Sound, StoreInv, Unharmed, CopyErase
  PROVE  /\ pc = "cpErase" /\ cap' = cap /\ bad' = bad
         /\ cp.src \in Block /\ cp.src \notin bad[0] /\ tag[cp.src] # NoTag /\ tag[cp.dst] # NoTag
         /\ main' = [main EXCEPT ![cp.src] = Erased] /\ tag' = [tag EXCEPT ![cp.src] = NoTag]
         /\ used' = used \ {cp.src}
         /\ pc' = "write" \/ (pc' = "rfBlank" /\ loop' = NoLoop /\ cp' = cp)
<1>1. pc = "cpErase" /\ cap' = cap /\ NoFaults
      /\ (pc' = "write" \/ (pc' = "rfBlank" /\ loop' = NoLoop /\ cp' = cp))
  BY DEF CopyErase, Undisturbed
<1>2. /\ cp.src \in Block /\ cp.src \notin bad[0] /\ tag[cp.src] # NoTag
  BY <1>1, SourceKnown DEF Unharmed, Copying
<1>3. tag[cp.dst] = tag[cp.src]
  BY <1>1 DEF Sound, Safe, MoveSafe
<1>4. Erase(cp.src)
  BY <1>1, AllOk DEF CopyErase
<1>5. bad' = bad
  BY <1>2, <1>4, MarksKnown, EraseMarks DEF Unharmed
<1> QED BY <1>1, <1>2, <1>3, <1>4, <1>5 DEF Erase

\* The refreshed block is blank already, is zeroed, and is erased.
LEMMA RefreshedAlone ==
  ASSUME FirstPageMarked, Undisturbed, TypeOK, Unharmed,
         RefreshBlank \/ RefreshZero \/ RefreshFill \/ RefreshErase
  PROVE  /\ cp.src \in Block /\ bad' = bad /\ cap' = cap
         /\ \/ /\ pc = "rfBlank" /\ pc' = "rfZero" /\ loop' = NoLoop /\ cp' = cp
               /\ UNCHANGED <<main, tag, used>> /\ main[cp.src] = Erased
            \/ /\ pc = "rfZero" /\ pc' = "rfErase" /\ ~loop'.fail /\ cp' = cp
               /\ UNCHANGED <<main, tag, used>>
            \/ /\ pc = "rfZero" /\ pc' = "rfFill" /\ loop'.i = 0 /\ loop'.n = 0 /\ cp' = cp
               /\ main' = [main EXCEPT ![cp.src] = Erased]
               /\ tag' = [tag EXCEPT ![cp.src] = NoTag] /\ used' = used \ {cp.src}
            \/ /\ pc = "rfFill" /\ cp' = cp /\ UNCHANGED <<tag, used>>
               /\ \/ pc' = "rfZero" /\ loop'.i = 1
                  \/ pc' = "rfFill" /\ loop'.i = 0 /\ loop'.n # 0
               /\ \A b \in Block : b # cp.src => main'[b] = main[b]
               /\ \A k \in Cell : PageOf(k) = 0 => main'[cp.src][k] = Zero
            \/ /\ pc = "rfErase" /\ pc' = "read"
               /\ main' = [main EXCEPT ![cp.src] = Erased]
               /\ tag' = [tag EXCEPT ![cp.src] = NoTag] /\ used' = used \ {cp.src}
<1>1. /\ pc \in Refreshing /\ cap' = cap /\ NoFaults
  BY DEF RefreshBlank, RefreshZero, RefreshFill, RefreshErase, Undisturbed, Refreshing, ghostVars
<1>2. cp.src \in Block /\ cp.src \notin FactoryBad /\ loop \in Loops
  BY <1>1 DEF TypeOK, ControlOK, Unharmed, NoneMarked
<1>3. CASE RefreshBlank
  <2>1. pc = "rfBlank" /\ loop.i = 0 /\ main[cp.src] = Erased
    BY <1>3 DEF RefreshBlank, Unharmed, UnusedErased
  <2>2. FirstPageIs(cp.src, Blank)
    BY <2>1 DEF FirstPageIs, Erased
  <2> QED BY <1>1, <1>2, <1>3, <2>1, <2>2 DEF RefreshBlank, flashVars
<1>4. CASE RefreshZero
  <2>1. /\ pc = "rfZero" /\ cp' = cp
        /\ loop.i = 0 \/ (loop.i = 1 /\ FirstPageIs(cp.src, Zero))
    BY <1>4 DEF RefreshZero, Unharmed, UnusedErased
  <2>2. CASE FirstPageIs(cp.src, Zero)
    <3>1. pc' = "rfErase" /\ loop' = [NoLoop EXCEPT !.fail = loop.i = 3] /\ UNCHANGED flashVars
      BY <1>4, <2>2 DEF RefreshZero
    <3>2. loop' = [i |-> 0, n |-> 0, fail |-> FALSE]
      <4>1. (loop.i = 3) = FALSE
        BY <2>1
      <4> QED BY <3>1, <4>1 DEF NoLoop
    <3>3. ~loop'.fail
      BY <3>2
    <3> QED BY <1>1, <1>2, <2>1, <3>1, <3>3 DEF flashVars
  <2>3. CASE ~FirstPageIs(cp.src, Zero)
    <3>1. pc' = "rfFill" /\ loop' = [loop EXCEPT !.n = 0] /\ Erase(cp.src)
      BY <1>1, <1>4, <2>1, <2>3, AllOk DEF RefreshZero
    <3>2. loop'.i = 0 /\ loop'.n = 0
      BY <1>2, <2>1, <2>3, <3>1 DEF Loops
    <3>3. bad' = bad
      BY <1>2, <3>1, EraseMarks DEF Unharmed
    <3> QED BY <1>1, <1>2, <2>1, <3>1, <3>2, <3>3 DEF Erase
  <2> QED BY <2>2, <2>3
<1>5. CASE RefreshErase
  <2>1. pc = "rfErase" /\ ~loop.fail
    BY <1>5 DEF RefreshErase, Unharmed, UnusedErased
  <2>2. Erase(cp.src) /\ pc' = "read"
    BY <1>1, <1>5, <2>1, AllOk DEF RefreshErase
  <2>3. bad' = bad
    BY <1>2, <2>2, EraseMarks DEF Unharmed
  <2> QED BY <1>1, <1>2, <2>1, <2>2, <2>3 DEF Erase
<1>6. CASE RefreshFill
  <2>1. /\ pc = "rfFill" /\ cp' = cp /\ loop.i = 0 /\ loop.n \in Nat
        /\ loop.n = 0 \/ FirstPageIs(cp.src, Zero)
    BY <1>2, <1>6 DEF RefreshFill, Unharmed, UnusedErased, Loops
  <2>2. FillZero(cp.src, loop.n)
    BY <1>1, <1>6, AllOk DEF RefreshFill
  <2>3. main' = [main EXCEPT ![cp.src] =
                   [k \in Cell |-> IF PageOf(k) = loop.n THEN Zero ELSE main[cp.src][k]]]
        /\ UNCHANGED <<tag, used, bad>>
    BY <2>2 DEF FillZero
  <2>4. main \in [Block -> [Cell -> Val]]
    BY DEF TypeOK, FlashTypeOK
  <2>5. /\ \A b \in Block : b # cp.src => main'[b] = main[b]
        /\ \A k \in Cell : PageOf(k) = 0 => main'[cp.src][k] = Zero
    BY <1>2, <2>1, <2>3, <2>4 DEF FirstPageIs
  <2>6. \/ pc' = "rfZero" /\ loop'.i = 1
        \/ pc' = "rfFill" /\ loop'.i = 0 /\ loop'.n # 0
    <3>1. IF loop.n = Pages - 1
          THEN pc' = "rfZero" /\ loop' = [loop EXCEPT !.i = @ + 1, !.n = 0]
          ELSE pc' = "rfFill" /\ loop' = [loop EXCEPT !.n = @ + 1]
      BY <1>6, <2>1 DEF RefreshFill
    <3>2. CASE loop.n = Pages - 1
      <4>1. pc' = "rfZero" /\ loop' = [loop EXCEPT !.i = 1, !.n = 0]
        BY <2>1, <3>1, <3>2
      <4>2. loop'.i = 1
        BY <1>2, <4>1 DEF Loops
      <4> QED BY <4>1, <4>2
    <3>3. CASE loop.n # Pages - 1
      <4>1. pc' = "rfFill" /\ loop' = [loop EXCEPT !.n = loop.n + 1]
        BY <3>1, <3>3
      <4>2. loop'.i = 0 /\ loop'.n = loop.n + 1
        BY <1>2, <2>1, <4>1 DEF Loops
      <4>3. loop.n + 1 # 0
        BY <2>1
      <4> QED BY <4>1, <4>2, <4>3
    <3> QED BY <3>2, <3>3
  <2>7. UNCHANGED <<tag, used>> /\ bad' = bad
    BY <2>3
  <2> QED BY <1>1, <1>2, <2>1, <2>5, <2>6, <2>7
<1> QED BY <1>3, <1>4, <1>5, <1>6

\* The steps at which a mark is made.
Marking == {"fmtMark", "fmtMark2", "cpMark", "cpMark2", "rfMark", "rfMark2"}

\* No mark is made.
LEMMA MarksNext ==
  ASSUME FirstPageMarked, Undisturbed, TypeOK, Sound, StoreInv, Unharmed, [Next]_vars
  PROVE  bad' = bad /\ NoneMarked'
<1>0. /\ NoneMarked /\ NoFaults /\ pc \notin Marking
      /\ pc \in Refreshing => cp.src \notin FactoryBad
  BY DEF Unharmed, NoneMarked, Undisturbed, Marking
<1> SUFFICES /\ bad' = bad /\ pc' \notin Marking
             /\ pc' \in Refreshing => cp'.src \notin FactoryBad
  BY <1>0 DEF NoneMarked, Marking
<1>1. CASE Calm
  <2>1. /\ Boot \/ FmtErased \/ CopyFind => pc' \notin Marking \cup Refreshing
        /\ Marking \subseteq Refreshing \cup Copying \cup Formatting
    BY DEF Boot, FmtErased, CopyFind, StartFormat, Marking, Refreshing, Copying, Formatting
  <2>2. bad' = bad /\ pc' \notin Marking
    BY <1>0, <1>1, <2>1, CalmKeeps
  <2>3. pc' \in Refreshing => cp'.src \notin FactoryBad
    BY <1>0, <1>1, <2>1, CalmKeeps
  <2> QED BY <2>2, <2>3
<1>2. CASE FmtErase
  BY <1>2, ErasedAlone DEF Refreshing, Marking
<1>3. CASE FmtTag
  BY <1>3, TagAlone DEF Refreshing, Marking
<1>4. CASE WriteInPlace \/ WriteMark
  BY <1>4 DEF WriteInPlace, WriteMark, StartCopy, Program, MarkUsed, flashVars, Refreshing, Marking
<1>5. CASE CopyPageStep
  BY <1>5, PageAlone DEF Refreshing, Marking
<1>6. CASE CopyUsed
  BY <1>6 DEF CopyUsed, MarkUsed, flashVars, Refreshing, Marking
<1>7. CASE CopyErase
  <2>1. bad' = bad /\ cp.src \notin bad[0] /\ (pc' = "write" \/ (pc' = "rfBlank" /\ cp' = cp))
    BY <1>7, SourceErased
  <2> QED BY <1>0, <2>1, MarksKnown DEF Refreshing, Marking
<1>8. CASE RefreshBlank \/ RefreshZero \/ RefreshFill \/ RefreshErase
  <2>1. /\ bad' = bad
        /\ (pc \in Refreshing /\ pc' \in {"rfZero", "rfFill", "rfErase"} /\ cp' = cp) \/ pc' = "read"
    BY <1>8, RefreshedAlone DEF Refreshing
  <2> QED BY <1>0, <2>1 DEF Refreshing, Marking
<1> QED BY <1>1, <1>2, <1>3, <1>4, <1>5, <1>6, <1>7, <1>8, NoneFails DEF Next, Step, Calm

\* The blocks with a used mark carry a number, the unused ones are erased, and the refreshed
\* block is blank, then zeroed.
LEMMA ErasedNext ==
  ASSUME FirstPageMarked, Undisturbed, TypeOK, Sound, StoreInv, Unharmed, [Next]_vars
  PROVE  UnusedErased'
<1>0. /\ UnusedErased /\ NoFaults /\ bad' = bad /\ Intact /\ Safe
      /\ main \in [Block -> [Cell -> Val]] /\ tag \in [Block -> 0 .. Blocks] /\ used \subseteq Block
  BY MarksNext DEF Unharmed, Undisturbed, TypeOK, FlashTypeOK, Sound
<1>1. CASE Calm
  <2>1. UNCHANGED <<main, tag, used, bad>>
    BY <1>1, CalmKeeps
  <2>2. CASE UNCHANGED <<pc, cp, loop>>
    BY <1>0, <2>1, <2>2 DEF UnusedErased, Unused, FirstPageIs
  <2>3. CASE ~UNCHANGED <<pc, cp, loop>>
    <3>1. pc \notin {"rfZero", "rfFill", "rfErase"} /\ pc' \notin Refreshing
      BY <1>1, <2>3, CalmKeeps DEF Boot, StartFormat, FmtErased, CopyFind, Refreshing
    <3> QED BY <1>0, <2>1, <3>1 DEF UnusedErased, Unused, Refreshing
  <2> QED BY <2>2, <2>3
<1>2. CASE FmtErase
  <2>1. /\ pc = "fmtErase" /\ pc' = pc /\ loop.i \in Block
        /\ \/ UNCHANGED <<main, tag, used>>
           \/ /\ main' = [main EXCEPT ![loop.i] = Erased] /\ tag' = [tag EXCEPT ![loop.i] = NoTag]
              /\ used' = used \ {loop.i}
    BY <1>2, ErasedAlone DEF Unharmed
  <2> QED BY <1>0, <2>1 DEF UnusedErased, Unused
<1>3. CASE FmtTag
  <2>1. /\ pc = "fmtTag" /\ pc' = pc /\ loop.i \in Block /\ loop.n \in Nat
        /\ UNCHANGED <<main, used>>
        /\ tag' = tag \/ tag' = [tag EXCEPT ![loop.i] = loop.n]
    BY <1>3, TagAlone DEF Unharmed
  <2>2. loop.n # NoTag
    <3>1. loop.n <= (good * FormatPercent) \div 100
      BY <1>0, <2>1 DEF Safe, FormatSafe
    <3>2. (good * FormatPercent) \div 100 \in 0 .. Blocks - 1
      BY FewerThanBlocks DEF TypeOK, RamTypeOK
    <3> QED BY <2>1, <3>1, <3>2, GeometryAssumption DEF NoTag
  <2> QED BY <1>0, <2>1, <2>2 DEF UnusedErased, Unused
<1>4. CASE WriteInPlace \/ WriteMark
  <2>1. HereBlk \in Block /\ tag[HereBlk] # NoTag
    <3>1. Mounted /\ HereBlk # NoBlock
      BY <1>4, GeometryAssumption DEF WriteInPlace, WriteMark, Mounted, Formatting, TypeOK, ControlOK, Block, NoBlock
    <3> QED BY <1>0, <3>1, HereKnown
  <2>2. /\ pc \in {"write", "wrUsed"} /\ pc' \in {"write", "wrUsed", "cpFind"} /\ tag' = tag
        /\ \A b \in Block : b # HereBlk => main'[b] = main[b]
        /\ used' \in {used, used \cup {HereBlk}}
    BY <1>0, <1>4, <2>1 DEF WriteInPlace, WriteMark, StartCopy, Program, MarkUsed, flashVars
  <2> QED BY <1>0, <2>1, <2>2 DEF UnusedErased, Unused
<1>5. CASE CopyPageStep
  BY <1>0, <1>5, PageAlone DEF UnusedErased, Unused
<1>6. CASE CopyUsed
  <2>1. tag[cp.dst] = tag[cp.src] /\ tag[cp.src] # NoTag /\ cp.dst \in Block
    BY <1>0, <1>6, SourceKnown DEF CopyUsed, Safe, MoveSafe, Copying, TypeOK, ControlOK
  <2>2. pc = "cpUsed" /\ pc' = "cpErase" /\ UNCHANGED <<main, tag>> /\ used' \in {used, used \cup {cp.dst}}
    BY <1>6 DEF CopyUsed, MarkUsed, flashVars
  <2> QED BY <1>0, <2>1, <2>2 DEF UnusedErased, Unused
<1>7. CASE CopyErase
  <2>1. /\ pc = "cpErase" /\ cp.src \in Block
        /\ main' = [main EXCEPT ![cp.src] = Erased] /\ tag' = [tag EXCEPT ![cp.src] = NoTag]
        /\ used' = used \ {cp.src}
        /\ pc' = "write" \/ (pc' = "rfBlank" /\ loop'.i = 0 /\ cp' = cp)
    BY <1>7, SourceErased DEF NoLoop
  <2> QED BY <1>0, <2>1 DEF UnusedErased, Unused
<1>8. CASE RefreshBlank \/ RefreshZero \/ RefreshFill \/ RefreshErase
  <2> DEFINE Blanked == /\ pc = "rfBlank" /\ pc' = "rfZero" /\ loop' = NoLoop /\ cp' = cp
                        /\ UNCHANGED <<main, tag, used>> /\ main[cp.src] = Erased
             Found   == /\ pc = "rfZero" /\ pc' = "rfErase" /\ ~loop'.fail /\ cp' = cp
                        /\ UNCHANGED <<main, tag, used>>
             Begun   == /\ pc = "rfZero" /\ pc' = "rfFill" /\ loop'.i = 0 /\ loop'.n = 0 /\ cp' = cp
                        /\ main' = [main EXCEPT ![cp.src] = Erased]
                        /\ tag' = [tag EXCEPT ![cp.src] = NoTag] /\ used' = used \ {cp.src}
             Zeroed  == /\ pc = "rfFill" /\ cp' = cp /\ UNCHANGED <<tag, used>>
                        /\ \/ pc' = "rfZero" /\ loop'.i = 1
                           \/ pc' = "rfFill" /\ loop'.i = 0 /\ loop'.n # 0
                        /\ \A b \in Block : b # cp.src => main'[b] = main[b]
                        /\ \A k \in Cell : PageOf(k) = 0 => main'[cp.src][k] = Zero
             Wiped   == /\ pc = "rfErase" /\ pc' = "read"
                        /\ main' = [main EXCEPT ![cp.src] = Erased]
                        /\ tag' = [tag EXCEPT ![cp.src] = NoTag] /\ used' = used \ {cp.src}
  <2>1. cp.src \in Block /\ (Blanked \/ Found \/ Begun \/ Zeroed \/ Wiped)
    BY <1>8, RefreshedAlone DEF Unharmed
  <2>2. CASE Blanked
    BY <1>0, <2>1, <2>2 DEF UnusedErased, Unused, NoLoop
  <2>3. CASE Found
    BY <1>0, <2>1, <2>3 DEF UnusedErased, Unused
  <2>4. CASE Begun
    BY <1>0, <2>1, <2>4 DEF UnusedErased, Unused
  <2>5. CASE Zeroed
    <3>1. /\ FirstPageIs(cp.src, Zero)' /\ \A b \in Block : Unused(b)' = Unused(b)
      BY <1>0, <2>5 DEF FirstPageIs, Unused
    <3> QED BY <1>0, <2>1, <2>5, <3>1 DEF UnusedErased
  <2>6. CASE Wiped
    BY <1>0, <2>1, <2>6 DEF UnusedErased, Unused
  <2> QED BY <2>1, <2>2, <2>3, <2>4, <2>5, <2>6
<1> QED BY <1>1, <1>2, <1>3, <1>4, <1>5, <1>6, <1>7, <1>8, NoneFails DEF Next, Step, Calm

\* When a store begins, the format has left a block in each plane.
LEMMA SpareLeft ==
  ASSUME FirstPageMarked, SpareBlocks, NoneMarked, UnusedErased,
         \A b \in Block : tag[b] # NoTag => GoodBelow(b) < Quota, NEW plane \in {0, 1}
  PROVE  \E b \in Block : b % 2 = plane /\ Unused(b)
<1>1. PICK b \in Block \ FactoryBad : b % 2 = plane /\ GoodBelow(b) >= Quota
  BY DEF SpareBlocks
<1>2. GoodBelow(b) \in Nat /\ Quota \in Nat
  BY GoodStep, QuotaFits
<1>3. tag[b] = NoTag
  BY <1>1, <1>2
<1>4. Unused(b)
  BY <1>1, <1>3, MarksKnown DEF Unused, UnusedErased
<1> QED BY <1>1, <1>4

\* In each plane a block is unused, or being written.
LEMMA SpareNext ==
  ASSUME FirstPageMarked, Undisturbed, TypeOK, Sound, StoreInv, Unharmed, [Next]_vars
  PROVE  SpareKept'
<1>0. /\ SpareKept /\ UnusedErased /\ NoneMarked /\ NoFaults /\ SpareBlocks /\ bad' = bad
      /\ Intact /\ Safe /\ tag \in [Block -> 0 .. Blocks] /\ used \subseteq Block
  BY MarksNext DEF Unharmed, Undisturbed, TypeOK, FlashTypeOK, Sound
<1> DEFINE Spare(b) == Unused(b) \/ (pc \in Copying /\ b = cp.dst)
\* it is enough to find, for a spare block, one of its plane that is spare after the step
<1>a. ASSUME cap' = cap, \A b \in Block : Spare(b) => \E c \in Block : c % 2 = b % 2 /\ Spare(c)',
             pc' \in Copying => cp'.dst % 2 = cp'.src % 2
      PROVE  SpareKept'
  BY <1>0, <1>a DEF SpareKept
<1>1. CASE Boot \/ FmtTagged
  <2>1. /\ UNCHANGED <<tag, used>> /\ pc \notin Copying /\ pc' \notin Copying
        /\ pc \in {"off", "fmtTag"} /\ (pc = "fmtTag" => cap = 0)
        /\ pc = "off" /\ cap > 0 => cap' \in {0, cap}
    BY <1>0, <1>1
       DEF Boot, FmtTagged, StartFormat, flashVars, Copying, Safe, FormatSafe, Formatting
  <2>2. CASE pc = "off" /\ cap > 0
    BY <1>0, <2>1, <2>2 DEF SpareKept, Unused
  <2>3. CASE cap = 0
    <3>1. \A plane \in {0, 1} : \E b \in Block : b % 2 = plane /\ Unused(b)
      BY <1>0, <2>3, SpareLeft DEF Unharmed, ShareKept
    <3> QED BY <1>0, <2>1, <3>1 DEF SpareKept, Unused
  <2>4. cap \in Nat
    BY GeometryAssumption DEF TypeOK, RamTypeOK
  <2> QED BY <2>1, <2>2, <2>3, <2>4
<1>2. CASE FmtErase \/ FmtErased \/ FmtTag
  <2>1. cap' = 0 /\ pc' \notin Copying
    BY <1>0, <1>2, ErasedAlone, TagAlone
       DEF FmtErase, FmtErased, FmtTag, ghostVars, Copying, Safe, FormatSafe, Formatting
  <2> QED BY <2>1 DEF SpareKept
<1>3. CASE CopyFind
  <2>1. pc = "cpFind" /\ cp.src \in Block /\ cp \in Copies
    BY <1>3 DEF CopyFind, TypeOK, ControlOK
  <2>2. /\ SamePlaneUnused(cp.src) % 2 = cp.src % 2
    BY <1>3, <2>1, SamePlaneResult DEF CopyFind, TypeOK, RamTypeOK
  <2>3. cp'.src = cp.src /\ cp'.dst = SamePlaneUnused(cp.src)
    BY <1>3, <2>1 DEF CopyFind, Copies
  <2>4. UNCHANGED <<tag, used, cap>> /\ pc \notin Copying
    BY <1>3, <2>1 DEF CopyFind, flashVars, Copying
  <2> QED BY <1>0, <1>a, <2>2, <2>3, <2>4 DEF Unused
<1>4. CASE Calm /\ ~(Boot \/ FmtTagged \/ FmtErased \/ CopyFind)
  <2>1. /\ UNCHANGED <<tag, used>>
        /\ pc \in Copying \/ pc' \in Copying => UNCHANGED <<pc, cp>>
    BY <1>4, CalmKeeps
  <2>2. cap' = cap
    BY <1>4, RequestEffect DEF Calm, WriteDone, Outside, WriteMove, ReadDone, ReadPage,
       ReadRefresh, BitError, PowerCut, vars, ghostVars
  <2> QED BY <1>0, <1>a, <2>1, <2>2 DEF SpareKept, Unused
<1>5. CASE WriteInPlace \/ WriteMark
  <2>1. HereBlk \in Block /\ tag[HereBlk] # NoTag
    <3>1. Mounted /\ HereBlk # NoBlock
      BY <1>5, GeometryAssumption DEF WriteInPlace, WriteMark, Mounted, Formatting, TypeOK, ControlOK, Block, NoBlock
    <3> QED BY <1>0, <3>1, HereKnown
  <2>2. /\ pc \notin Copying /\ pc' \notin Copying /\ UNCHANGED <<tag, cap>>
        /\ used' \in {used, used \cup {HereBlk}}
    BY <1>0, <1>5, <2>1 DEF WriteInPlace, WriteMark, StartCopy, Program, MarkUsed, flashVars, Copying
  <2> QED BY <1>0, <1>a, <2>1, <2>2 DEF Unused
<1>6. CASE CopyPageStep
  <2>1. /\ pc = "cpPage" /\ pc' \in {"cpPage", "cpUsed"} /\ cap' = cap
        /\ cp.dst \in Block /\ cp'.src = cp.src /\ cp'.dst = cp.dst
        /\ \A b \in Block : b # cp.dst => tag'[b] = tag[b]
        /\ used \subseteq used' /\ used' \subseteq used \cup {cp.dst}
    BY <1>6, PageAlone
  <2>2. pc \in Copying /\ pc' \in Copying
    BY <2>1 DEF Copying
  <2> QED BY <1>0, <1>a, <2>1, <2>2 DEF Unused, SpareKept
<1>7. CASE CopyUsed
  <2>1. /\ pc \in Copying /\ pc' \in Copying /\ cp' = cp /\ UNCHANGED <<tag, cap>>
        /\ used' \in {used, used \cup {cp.dst}}
    BY <1>7 DEF CopyUsed, MarkUsed, flashVars, ghostVars, Copying
  <2> QED BY <1>0, <1>a, <2>1 DEF Unused, SpareKept
<1>8. CASE CopyErase
  <2>1. /\ pc \in Copying /\ pc' \notin Copying /\ cap' = cap
        /\ cp.src \in Block /\ cp.src \notin bad[0]
        /\ tag' = [tag EXCEPT ![cp.src] = NoTag] /\ used' = used \ {cp.src}
    BY <1>8, SourceErased DEF Copying
  <2>2. \A b \in Block : b = cp.src \/ Unused(b) => Unused(b)'
    BY <1>0, <2>1 DEF Unused
  <2>3. cp.dst % 2 = cp.src % 2
    BY <1>0, <2>1 DEF SpareKept
  <2>4. ASSUME NEW b \in Block, Spare(b) PROVE \E c \in Block : c % 2 = b % 2 /\ Unused(c)'
    <3>1. CASE Unused(b)
      BY <2>2, <3>1
    <3>2. CASE b = cp.dst
      BY <2>1, <2>2, <2>3, <3>2
    <3> QED BY <2>4, <3>1, <3>2
  <2> QED BY <1>a, <2>1, <2>4
<1>9. CASE RefreshBlank \/ RefreshZero \/ RefreshFill \/ RefreshErase
  <2>1. /\ cp.src \in Block /\ cap' = cap /\ pc \notin Copying /\ pc' \notin Copying
        /\ UNCHANGED <<tag, used>>
           \/ (tag' = [tag EXCEPT ![cp.src] = NoTag] /\ used' = used \ {cp.src})
    BY <1>9, RefreshedAlone DEF Copying, Unharmed
  <2> QED BY <1>0, <1>a, <2>1 DEF Unused
<1> QED BY <1>1, <1>2, <1>3, <1>4, <1>5, <1>6, <1>7, <1>8, <1>9, NoneFails DEF Next, Step, Calm

\* A start finds again what was handed out.
LEMMA BootFinds ==
  ASSUME TypeOK, Sound, Unharmed, TypeOK', Boot, cap > 0
  PROVE  pc' = "ready"
<1>0. Safe /\ ShareKept /\ adrift = {} /\ cap \in 0 .. Blocks /\ Wanted \in Nat /\ valid' \in Nat
  BY WantedType DEF Sound, Unharmed, Intact, TypeOK, RamTypeOK
<1>1. \A l \in 0 .. cap - 1 : Carriers(l, bad, tag) # {}
  BY <1>0 DEF Safe, NoLbnLost
<1>2. valid' = ValidOf(LutOf(bad, tag), valid)
  BY BootEnds
<1>3. cap <= valid'
  BY <1>0, <1>1, <1>2, ValidFinds DEF Safe, FormatSafe
<1>4. ~(valid' < Wanted)
  BY <1>0, <1>3 DEF ShareKept
<1> QED BY <1>4, BootEnds

\* A format hands out its share, lowest blocks first, and a start finds it again.
LEMMA ShareNext ==
  ASSUME FirstPageMarked, Undisturbed, TypeOK, Sound, StoreInv, Unharmed, TypeOK', [Next]_vars
  PROVE  ShareKept'
<1>0. /\ ShareKept /\ NoneMarked /\ NoFaults /\ CheckHolds /\ FormatBlank /\ Intact /\ Safe
      /\ bad' = bad /\ Wanted' = Wanted /\ loop \in Loops
      /\ bad[0] = FactoryBad /\ Bad = FactoryBad
  <2>1. bad' = bad
    BY MarksNext
  <2>2. Wanted' = Wanted
    BY <2>1 DEF Wanted, Bad
  <2> QED BY <2>1, <2>2, MarksKnown DEF Unharmed, Undisturbed, StoreInv, Sound, TypeOK
<1>1. /\ cap \in 0 .. Blocks /\ cap' \in 0 .. Blocks /\ good \in Nat /\ loop.i \in Nat /\ loop.n \in Nat
      /\ Wanted \in Nat \ {0} /\ valid' \in Nat /\ tag \in [Block -> 0 .. Blocks]
      /\ Quota \in 0 .. Blocks - 1 /\ Quota <= GoodBelow(Blocks) /\ GoodBelow(Blocks) \in Nat
  <2>1. Wanted \in Nat \ {0}
    BY WantedType
  <2>2. GoodBelow(Blocks) \in Nat
    BY GoodStep
  <2> QED BY <1>0, <2>1, <2>2, QuotaFits DEF TypeOK, RamTypeOK, FlashTypeOK, Loops
<1>2. CASE Boot
  <2>1. tag' = tag /\ pc = "off" /\ pc' \in {"ready", "fmtErase"} /\ valid' = ValidOf(LutOf(bad, tag), valid)
    BY <1>2, BootEnds DEF Boot, flashVars
  <2>2. CASE pc' = "ready"
    <3>1. cap' = (IF cap = 0 THEN valid' ELSE cap) /\ valid' >= Wanted
      BY <1>2, <2>2, BootEnds
    <3>2. cap' >= Wanted
      BY <1>0, <1>1, <3>1 DEF ShareKept
    <3> QED BY <1>0, <1>1, <2>2, <3>2 DEF ShareKept
  <2>3. CASE pc' = "fmtErase"
    <3>1. valid' < Wanted /\ cap' = 0 /\ loop'.i = 0
      BY <1>2, <2>3, BootEnds DEF NoLoop
    <3>2. good' = 0
      BY <1>2, <2>3 DEF Boot, StartFormat
    <3>3. cap = 0
      BY <1>1, <1>2, <2>3, BootFinds
    <3>4. good' = GoodBelow(0) /\ ~ \E b \in Block : b < loop'.i
      BY <3>1, <3>2, GoodStep, GeometryAssumption DEF Block
    <3> QED BY <1>0, <2>1, <2>3, <3>1, <3>3, <3>4 DEF ShareKept
  <2> QED BY <2>1, <2>2, <2>3
<1>3. CASE FmtErase
  <2>1. /\ pc = "fmtErase" /\ pc' = pc /\ loop.i \in Block /\ loop'.i = loop.i + 1
        /\ \/ loop.i \in FactoryBad /\ UNCHANGED <<tag, good>>
           \/ /\ loop.i \notin FactoryBad /\ good' = good + 1
              /\ tag' = [tag EXCEPT ![loop.i] = NoTag]
    BY <1>3, ErasedAlone
  <2>2. cap' = 0 /\ cap = 0 /\ good = GoodBelow(loop.i)
    BY <1>0, <1>3, <2>1 DEF FmtErase, ghostVars, Safe, FormatSafe, Formatting, ShareKept
  <2>3. good' = GoodBelow(loop'.i)
    BY <2>1, <2>2, GoodStep
  <2>4. \A b \in Block : tag'[b] # NoTag => tag[b] # NoTag
    BY <1>1, <2>1
  <2>5. ASSUME NEW b \in Block \ FactoryBad, b < loop'.i PROVE tag'[b] = NoTag
    <3>1. b < loop.i \/ b = loop.i
      BY <1>1, <2>1, <2>5, GeometryAssumption DEF Block
    <3> QED BY <1>0, <1>1, <2>1, <3>1 DEF ShareKept
  <2> QED BY <1>0, <2>1, <2>2, <2>3, <2>4, <2>5 DEF ShareKept
<1>4. CASE FmtErased
  <2>1. /\ pc = "fmtErase" /\ loop.i = Blocks /\ cap' = 0 /\ cap = 0 /\ tag' = tag /\ good' = good
        /\ loop'.i = 0 /\ loop'.n = 0 /\ pc' # "fmtErase"
    BY <1>0, <1>4 DEF FmtErased, flashVars, ramVars, Safe, FormatSafe, Formatting, NoLoop
  <2>2. good' = GoodBelow(Blocks) /\ loop'.n = GoodBelow(0)
    BY <1>0, <2>1, GoodStep DEF ShareKept
  <2> QED BY <1>0, <2>1, <2>2 DEF ShareKept
<1>5. CASE FmtTag
  <2>0. /\ pc = "fmtTag" /\ pc' = pc /\ cap' = cap /\ good' = good /\ loop.i \in Block
        /\ loop'.i = loop.i + 1
        /\ \/ loop.i \in FactoryBad /\ tag' = tag /\ loop'.n = loop.n
           \/ /\ loop.i \notin FactoryBad /\ tag[loop.i] = NoTag /\ loop'.n = loop.n + 1
              /\ tag' = [tag EXCEPT ![loop.i] = loop.n]
    BY <1>5, TagAlone
  <2>1. /\ pc = "fmtTag" /\ pc' = pc /\ cap' = 0 /\ cap = 0 /\ good' = good /\ loop.i \in Block
        /\ good = GoodBelow(Blocks) /\ loop.n = GoodBelow(loop.i)
        /\ loop.n # Quota /\ loop.n <= Quota
    BY <1>0, <1>1, <1>5, <2>0
    DEF FmtTag, Safe, FormatSafe, Formatting, ShareKept, Quota
  <2>2. CASE loop.i \in FactoryBad
    <3>1. tag' = tag /\ loop'.i = loop.i + 1 /\ loop'.n = loop.n
      BY <2>0, <2>2
    <3>2. loop'.n = GoodBelow(loop'.i)
      BY <2>1, <2>2, <3>1, GoodStep
    <3> QED BY <1>0, <2>1, <3>1, <3>2 DEF ShareKept
  <2>3. CASE loop.i \notin FactoryBad
    <3>1. tag' = [tag EXCEPT ![loop.i] = loop.n] /\ tag[loop.i] = NoTag
      BY <2>0, <2>3
    <3>2. loop'.i = loop.i + 1 /\ loop'.n = loop.n + 1
      BY <2>0, <2>3
    <3>3. loop'.n = GoodBelow(loop'.i)
      BY <2>1, <2>3, <3>2, GoodStep
    <3>4. \A l \in 0 .. loop'.n - 1 : Carriers(l, bad', tag') # {}
      <4> SUFFICES ASSUME NEW l \in 0 .. loop'.n - 1
                   PROVE  \E b \in Block : b \notin Bad /\ tag'[b] = l
        BY <1>0 DEF Carriers, Bad
      <4>1. CASE l = loop.n
        BY <1>0, <1>1, <2>1, <2>3, <3>1, <4>1
      <4>2. CASE l # loop.n
        <5>1. l \in 0 .. loop.n - 1
          BY <1>1, <3>2, <4>2
        <5>2. PICK b \in Block : b \notin Bad /\ tag[b] = l
          BY <1>0, <2>1, <5>1 DEF ShareKept, Carriers, Bad
        <5>3. b # loop.i
          <6>1. l # NoTag
            BY <1>1, <2>1, <5>1, GeometryAssumption DEF NoTag
          <6> QED BY <3>1, <5>2, <6>1
        <5> QED BY <1>1, <3>1, <5>2, <5>3
      <4> QED BY <4>1, <4>2
    <3>5. \A b \in Block : tag'[b] # NoTag => GoodBelow(b) < Quota
      BY <1>0, <1>1, <2>1, <3>1 DEF ShareKept
    <3> QED BY <1>0, <2>1, <3>3, <3>4, <3>5 DEF ShareKept
  <2> QED BY <2>2, <2>3
<1>6. CASE FmtTagged
  <2>1. /\ pc = "fmtTag" /\ pc' \in {"off", "ready"} /\ cap = 0 /\ tag' = tag
        /\ valid' = ValidOf(LutOf(bad, tag), valid)
        /\ pc' = "off" => cap' = 0
        /\ pc' = "ready" => cap' = valid' /\ valid' >= MinBlocks
        /\ loop.i = Blocks \/ loop.n = Quota
        /\ loop.n = GoodBelow(loop.i)
        /\ \A l \in 0 .. loop.n - 1 : Carriers(l, bad, tag) # {}
    <3>1. MinBlocks \in Nat
      BY ConfigAssumption
    <3> QED BY <1>0, <1>1, <1>6, <3>1
            DEF FmtTagged, CreateLut, flashVars, Safe, FormatSafe, Formatting, ShareKept, Quota
  <2>2. loop.n >= Quota /\ loop.n \in 0 .. Blocks
    <3>1. loop.n \in 0 .. Blocks
      BY <2>1, GoodStep
    <3> QED BY <1>1, <2>1, <3>1
  <2>3. valid' >= loop.n
    BY <1>0, <1>1, <2>1, <2>2, ValidFinds DEF Safe, FormatSafe
  <2>4. pc' = "ready" => cap' >= Wanted
    <3>1. pc' = "ready" => valid' >= MinBlocks /\ valid' >= Quota
      BY <1>1, <2>1, <2>2, <2>3
    <3> QED BY <1>0, <1>1, <2>1, <3>1, QuotaWanted
  <2> QED BY <1>0, <1>1, <2>1, <2>4 DEF ShareKept
<1>7. CASE PowerCut \/ UNCHANGED vars
  <2>1. UNCHANGED <<tag, cap>> /\ (pc' = "off" \/ UNCHANGED <<pc, loop, good>>)
    BY <1>7 DEF PowerCut, vars, flashVars, ghostVars, ramVars
  <2> QED BY <1>0, <2>1 DEF ShareKept
<1>8. CASE Running
  <2>1. Mounted /\ Mounted' /\ cap' = cap
    BY <1>8, RunningStays
  <2> QED BY <1>0, <2>1 DEF ShareKept, FormatBlank, Mounted, Formatting
<1> QED BY <1>2, <1>3, <1>4, <1>5, <1>6, <1>7, <1>8, NoneFails DEF Next, Step, Running, Working

\* A chip fresh from the factory is unharmed.
LEMMA UnharmedInit == FirstPageMarked /\ Undisturbed /\ Init => Unharmed
<1> SUFFICES ASSUME FirstPageMarked, Undisturbed, Init PROVE Unharmed
  OBVIOUS
<1>1. /\ pc = "off" /\ cap = 0 /\ used = {} /\ torn = {} /\ adrift = {}
      /\ main = [b \in Block |-> Erased] /\ tag = [b \in Block |-> NoTag]
      /\ bad = [p \in {0, 1} |-> IF p = 0 THEN FactoryBad0 ELSE FactoryBad1]
  BY DEF Init
<1>2. Intact /\ NoneMarked
  BY <1>1 DEF Intact, NoneMarked, Refreshing
<1>3. ShareKept
  BY <1>1 DEF ShareKept
<1>4. SpareKept /\ UnusedErased
  BY <1>1 DEF SpareKept, UnusedErased, Unused, Copying
<1> QED BY <1>2, <1>3, <1>4 DEF Unharmed

\* Nothing harms a move: whatever the requests are and wherever the power goes between the
\* moves, no logical block is torn or given up, and a start finds again what a format handed
\* out.
LEMMA UnharmedNext ==
  ASSUME FirstPageMarked, Undisturbed, TypeOK, Sound, StoreInv, Unharmed, TypeOK', [Next]_vars
  PROVE  Unharmed'
BY IntactNext, MarksNext, ErasedNext, SpareNext, ShareNext DEF Unharmed

\* As long as nothing harms a move, no logical block is torn or given up: every start finds
\* the numbers ftl_format handed out, each plane has a block for the next move, the unused
\* blocks are erased and none is ever marked, and a request never passes the end of the store.
THEOREM UnharmedAlways ==
  ASSUME FirstPageMarked, Undisturbed
  PROVE  Spec => [](StoreInv /\ Unharmed)
<1>1. Init => StoreInv /\ Unharmed
  BY StoreInit, UnharmedInit
<1>2. TypeOK /\ Sound /\ StoreInv /\ Unharmed /\ TypeOK' /\ Sound' /\ [Next]_vars
        => StoreInv' /\ Unharmed'
  <2> SUFFICES ASSUME TypeOK, Sound, StoreInv, Unharmed, TypeOK', Sound', [Next]_vars
               PROVE  StoreInv' /\ Unharmed'
    OBVIOUS
  <2>1. Wanted' = Wanted
    BY MarksNext DEF Wanted, Bad
  <2> QED BY <2>1, StoreInvNext, UnharmedNext
<1> QED BY <1>1, <1>2, TypeCorrect, SoundAlways, PTL DEF Spec

\* ftl_write_sectors and ftl_read_sectors are an array of sectors: a write changes the sectors
\* it names and no others, all of them before it returns 0, and moves, refreshes, starts and
\* power cuts between the commands of a write cannot be seen, as long as nothing harms a move.
THEOREM ImplementsSectorStore ==
  ASSUME FirstPageMarked, Undisturbed
  PROVE  Spec => StoreSpec
<1> DEFINE I == TypeOK /\ Sound /\ StoreInv /\ Unharmed
<1>1. Init => Store!Init /\ Pure
  BY StoreInit
<1>2. I /\ I' /\ Pure /\ [Next]_vars => Pure' /\ [Store!Next]_(Store!vars)
  <2> SUFFICES ASSUME I, I', Pure, [Next]_vars PROVE Pure' /\ (Store!Next \/ UNCHANGED Store!vars)
    OBVIOUS
  <2>1. /\ FormatBlank /\ Intact /\ Intact' /\ (cap > 0 => Wanted <= cap)
    BY DEF StoreInv, Unharmed, ShareKept, Wanted
  <2>2. Pure'
    BY <2>1, PureNext
  <2> QED BY <2>1, <2>2, StoreNext
<1>3. Spec => []I
  BY TypeCorrect, SoundAlways, UnharmedAlways, PTL
<1> QED BY <1>1, <1>2, <1>3, PTL DEF Spec, StoreSpec, Store!Spec

\* A chip that a format has prepared is never formatted again, the start-up check of
\* 54_usb_device_msc included, as long as nothing harms a move.
THEOREM FormatOnceAlways ==
  ASSUME FirstPageMarked, Undisturbed
  PROVE  Spec => FormatOnce
<1>1. TypeOK /\ Sound /\ Unharmed /\ TypeOK' /\ [Next]_vars
        => (cap > 0 => pc' # "fmtErase") \/ UNCHANGED vars
  <2> SUFFICES ASSUME TypeOK, Sound, Unharmed, TypeOK', Next, cap > 0 PROVE pc' # "fmtErase"
    BY DEF vars
  <2>1. pc \notin Formatting
    BY DEF Sound, Safe, FormatSafe
  <2>2. CASE Boot
    BY <2>2, BootFinds
  <2>3. CASE Running
    BY <2>3, RunningStays DEF Mounted, Formatting
  <2>4. CASE FmtErase \/ FmtMark \/ FmtMark2 \/ FmtErased \/ FmtTag \/ FmtTagged \/ PowerCut
    BY <2>1, <2>4 DEF FmtErase, FmtMark, FmtMark2, FmtErased, FmtTag, FmtTagged, PowerCut,
                      Formatting
  <2> QED BY <2>2, <2>3, <2>4 DEF Next, Step, Running, Working
<1> QED BY <1>1, TypeCorrect, SoundAlways, UnharmedAlways, PTL DEF Spec, FormatOnce

\* What ftl_write_sectors was given is on the chip when it returns 0, as long as nothing harms
\* a move.
THEOREM WriteToldAlways ==
  ASSUME FirstPageMarked, Undisturbed
  PROVE  Spec => []WriteTold
<1>1. TypeOK /\ Sound /\ StoreInv /\ Unharmed => WriteTold
  <2> SUFFICES ASSUME TypeOK, Sound, StoreInv, Intact, pc = "write", job.i >= job.len,
                      NEW k \in 1 .. job.len
               PROVE  Stored(job.sec + k - 1) = job.data[k]
    BY DEF WriteTold, Unharmed
  <2>1. Len(job.data) = job.len /\ job.sec \in Nat /\ job.len \in Nat
    BY DEF TypeOK, JobTypeOK, ControlOK, Jobs
  <2> DEFINE s == job.sec + k - 1
  <2>2. s \in job.sec .. job.sec + Len(job.data) - 1 /\ s - job.sec + 1 = k
    BY <2>1
  <2> HIDE DEF s
  <2>3. At(s) = job.data[s - job.sec + 1] /\ At(s) = Stored(s)
    BY <2>2, DoneWithin
  <2> QED BY <2>2, <2>3 DEF s
<1> QED BY <1>1, TypeCorrect, SoundAlways, UnharmedAlways, PTL
=============================================================================
