------------------------------- MODULE FtlInv -------------------------------
(***************************************************************************)
(* Why the properties of the translation layer hold: the invariants that   *)
(* TLC checks together with them and FtlProof.tla proves them from.        *)
(***************************************************************************)
EXTENDS Ftl

\* Why NoLbnLost is kept by every step.  The numbers for which nothing is promised here:
Forsaken == adrift \cup {NoTag}

\* the table never leads to data on a marked block (after the first mark of a block it is
\* not used until it is made again), ...
TableSafe ==
  Mounted /\ pc \notin {"cpMark2", "rfMark2"} =>
    \A l \in Block : lut[l] \in Block /\ tag[lut[l]] \notin Forsaken => lut[l] \notin Bad

\* ... while a block is moved, its copy carries its number before the source is erased,
\* and a copy that is marked bad leaves the source untouched, ...
MoveSafe ==
  /\ pc \in {"cpFind"} \cup Copying /\ tag[cp.src] \notin Forsaken => cp.src \notin Bad
  /\ pc \in Copying /\ tag[cp.src] # NoTag => cp.dst # cp.src
  /\ pc \in Copying \ {"cpMark2"} /\ tag[cp.src] \notin Forsaken => cp.dst \notin Bad
  /\ pc = "cpPage" /\ cp.pg = 0 => tag[cp.dst] = NoTag
  /\ (pc = "cpPage" /\ cp.pg > 0) \/ pc \in {"cpUsed", "cpErase"} => tag[cp.dst] = tag[cp.src]
  /\ pc \in {"cpMark", "cpMark2"} => tag[cp.dst] \in {NoTag, tag[cp.src]}

\* ... a refreshed block is needed by no number that was handed out, ...
RefreshSafe ==
  pc \in Refreshing =>
    \A l \in (0 .. cap - 1) \ adrift : \E b \in Carriers(l, bad, tag) : b # cp.src

\* ... and a format hands out fewer numbers than there are blocks, after forgetting the
\* ones handed out before.
FormatSafe ==
  /\ \A b \in Block : tag[b] # Blocks - 1
  /\ pc = "fmtTag" => loop.n <= (good * FormatPercent) \div 100
  /\ pc \in Formatting => cap = 0
  /\ cap = 0 \/ cap >= MinBlocks

Safe == TableSafe /\ MoveSafe /\ RefreshSafe /\ FormatSafe /\ NoLbnLost

\* Why LutCoherent is kept: the table knows every carrier, ...
TableTrue ==
  Mounted =>
    \A l \in Block \ adrift :
      IF Carriers(l, bad, tag) = {} THEN lut[l] = NoBlock ELSE lut[l] \in Carriers(l, bad, tag)

\* ... one number at most leads to the block that is moved, none to the copy, and none to
\* the block that is refreshed.
MoveAlone ==
  /\ pc \in {"cpFind"} \cup Copying =>
       \A l \in Block \ adrift, m \in Block : lut[l] = cp.src /\ lut[m] = cp.src => m = l
  /\ pc \in Copying => \A l \in Block \ adrift : lut[l] # cp.dst
  /\ pc \in Refreshing => \A l \in Block \ adrift : lut[l] # cp.src

\* Why ReadBack is kept.  The logical blocks about which something is promised:
Kept == Block \ (torn \cup adrift)

\* two blocks never carry the number of one, but for the copy that is being made, ...
OneCarrier ==
  \A l \in Kept : \A b, c \in Carriers(l, bad, tag) :
    b = c \/ (pc \in Copying /\ {b, c} = {cp.src, cp.dst})

\* ... since a format erases every number, or gives it up, before it writes new ones, ...
FormatFresh ==
  pc = "fmtTag" =>
    \A b \in Block \ Bad :
      tag[b] \in torn \cup {NoTag} \/ (b < loop.i /\ tag[b] < loop.n)

\* ... and a move carries no other such number than the one it is made for.
OwnTag ==
  pc \in {"cpFind"} \cup Copying =>
    /\ tag[cp.src] \notin Kept \ {HereLbn}
    /\ HereLbn \notin adrift => tag[cp.src] = HereLbn

\* What a sector has to hold: what a write in progress has put there, or what was
\* acknowledged ...
Due(s) == IF job.kind = "write" /\ s - job.sec \in 0 .. job.i - 1
          THEN job.data[s - job.sec + 1] ELSE acked[s]

\* ... is on a block that carries the number, and the table leads there.
Held ==
  \A s \in Sector :
    Due(s) # NoPromise /\ Lbn(s) \in Kept =>
      \E b \in Carriers(Lbn(s), bad, tag) :
        /\ main[b][CellOf(s)] = Due(s)
        /\ pc \in Copying => b # cp.dst
        /\ Mounted => lut[Lbn(s)] = b

\* Nothing is promised about the sectors of a write before its end, and nothing while
\* the chip is formatted.
AckedOK ==
  /\ acked \in [Sector -> Datum \cup {NoPromise}]
  /\ job.kind = "write" =>
       \A s \in Sector : s - job.sec \in 0 .. job.len - 1 => acked[s] = NoPromise
  /\ pc \in {"off", "ready", "read"} \cup Formatting \cup Refreshing => job.kind # "write"
  /\ pc \in Formatting => \A s \in Sector : acked[s] = NoPromise

\* A sector programmed in place holds its data before the block is marked used.
Programmed ==
  pc = "wrUsed" =>
    \A k \in 0 .. InPage - 1 : main[HereBlk][HereCell + k] = job.data[job.i + 1 + k]

\* What the copy of a block has to hold, and the sector at which the new data not yet
\* written begin.
Moved(k) == IF job.kind = "write" /\ k - HereCell \in 0 .. job.w - 1
            THEN job.data[job.i + 1 + k - HereCell] ELSE main[cp.src][k]
From     == IF pc = "cpPage" /\ cp.pg > cp.page THEN cp.pg * PageSectors ELSE HereCell

\* The new data end with the block; the pages copied hold what they have to, the others
\* are erased, and what is left of the new data is what belongs there.
CopyTrue ==
  /\ pc \in {"cpFind"} \cup Copying => HereCell + job.w <= BlockSectors
  /\ pc \in {"cpFind", "cpPage", "cpMark", "cpMark2"} /\ HereLbn \in Kept =>
       /\ cp.page = PageOf(HereCell)
       /\ Len(cp.buf) > 0 => cp.col = From % PageSectors
       /\ Len(cp.buf) = IF From < HereCell + job.w THEN HereCell + job.w - From ELSE 0
       /\ \A j \in 1 .. Len(cp.buf) : cp.buf[j] = Moved(From + j - 1)
  /\ pc = "cpPage" /\ HereLbn \in Kept =>
       \A k \in Cell : main[cp.dst][k] = IF PageOf(k) < cp.pg THEN Moved(k) ELSE Blank
  /\ pc \in {"cpUsed", "cpErase"} /\ HereLbn \in Kept =>
       \A k \in Cell : main[cp.dst][k] = Moved(k)

\* The inductive invariant.
Sound ==
  /\ Safe /\ TableTrue /\ MoveAlone
  /\ OneCarrier /\ FormatFresh /\ OwnTag
  /\ AckedOK /\ Programmed /\ CopyTrue /\ Held

-----------------------------------------------------------------------------
\* Why StoreStep holds.  The blocks a start wants to find, and whether it finds them:
Wanted ==
  LET share == (Cardinality(Block \ Bad) * CheckPercent) \div 100
  IN IF share <= MinBlocks THEN MinBlocks ELSE share

Accepted == \A l \in 0 .. Wanted - 1 : l \in Block /\ Carriers(l, bad, tag) # {}

\* A block that carries a number is blank, or its number is given up.
Clean == \A b \in Block \ Bad : tag[b] \in torn \cup {NoTag} \/ main[b] = Erased

\* A chip that is accepted though no format has ended is blank, ...
FormatBlank ==
  /\ cap = 0 /\ pc \in {"off", "fmtErase", "fmtMark", "fmtMark2"} =>
       ~Accepted \/ (pc = "off" /\ Clean)
  /\ pc = "fmtTag" => Clean
  /\ Mounted => cap > 0

\* ... the store ends where the last format, or the start after it, found the first
\* number missing, ...
StoreEnds ==
  cap > 0 => /\ cap \in Block
             /\ cap \notin adrift => Carriers(cap, bad, tag) = {}
             /\ Mounted /\ adrift = {} => valid = cap

\* ... and a write has not passed the end, nor does a block move that lies behind it.
RequestWithin ==
  adrift = {} =>
    /\ job.kind = "write" /\ job.i > 0 => Lbn(Here - 1) < cap
    /\ pc \in {"wrUsed", "cpFind"} \cup Copying => HereLbn < cap

StoreInv == FormatBlank /\ StoreEnds /\ RequestWithin

-----------------------------------------------------------------------------
\* Why StoreSpec holds, on a chip whose commands do not time out and whose power is not
\* cut while a block is moved or refreshed.  What the manufacturer left good, up to i, and
\* the blocks a format hands out:
FactoryBad   == FactoryBad0 \cup FactoryBad1
GoodBelow(i) == Cardinality({b \in Block \ FactoryBad : b < i})
Quota        == (GoodBelow(Blocks) * FormatPercent) \div 100

\* No block is ever marked, ...
NoneMarked ==
  /\ bad = [p \in {0, 1} |-> IF p = 0 THEN FactoryBad0 ELSE FactoryBad1]
  /\ pc \notin {"fmtMark", "fmtMark2", "cpMark", "cpMark2", "rfMark", "rfMark2"}
  /\ pc \in Refreshing => cp.src \notin FactoryBad

\* ... a format hands out its share, lowest blocks first, and a start finds it again, ...
ShareKept ==
  /\ pc = "fmtErase" => /\ good = GoodBelow(loop.i)
                        /\ \A b \in Block \ FactoryBad : b < loop.i => tag[b] = NoTag
  /\ pc = "fmtTag" => good = GoodBelow(Blocks) /\ loop.n = GoodBelow(loop.i)
  /\ pc = "fmtTag" => \A l \in 0 .. loop.n - 1 : Carriers(l, bad, tag) # {}
  /\ cap = 0 => \A b \in Block : tag[b] # NoTag => GoodBelow(b) < Quota
  /\ cap > 0 => cap >= Wanted

\* ... in each plane there is an unused block, or the one that is being written, ...
SpareKept ==
  /\ cap > 0 => \A plane \in {0, 1} : \E b \in Block :
       b % 2 = plane /\ (Unused(b) \/ (pc \in Copying /\ b = cp.dst))
  /\ pc \in Copying => cp.dst % 2 = cp.src % 2

\* ... and unused blocks are erased, but for the one that is refreshed.
UnusedErased ==
  /\ \A b \in used : tag[b] # NoTag
  /\ \A b \in Block : Unused(b) =>
       main[b] = Erased \/ (pc \in {"rfZero", "rfFill", "rfErase"} /\ b = cp.src)
  /\ pc = "rfBlank" => loop.i = 0 /\ main[cp.src] = Erased
  /\ pc = "rfZero" => \/ loop.i = 0 /\ main[cp.src] = Erased
                      \/ loop.i = 1 /\ FirstPageIs(cp.src, Zero)
  /\ pc = "rfFill" => loop.i = 0 /\ IF loop.n = 0 THEN main[cp.src] = Erased
                                     ELSE FirstPageIs(cp.src, Zero)
  /\ pc = "rfErase" => ~loop.fail

Unharmed == Intact /\ NoneMarked /\ ShareKept /\ SpareKept /\ UnusedErased
=============================================================================
