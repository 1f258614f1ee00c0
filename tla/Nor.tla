--------------------------------- MODULE Nor ---------------------------------
(***************************************************************************)
(* bsp/nor.c: the driver of the SPI NOR flash, over the commands of the    *)
(* chip.                                                                   *)
(*                                                                         *)
(* The chip can clear bits of a byte, one page at a time, and set them     *)
(* only by erasing a whole sector or block.  nor_write reads the sector    *)
(* into g_nor_buf and, if a byte it is to change is not blank, erases the  *)
(* sector and programs all of it again.  Every command to the chip is a    *)
(* step, so that the power can go between any two, or while a page is      *)
(* being programmed or a sector erased.                                    *)
(*                                                                         *)
(* The driver has one caller at a time, which waits for the call to end;   *)
(* who calls what is for the module that uses this one to say.             *)
(***************************************************************************)
EXTENDS Integers, Sequences

CONSTANTS
  PageSize,      \* NOR_PAGE_SIZE_BYTE
  SectorSize,    \* NOR_SECTOR_SIZE_BYTE
  BlockSize,     \* 64 KB
  DeviceSize,    \* NOR_DEVICE_SIZE_BYTE
  Byte,          \* what a place of the array can hold, ...
  Blank, Mixed   \* ... 0xFF among it, and bits cleared by two programs

ASSUME GeometryAssumption ==
  /\ {PageSize, SectorSize, BlockSize, DeviceSize} \subseteq Nat \ {0}
  /\ SectorSize % PageSize = 0 /\ BlockSize % SectorSize = 0 /\ DeviceSize % BlockSize = 0
ASSUME BlankAssumption == {Blank, Mixed} \subseteq Byte

VARIABLES
  flash,     \* the chip's array
  buf,       \* g_nor_buf, as long as it matters: it is always read again before use
  nor,       \* where the driver stands
  rest,      \* what nor_write still has to write: [addr, data]
  prog,      \* what nor_write_nocheck still has to program: [addr, data]
  checks,    \* the call is nor_write, not nor_write_erased
  was        \* ghost: the array before nor_write erased the sector it is at

norVars == <<buf, nor, rest, prog, checks, was>>

Place     == 0 .. DeviceSize - 1
InSector  == 0 .. SectorSize - 1
NoData    == [addr |-> 0, data |-> << >>]
Nothing   == << >>
Least(m, n) == IF m <= n THEN m ELSE n

\* Bits can only be cleared.
And(old, new) == IF old = Blank \/ old = new THEN new
                 ELSE IF new = Blank THEN old ELSE Mixed

\* Page program: the address wraps at the end of the page.
Programmed(f, addr, data) ==
  LET Nth(p) == ((p - addr) % PageSize) + 1
  IN [p \in Place |-> IF p \div PageSize = addr \div PageSize /\ Nth(p) <= Len(data)
                      THEN And(f[p], data[Nth(p)]) ELSE f[p]]

\* Erase of the sector or block of the given size that holds addr.
Erased(f, addr, size) ==
  [p \in Place |-> IF p \div size = addr \div size THEN Blank ELSE f[p]]

Clip(addr, data) == SubSeq(data, 1, Least(Len(data), DeviceSize - addr))

Dropped(d, n) == [addr |-> d.addr + n, data |-> SubSeq(d.data, n + 1, Len(d.data))]

NorInit ==
  /\ flash = [p \in Place |-> Blank]
  /\ buf = Nothing /\ was = Nothing
  /\ nor = "idle" /\ rest = NoData /\ prog = NoData /\ checks = FALSE

\* Entering nor_write and nor_write_erased.
CallWrite(addr, data) ==
  /\ nor' = IF addr >= DeviceSize THEN "done" ELSE "sector"
  /\ rest' = [addr |-> addr, data |-> Clip(addr, data)]
  /\ checks' = TRUE
  /\ UNCHANGED <<flash, buf, prog, was>>

CallWriteErased(addr, data) ==
  /\ nor' = IF addr >= DeviceSize THEN "done" ELSE "page"
  /\ prog' = [addr |-> addr, data |-> Clip(addr, data)]
  /\ checks' = FALSE
  /\ UNCHANGED <<flash, buf, rest, was>>

Return ==
  /\ nor' = "idle" /\ rest' = NoData /\ prog' = NoData /\ checks' = FALSE
  /\ UNCHANGED <<flash, buf, was>>

\* secoff and secremain of the sector nor_write is at.
Off      == rest.addr % SectorSize
Share    == Least(SectorSize - Off, Len(rest.data))
SectorAt == rest.addr - Off

\* nor_write reads the sector, and looks at the bytes it is to change.
LookSector ==
  /\ nor = "sector"
  /\ IF \E p \in rest.addr .. rest.addr + Share - 1 : flash[p] # Blank
     THEN /\ nor' = "erase"
          /\ buf' = [i \in InSector |-> flash[SectorAt + i]]
          /\ UNCHANGED prog
     ELSE /\ nor' = "page"
          /\ prog' = [addr |-> rest.addr, data |-> SubSeq(rest.data, 1, Share)]
          /\ UNCHANGED buf
  /\ UNCHANGED <<flash, rest, checks, was>>

\* It erases the sector, and merges the new bytes with the old ones around them.
EraseSector ==
  /\ nor = "erase"
  /\ flash' = Erased(flash, SectorAt, SectorSize)
  /\ prog' = [addr |-> SectorAt,
              data |-> [n \in 1 .. SectorSize |-> IF n - 1 \in Off .. Off + Share - 1
                                                  THEN rest.data[n - Off] ELSE buf[n - 1]]]
  /\ nor' = "page" /\ buf' = Nothing /\ was' = flash
  /\ UNCHANGED <<rest, checks>>

PageRemainAll == Len(prog.data)     \* a slip: pages are not minded

\* A turn of nor_write_nocheck; after the last one nor_write goes on with the next
\* sector.
PageRemain == Least(PageSize - (prog.addr % PageSize), Len(prog.data))

ProgramPage ==
  /\ nor = "page"
  /\ flash' = Programmed(flash, prog.addr, SubSeq(prog.data, 1, PageRemain))
  /\ IF PageRemain < Len(prog.data)
     THEN prog' = Dropped(prog, PageRemain) /\ UNCHANGED <<nor, rest, was>>
     ELSE /\ prog' = NoData /\ was' = Nothing
          /\ IF checks /\ Share < Len(rest.data)
             THEN nor' = "sector" /\ rest' = Dropped(rest, Share)
             ELSE nor' = "done" /\ UNCHANGED rest
  /\ UNCHANGED <<buf, checks>>

NorStep == LookSector \/ EraseSector \/ ProgramPage

\* The power goes.  A page program or a sector erase that was under way has reached
\* some of its bytes.
CutShort(after) ==
  \E S \in SUBSET {p \in Place : after[p] # flash[p]} :
    flash' = [p \in Place |-> IF p \in S THEN after[p] ELSE flash[p]]

NorCut ==
  /\ CASE nor = "page"  -> CutShort(Programmed(flash, prog.addr, SubSeq(prog.data, 1, PageRemain)))
       [] nor = "erase" -> CutShort(Erased(flash, SectorAt, SectorSize))
       [] OTHER         -> UNCHANGED flash
  /\ nor' = "idle" /\ rest' = NoData /\ prog' = NoData /\ checks' = FALSE
  /\ buf' = Nothing /\ was' = Nothing
=============================================================================
