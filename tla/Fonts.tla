-------------------------------- MODULE Fonts --------------------------------
(***************************************************************************)
(* lib/text/fonts.c over bsp/nor.c: the font store in the NOR flash, and   *)
(* its neighbours there.                                                   *)
(*                                                                         *)
(* The chip holds a FatFs volume, the font store and an image store, one   *)
(* after the other (nor.h).  The font store is a descriptor and the fonts. *)
(* An update erases it block by block, copies the font files from a card   *)
(* in chunks, and writes the descriptor last; programs start it when       *)
(* fonts_init finds no valid descriptor or fonts_lvgl_ok an implausible    *)
(* one (the lvgl programs of app/freertos).  Between updates programs      *)
(* write sectors of the volume and images.  The power may go at any time.  *)
(***************************************************************************)
EXTENDS Nor, FiniteSets

CONSTANTS
  FontBase, ImageBase,   \* NOR_FONT_BASE, NOR_IMAGE_BASE
  NFonts,      \* FONT_GBK_NUM
  Xbf,         \* the fonts fonts_lvgl_ok looks at
  Chunk,       \* the size of a read: 4096
  Cards,       \* the sets of font files there are
  Start,       \* for each of them, where its fonts come to lie
  Valid,       \* fontok 0xAA with the right version
  Writes,      \* what other writers write: [addr, data]
  Reach,       \* the parts of a block an erase cut short may have reached
  MaxFault     \* bound: power cuts, and calls that fail

Font      == 1 .. NFonts
FirstFont == FontBase + NFonts + 1     \* FONTINFOADDR + sizeof(ftinfo)

ASSUME LayoutAssumption ==
  /\ {FontBase, ImageBase} \subseteq Nat \ {0}
  /\ FontBase % BlockSize = 0 /\ ImageBase % BlockSize = 0
  /\ FontBase < ImageBase /\ ImageBase <= DeviceSize
Entry     == [addr : Nat, size : Nat]  \* the place of a font, in the descriptor
Unit      == Byte \cup Entry

ASSUME FontAssumption ==
  /\ NFonts \in Nat \ {0} /\ Xbf \subseteq Font /\ Chunk \in Nat \ {0} /\ MaxFault \in Nat
  /\ NFonts < SectorSize                \* the descriptor is within a sector
  /\ Valid \in Byte \ {Blank} /\ \A b \in Byte : b \notin Entry
  /\ \A c \in Cards : c \in [Font -> Seq(Byte)]
\* The fonts follow each other, and fit: the code does not check that they do.
ASSUME StartAssumption ==
  \A c \in Cards :
    /\ Start[c] \in [Font -> Nat] /\ Start[c][1] = FirstFont
    /\ \A i \in Font : i > 1 => Start[c][i] = Start[c][i - 1] + Len(c[i - 1])
    /\ Start[c][NFonts] + Len(c[NFonts]) <= ImageBase
ASSUME WriteAssumption ==
  \A w \in Writes : /\ w \in [addr : Place, data : Seq(Byte)]
                    /\ w.addr + Len(w.data) <= DeviceSize
                    /\ w.addr + Len(w.data) <= FontBase \/ w.addr >= ImageBase

VARIABLES
  at,        \* where the program stands
  ftinfo,    \* the descriptor in RAM: fontok, and address and size of every font
  card,      \* the files an update copies
  total,     \* their sizes so far
  erase,     \* the local a of the erase loop
  fx, offx,  \* the font an update is at, and how much of it has been read
  bread,     \* how much the last read gave
  failed,    \* the last fonts_update_font failed, which its callers ignore
  half,      \* ghost: the erase of the first block was cut short and spared fontok
  faults     \* what has gone wrong so far

fontVars == <<at, ftinfo, card, total, erase, fx, offx, bread, failed, half, faults>>
vars     == <<flash, norVars, fontVars>>

NoCard == [i \in Font |-> << >>]

Reset ==
  /\ card' = NoCard /\ total' = 0 /\ erase' = 0 /\ fx' = 1 /\ offx' = 0 /\ bread' = 0

Init ==
  /\ NorInit
  /\ at = "off" /\ ftinfo = [ok |-> FALSE, field |-> [i \in Font |-> Blank]]
  /\ card = NoCard /\ total = 0 /\ erase = 0 /\ fx = 1 /\ offx = 0 /\ bread = 0
  /\ failed = FALSE /\ half = FALSE /\ faults = 0

(***************************************************************************)
(* Starting                                                                *)
(***************************************************************************)
\* The descriptor as fonts_init reads it.
Descriptor == [ok |-> flash[FontBase] = Valid, field |-> [i \in Font |-> flash[FontBase + i]]]

\* fonts_xbf_ok: the size, the address, and the header of the font there.
XbfOk(f) ==
  /\ f \in Entry
  /\ f.size # 0
  /\ FontBase <= f.addr /\ f.addr < ImageBase
  /\ flash[f.addr] # Blank

LvglOkAlways(info) == TRUE       \* a slip: the XBF fonts are not looked at

LvglOk(info) == \A i \in Xbf : XbfOk(info.field[i])

PowerOn ==
  /\ at = "off"
  /\ at' = "init"
  /\ UNCHANGED <<flash, norVars, ftinfo, card, total, erase, fx, offx, bread, failed, half, faults>>

\* A program starts: fonts_init, and an update if the store is not usable.
FontsInit ==
  /\ at = "init"
  /\ ftinfo' = Descriptor
  /\ at' = IF ftinfo'.ok /\ LvglOk(ftinfo') THEN "idle" ELSE "update"
  /\ UNCHANGED <<flash, norVars, card, total, erase, fx, offx, bread, failed, half, faults>>

\* Programs call fonts_init again after an update, and go on whatever it says.
FontsInitAgain ==
  /\ at = "again"
  /\ ftinfo' = Descriptor
  /\ at' = "idle"
  /\ UNCHANGED <<flash, norVars, card, total, erase, fx, offx, bread, failed, half, faults>>

(***************************************************************************)
(* fonts_update_font                                                       *)
(***************************************************************************)
\* KEY0 in 43_font: the fonts are to be refreshed.
Refresh ==
  /\ at = "idle"
  /\ at' = "update"
  /\ UNCHANGED <<flash, norVars, ftinfo, card, total, erase, fx, offx, bread, failed, half, faults>>

UpdateFont(c) ==
  /\ at = "update"
  /\ ftinfo' = [ftinfo EXCEPT !.ok = FALSE]
  /\ card' = c /\ failed' = FALSE
  /\ at' = "size"
  /\ UNCHANGED <<flash, norVars, total, erase, fx, offx, bread, half, faults>>

\* All files must be there; their sizes add up.
\* A slip: one file too many.
SizeFileOn ==
  /\ at = "size"
  /\ total' = total + Len(card[fx])
  /\ IF fx <= NFonts THEN fx' = fx + 1 /\ UNCHANGED <<at, erase>>
                     ELSE fx' = 1 /\ at' = "erase" /\ erase' = FontBase
  /\ UNCHANGED <<flash, norVars, ftinfo, card, offx, bread, failed, half, faults>>

SizeFile ==
  /\ at = "size"
  /\ total' = total + Len(card[fx])
  /\ IF fx < NFonts THEN fx' = fx + 1 /\ UNCHANGED <<at, erase>>
                    ELSE fx' = 1 /\ at' = "erase" /\ erase' = FontBase
  /\ UNCHANGED <<flash, norVars, ftinfo, card, offx, bread, failed, half, faults>>

EndNoHeader == FontBase + total     \* a slip: without the descriptor

End == FirstFont + total

\* A slip: the block at the end as well.
EraseLoopPast ==
  /\ at = "erase"
  /\ IF erase <= End
     THEN /\ flash' = Erased(flash, erase, BlockSize)
          /\ erase' = erase + BlockSize /\ half' = FALSE
          /\ UNCHANGED at
     ELSE at' = "open" /\ erase' = 0 /\ UNCHANGED <<flash, half>>
  /\ UNCHANGED <<norVars, ftinfo, card, total, fx, offx, bread, failed, faults>>

EraseLoop ==
  /\ at = "erase"
  /\ IF erase < End
     THEN /\ flash' = Erased(flash, erase, BlockSize)
          /\ erase' = erase + BlockSize /\ half' = FALSE
          /\ UNCHANGED at
     ELSE at' = "open" /\ erase' = 0 /\ UNCHANGED <<flash, half>>
  /\ UNCHANGED <<norVars, ftinfo, card, total, fx, offx, bread, failed, faults>>

\* fonts_update_fontx: the font goes after the one before.
OpenFont ==
  /\ at = "open"
  /\ LET addr == IF fx = 1 THEN FirstFont
                 ELSE ftinfo.field[fx - 1].addr + ftinfo.field[fx - 1].size
     IN ftinfo' = [ftinfo EXCEPT !.field[fx] = [addr |-> addr, size |-> Len(card[fx])]]
  /\ offx' = 0 /\ at' = "read"
  /\ UNCHANGED <<flash, norVars, card, total, erase, fx, bread, failed, half, faults>>

ReadChunk ==
  /\ at = "read"
  /\ bread' = Least(Chunk, Len(card[fx]) - offx)
  /\ CallWriteErased(ftinfo.field[fx].addr + offx, SubSeq(card[fx], offx + 1, offx + bread'))
  /\ offx' = offx + bread'
  /\ at' = "copy"
  /\ UNCHANGED <<ftinfo, card, total, erase, fx, failed, half, faults>>

\* A slip: the end is looked for in what has been read so far.
CopiedAligned ==
  /\ at = "copy" /\ nor = "done"
  /\ Return
  /\ IF offx % Chunk = 0 THEN at' = "read" /\ UNCHANGED <<fx, offx>>
     ELSE /\ offx' = 0
          /\ IF fx < NFonts THEN fx' = fx + 1 /\ at' = "open"
                            ELSE at' = "seal" /\ UNCHANGED fx
  /\ bread' = 0
  /\ UNCHANGED <<ftinfo, card, total, erase, failed, half, faults>>

\* A read that gives less than it was asked for was the last one.
Copied ==
  /\ at = "copy" /\ nor = "done"
  /\ Return
  /\ IF bread = Chunk THEN at' = "read" /\ UNCHANGED <<fx, offx>>
     ELSE /\ offx' = 0
          /\ IF fx < NFonts THEN fx' = fx + 1 /\ at' = "open"
                            ELSE at' = "seal" /\ UNCHANGED fx
  /\ bread' = 0
  /\ UNCHANGED <<ftinfo, card, total, erase, failed, half, faults>>

\* The descriptor is written when all fonts are there.
Seal ==
  /\ at = "seal"
  /\ ftinfo' = [ftinfo EXCEPT !.ok = TRUE]
  /\ CallWrite(FontBase, <<Valid>> \o ftinfo.field)
  /\ at' = "sealing"
  /\ UNCHANGED <<card, total, erase, fx, offx, bread, failed, half, faults>>

Sealed ==
  /\ at = "sealing" /\ nor = "done"
  /\ Return
  /\ Reset
  /\ at' = "again"
  /\ UNCHANGED <<ftinfo, failed, half, faults>>

\* No memory, no file, or a file that cannot be read: the update returns at once.
UpdateFails ==
  /\ at \in {"update", "size", "open", "read"} /\ faults < MaxFault
  /\ ftinfo' = [ftinfo EXCEPT !.ok = FALSE]
  /\ failed' = TRUE /\ faults' = faults + 1
  /\ Reset
  /\ at' = "again"
  /\ UNCHANGED <<flash, norVars, half>>

(***************************************************************************)
(* The neighbours, and the power                                           *)
(***************************************************************************)
\* A sector of the volume (diskio.c, usbd_storage_if.c) or a chunk of an image.
OtherWrite(w) ==
  /\ at = "idle"
  /\ CallWrite(w.addr, w.data)
  /\ at' = "other"
  /\ UNCHANGED <<ftinfo, card, total, erase, fx, offx, bread, failed, half, faults>>

OtherDone ==
  /\ at = "other" /\ nor = "done"
  /\ Return
  /\ at' = "idle"
  /\ UNCHANGED <<ftinfo, card, total, erase, fx, offx, bread, failed, half, faults>>

Drive == NorStep /\ UNCHANGED fontVars

Restart ==
  /\ at' = "off" /\ ftinfo' = [ok |-> FALSE, field |-> [i \in Font |-> Blank]]
  /\ failed' = FALSE
  /\ Reset

PowerCut ==
  /\ at # "off" /\ faults < MaxFault
  /\ NorCut
  /\ Restart
  /\ faults' = faults + 1
  /\ UNCHANGED half

\* The power goes during the erase of a block, which has reached some of it.
EraseCut ==
  /\ at = "erase" /\ erase < End /\ faults < MaxFault
  /\ \E S \in Reach :
       flash' = [p \in Place |-> IF p % BlockSize \in S THEN Erased(flash, erase, BlockSize)[p]
                                                       ELSE flash[p]]
  /\ half' = (flash'[FontBase] = Valid)
  /\ Restart
  /\ faults' = faults + 1
  /\ UNCHANGED norVars

Update == SizeFile \/ EraseLoop \/ OpenFont \/ ReadChunk \/ Copied \/ Seal \/ Sealed

Program ==
  \/ PowerOn \/ FontsInit \/ FontsInitAgain \/ Update \/ OtherDone \/ Drive
  \/ \E c \in Cards : UpdateFont(c)

Next ==
  \/ Program \/ Refresh \/ UpdateFails \/ PowerCut \/ EraseCut
  \/ \E w \in Writes : OtherWrite(w)

Spec == Init /\ [][Next]_vars

\* The program runs on, and the power comes back.
FairSpec == Spec /\ WF_vars(Program)

-----------------------------------------------------------------------------
\* Types; a write in progress ends on the chip, and a file is not read past its end.
TypeOK ==
  /\ flash \in [Place -> Unit]
  /\ nor \in {"idle", "sector", "erase", "page", "done"}
  /\ checks \in BOOLEAN
  /\ {rest, prog} \subseteq [addr : Nat, data : Seq(Unit)]
  /\ rest.addr + Len(rest.data) <= DeviceSize /\ prog.addr + Len(prog.data) <= DeviceSize
  /\ buf \in [InSector -> Unit] \cup {Nothing} /\ was \in [Place -> Unit] \cup {Nothing}
  /\ at \in {"off", "init", "again", "idle", "other", "update", "size", "erase", "open",
            "read", "copy", "seal", "sealing"}
  /\ ftinfo \in [ok : BOOLEAN, field : [Font -> Unit]]
  /\ card \in Cards \union {NoCard}
  /\ fx \in Font /\ offx \in 0 .. Len(card[fx]) /\ bread \in 0 .. Chunk
  /\ total \in Nat /\ erase \in Nat
  /\ failed \in BOOLEAN /\ half \in BOOLEAN /\ faults \in 0 .. MaxFault

\* Every byte of the fonts of a card is in its place.
InPlace(c) ==
  \A i \in Font : \A o \in 1 .. Len(c[i]) : flash[Start[c][i] + o - 1] = c[i][o]

\* A descriptor that says the fonts are there is not there before them, and not after
\* they are gone: a program that finds it finds all bytes of all fonts.  The code leaves
\* the old descriptor to the erase, and an erase cut short may spare it (half).
FontsWhole == flash[FontBase] = Valid /\ ~half => \E c \in Cards : InPlace(c)

\* Whatever was cut short before, a program that draws has a descriptor that is true of
\* the fonts it looks at, unless the update it has just called failed, or the erase spared
\* the descriptor.
DrawnRight ==
  (at \in {"idle", "other"} /\ ~failed /\ ~half) =>
    \E c \in Cards : /\ InPlace(c)
                     /\ \A i \in Xbf : ftinfo.field[i] = [addr |-> Start[c][i], size |-> Len(c[i])]

FontRegion == FontBase .. ImageBase - 1
Updating   == at \in {"update", "size", "erase", "open", "read", "copy", "seal", "sealing"}

\* An update, cut short or not, leaves the volume and the image store alone; and nobody
\* else touches the font store.
RegionKept ==
  [][IF Updating THEN \A p \in Place \ FontRegion : flash'[p] = flash[p]
                 ELSE \A p \in FontRegion : flash'[p] = flash[p]]_vars

\* A start comes to an end, with usable fonts or a failed update.
Starts == at = "init" ~> at \in {"idle", "off"}

\* The driver is a store of bytes: its writes change what they are to change and
\* nothing else, in whatever state the sectors are, and a power cut spoils no more than
\* the one sector that was being rewritten.
pendingWrite ==
  LET w == IF checks THEN rest ELSE prog
  IN [p \in w.addr .. w.addr + Len(w.data) - 1 |-> w.data[p - w.addr + 1]]

Bytes == INSTANCE ByteStore
           WITH store <- (IF was = Nothing THEN flash ELSE was), pending <- pendingWrite

StoreSpec == Bytes!Spec
=============================================================================
