----------------------------- MODULE FontsProof -----------------------------
(***************************************************************************)
(* What the run of the font store checks on a small chip, proved for every *)
(* geometry, every set of cards, every other writer and any number of      *)
(* faults: its safety, and that the driver is a store of bytes.            *)
(***************************************************************************)
EXTENDS Fonts, SequenceTheorems, FiniteSetTheorems, WellFoundedInduction, TLAPS

-----------------------------------------------------------------------------
(* The driver.                                                             *)

\* The conjuncts of TypeOK about the chip and the driver.
NorType ==
  /\ flash \in [Place -> Unit]
  /\ nor \in {"idle", "sector", "erase", "page", "done"}
  /\ checks \in BOOLEAN
  /\ {rest, prog} \subseteq [addr : Nat, data : Seq(Unit)]
  /\ rest.addr + Len(rest.data) <= DeviceSize /\ prog.addr + Len(prog.data) <= DeviceSize
  /\ buf \in [InSector -> Unit] \cup {Nothing} /\ was \in [Place -> Unit] \cup {Nothing}

\* The stretch nor_write_nocheck has been called for: the part of the sector that
\* changes or, once the sector has been erased, all of it.
Lo == IF was = Nothing THEN rest.addr ELSE SectorAt
Hi == IF was = Nothing THEN rest.addr + Share ELSE SectorAt + SectorSize

\* What a place of it is to hold.
Want(p) == IF p \in rest.addr .. rest.addr + Share - 1 THEN rest.data[p - rest.addr + 1]
           ELSE IF was = Nothing THEN flash[p] ELSE was[p]

\* Everything from lo up to hi is erased.
BlankFrom(lo, hi) == \A p \in Place : lo <= p /\ p < hi => flash[p] = Blank

\* The stretch is programmed up to prog, and blank from there on.
Paging ==
  /\ Lo <= prog.addr /\ prog.addr + Len(prog.data) = Hi
  /\ \A k \in 1 .. Len(prog.data) : prog.data[k] = Want(prog.addr + k - 1)
  /\ \A p \in Place : Lo <= p /\ p < prog.addr => flash[p] = Want(p)
  /\ BlankFrom(prog.addr, Hi)
  /\ was # Nothing => /\ rest.data # << >>
                      /\ \A p \in Place : p < Lo \/ Hi <= p => flash[p] = was[p]

\* What the driver relies on where it stands, and what a call has done when it ends.
DriverOK ==
  /\ nor = "idle" => rest = NoData /\ prog = NoData /\ ~checks
  /\ ~checks => was = Nothing /\ nor \in {"idle", "page", "done"} /\ rest = NoData
  /\ nor # "page" => was = Nothing /\ prog.data = << >>
  /\ nor = "erase" => /\ rest.data # << >>
                      /\ buf = [i \in InSector |-> flash[SectorAt + i]]
  /\ nor = "page" /\ checks => Paging
  /\ nor = "page" /\ ~checks => BlankFrom(prog.addr, prog.addr + Len(prog.data))
  /\ nor = "done" /\ checks =>
       \A k \in 1 .. Len(rest.data) : flash[rest.addr + k - 1] = rest.data[k]

-----------------------------------------------------------------------------
(* The font store.                                                         *)

\* The entry of a font, the end of a set, and the bytes of a font that are in place.
Field(c, i)     == [addr |-> Start[c][i], size |-> Len(c[i])]
EndOf(c)        == Start[c][NFonts] + Len(c[NFonts])
FontAt(c, i, n) == \A o \in 1 .. n : flash[Start[c][i] + o - 1] = c[i][o]
FieldsAre(c)    == \A i \in Font : ftinfo.field[i] = Field(c, i)

\* Where a program waits for the driver, copies a font, and is inside an update.
Calls   == {"copy", "sealing", "other"}
Filling == {"open", "read", "copy"}
Busy    == {"size", "erase", "seal", "sealing"} \cup Filling

\* What a start may find: no descriptor, or one whose fonts are there, though some of
\* its own fields may not be.
DescriptorTrue ==
  flash[FontBase] = Valid /\ ~half =>
    \E c \in Cards : InPlace(c) /\ \A i \in Font : flash[FontBase + i] \in {Blank, Field(c, i)}

\* What a complete update leaves.
DescriptorFull ==
  /\ flash[FontBase] = Valid
  /\ \E c \in Cards : InPlace(c) /\ \A i \in Font : flash[FontBase + i] = Field(c, i)

\* The locals of an update, outside it and in its stages.
Locals ==
  /\ nor = "idle" <=> at \notin Calls
  /\ at \in Calls => (checks <=> at # "copy")
  /\ at \notin Busy => card = NoCard /\ total = 0 /\ erase = 0 /\ fx = 1 /\ offx = 0 /\ bread = 0
  /\ at \in Busy => card \in Cards
  /\ at \in {"size", "erase", "open", "seal", "sealing"} => offx = 0
  /\ at = "size" => total = Start[card][fx] - FirstFont
  /\ at \in {"erase"} \cup Filling => total = EndOf(card) - FirstFont
  /\ at = "erase" => fx = 1 /\ erase % BlockSize = 0 /\ erase \in FontBase .. ImageBase
  /\ at = "copy" => bread = Chunk \/ offx = Len(card[fx])
  /\ at \in {"seal", "sealing"} => fx = NFonts

\* How far the copying has come.
Filled ==
  at \in Filling =>
    /\ \A i \in Font : i < fx => FontAt(card, i, Len(card[i])) /\ ftinfo.field[i] = Field(card, i)
    /\ at # "open" => ftinfo.field[fx] = Field(card, fx)
    /\ Len(prog.data) <= offx
    /\ FontAt(card, fx, offx - Len(prog.data))
    /\ BlankFrom(Start[card][fx] + offx - Len(prog.data), EndOf(card))
    /\ BlankFrom(FontBase, FirstFont)
    /\ at = "copy" /\ prog.data # << >> =>
         /\ prog.addr + Len(prog.data) = Start[card][fx] + offx
         /\ \A k \in 1 .. Len(prog.data) : prog.data[k] = card[fx][offx - Len(prog.data) + k]

\* The descriptor is written when all fonts are there, to places that are erased.
Sealing ==
  /\ at \in {"seal", "sealing"} => InPlace(card) /\ FieldsAre(card)
  /\ at = "seal" => BlankFrom(FontBase, FirstFont)
  /\ at = "sealing" =>
       /\ rest.addr = FontBase /\ Len(rest.data) = NFonts + 1 /\ rest.data[1] = Valid
       /\ \A i \in Font : rest.data[i + 1] = Field(card, i)
       /\ nor \in {"sector", "page", "done"} /\ was = Nothing
       /\ nor = "sector" => BlankFrom(FontBase, FirstFont)

\* What the store holds between the stages of an update, and outside it.
Store ==
  /\ at \notin {"erase", "seal", "sealing"} \cup Filling => DescriptorTrue
  /\ at = "erase" => BlankFrom(FontBase, erase) /\ (erase = FontBase => DescriptorTrue)
  /\ at = "again" /\ ~failed => DescriptorFull
  /\ at = "other" => rest.addr + Len(rest.data) <= FontBase \/ ImageBase <= rest.addr

\* The inductive invariant.
IInv == TypeOK /\ DriverOK /\ Locals /\ Filled /\ Sealing /\ Store /\ DrawnRight

-----------------------------------------------------------------------------
(* Pages, sectors and blocks.                                              *)

\* Division with a remainder.
LEMMA DivMod ==
  ASSUME NEW n \in Nat \ {0}, NEW x \in Int
  PROVE  /\ x = n * (x \div n) + (x % n)
         /\ x \div n \in Int /\ x % n \in 0 .. n - 1
         /\ x \in Nat => x \div n \in Nat
OBVIOUS

\* There is one quotient and one remainder.
LEMMA DivUnique ==
  ASSUME NEW n \in Nat \ {0}, NEW x \in Int, NEW q \in Int, NEW r \in 0 .. n - 1,
         x = n * q + r
  PROVE  x \div n = q /\ x % n = r
<1> DEFINE d == x \div n
           m == x % n
<1>1. d \in Int /\ m \in 0 .. n - 1 /\ x = n * d + m
  BY DivMod
<1> HIDE DEF d, m
<1>2. n * (d - q) = r - m
  BY <1>1
<1>3. d - q \in Int /\ r - m < n /\ r - m > -n
  BY <1>1
<1>4. ~(d - q >= 1)
  <2>1. d - q >= 1 => n * (d - q) >= n
    BY <1>3
  <2> QED BY <1>2, <1>3, <2>1
<1>5. ~(d - q <= -1)
  <2>1. d - q <= -1 => n * (d - q) <= -n
    BY <1>3
  <2> QED BY <1>2, <1>3, <2>1
<1>6. d = q
  BY <1>1, <1>3, <1>4, <1>5
<1> QED BY <1>1, <1>6 DEF d, m

\* A multiple of a multiple.
LEMMA MultipleOfMultiple ==
  ASSUME NEW c \in Nat \ {0}, NEW b \in Nat \ {0}, NEW a \in Int, a % b = 0, b % c = 0
  PROVE  a % c = 0
<1> DEFINE k == a \div b
           m == b \div c
<1>1. k \in Int /\ m \in Int /\ a = b * k /\ b = c * m
  BY DivMod
<1> HIDE DEF k, m
<1>2. a = c * (m * k) + 0 /\ m * k \in Int
  BY <1>1
<1>3. \A q \in Int : a = c * q + 0 => a % c = 0
  <2>1. 0 \in 0 .. c - 1
    OBVIOUS
  <2> QED BY <2>1, DivUnique
<1> DEFINE j == m * k
<1>4. a = c * j + 0 /\ j \in Int
  BY <1>2
<1> HIDE DEF j
<1> QED BY <1>3, <1>4

\* Multiples are that far apart, or more.
LEMMA NextMultiple ==
  ASSUME NEW n \in Nat \ {0}, NEW a \in Int, NEW b \in Int, a % n = 0, b % n = 0
  PROVE  /\ a < b => a + n <= b
         /\ (a + n) % n = 0
<1> DEFINE k == a \div n
           m == b \div n
<1>1. k \in Int /\ m \in Int /\ a = n * k /\ b = n * m
  BY DivMod
<1> HIDE DEF k, m
<1>2. a + n = n * (k + 1) + 0
  BY <1>1
<1>3. ASSUME a < b PROVE a + n <= b
  <2>1. k < m
    <3>1. m <= k => n * m <= n * k
      BY <1>1
    <3> QED BY <1>1, <1>3, <3>1
  <2>2. n * (k + 1) <= n * m
    BY <1>1, <2>1
  <2> QED BY <1>1, <1>2, <2>2
<1>4. (a + n) % n = 0
  BY <1>1, <1>2, DivUnique
<1> QED BY <1>3, <1>4

\* A block begins at a multiple of its size and is as long as that.
LEMMA SameBlock ==
  ASSUME NEW n \in Nat \ {0}, NEW a \in Nat, NEW p \in Nat, a % n = 0
  PROVE  (p \div n = a \div n) <=> (a <= p /\ p < a + n)
<1> DEFINE k == a \div n
           m == p \div n
           r == p % n
<1>1. k \in Nat /\ m \in Nat /\ r \in 0 .. n - 1 /\ a = n * k /\ p = n * m + r
  BY DivMod
<1>0. \A i \in 0 .. n - 1 : p = n * k + i => m = k
  <2>1. k \in Int /\ p \in Int
    BY <1>1
  <2> HIDE DEF k
  <2> QED BY <2>1, DivUnique
<1> HIDE DEF k, m, r
<1>2. ASSUME a <= p, p < a + n PROVE m = k
  <2>1. p = n * k + (p - a) /\ p - a \in 0 .. n - 1
    BY <1>1, <1>2
  <2> QED BY <1>0, <2>1
<1>3. ASSUME m = k PROVE a <= p /\ p < a + n
  BY <1>1, <1>3
<1> QED BY <1>2, <1>3 DEF k, m

\* The areas begin where a sector begins, which is where a page begins.
LEMMA Areas ==
  /\ FontBase \in Nat /\ ImageBase \in Nat /\ DeviceSize \in Nat /\ FontBase < ImageBase
  /\ ImageBase <= DeviceSize
  /\ FontBase % SectorSize = 0 /\ ImageBase % SectorSize = 0 /\ DeviceSize % SectorSize = 0
<1> USE GeometryAssumption, LayoutAssumption
<1>1. FontBase % SectorSize = 0
  BY MultipleOfMultiple
<1>2. ImageBase % SectorSize = 0
  BY MultipleOfMultiple
<1>3. DeviceSize % SectorSize = 0
  BY MultipleOfMultiple
<1> QED BY <1>1, <1>2, <1>3

\* The addresses that wrap within a page are those of the stretch, if it is on the page.
LEMMA WithinPage ==
  ASSUME NEW n \in Nat \ {0}, NEW a \in Nat, NEW p \in Nat, NEW len \in Nat,
         len <= n - (a % n)
  PROVE  /\ (p \div n = a \div n /\ ((p - a) % n) + 1 <= len) <=> (a <= p /\ p < a + len)
         /\ (a <= p /\ p < a + len) => ((p - a) % n) + 1 = p - a + 1
<1> DEFINE q == a \div n
           s == a % n
           m == p \div n
           r == p % n
           d == (p - a) % n
<1>0. a \in Int /\ p \in Int /\ p - a \in Int
  OBVIOUS
<1>1. q \in Nat /\ s \in 0 .. n - 1 /\ a = n * q + s
  BY <1>0, DivMod, Zenon
<1>2. m \in Nat /\ r \in 0 .. n - 1 /\ p = n * m + r
  BY <1>0, DivMod, Zenon
<1>3. d \in 0 .. n - 1
  BY <1>0, DivMod, Zenon
<1>4. len <= n - s
  OBVIOUS
<1>5. \A i \in 0 .. n - 1 : p - a = n * 0 + i => d = i
  BY DivUnique
<1>6. \A i \in 0 .. n - 1 : p - a = n * (-1) + i => d = i
  BY DivUnique
<1>7. \A i \in 0 .. n - 1 : p = n * q + i => m = q
  <2>1. q \in Int
    BY <1>1
  <2> HIDE DEF q
  <2> QED BY <1>0, <2>1, DivUnique
<1> HIDE DEF q, s, m, r, d
<1>8. ASSUME a <= p, p < a + len PROVE m = q /\ d = p - a
  <2>1. s + (p - a) \in 0 .. n - 1 /\ p = n * q + (s + (p - a))
    BY <1>1, <1>4, <1>8
  <2>2. p - a \in 0 .. n - 1 /\ p - a = n * 0 + (p - a)
    BY <1>1, <1>8, <2>1
  <2> QED BY <1>5, <1>7, <2>1, <2>2
<1>9. ASSUME m = q, d + 1 <= len PROVE a <= p /\ p < a + len
  <2>1. p - a = r - s
    BY <1>1, <1>2, <1>9
  <2>2. ~(r < s)
    <3> SUFFICES ASSUME r < s PROVE FALSE
      OBVIOUS
    <3>1. r - s + n \in 0 .. n - 1 /\ p - a = n * (-1) + (r - s + n)
      BY <1>1, <1>2, <2>1
    <3>2. d = r - s + n
      BY <1>6, <3>1
    <3> QED BY <1>1, <1>2, <1>4, <1>9, <3>2
  <2>3. r - s \in 0 .. n - 1 /\ p - a = n * 0 + (r - s)
    BY <1>1, <1>2, <2>1, <2>2
  <2>4. d = r - s
    BY <1>5, <2>3
  <2> QED BY <1>9, <2>1, <2>3, <2>4
<1> QED BY <1>1, <1>2, <1>3, <1>8, <1>9 DEF q, m, d

\* nor_write_page, given no more than what is left of the page, programs a stretch.
LEMMA ProgrammedIs ==
  ASSUME NEW f \in [Place -> Unit], NEW addr \in Nat, NEW data \in Seq(Unit),
         Len(data) <= PageSize - (addr % PageSize),
         \A p \in Place : addr <= p /\ p < addr + Len(data) => f[p] = Blank
  PROVE  \A p \in Place :
           Programmed(f, addr, data)[p] =
             IF addr <= p /\ p < addr + Len(data) THEN data[p - addr + 1] ELSE f[p]
<1>1. Len(data) \in Nat /\ PageSize \in Nat \ {0}
  BY LenProperties, GeometryAssumption
<1> SUFFICES ASSUME NEW p \in Place
             PROVE  Programmed(f, addr, data)[p] =
                      IF addr <= p /\ p < addr + Len(data) THEN data[p - addr + 1] ELSE f[p]
  OBVIOUS
<1> DEFINE n == ((p - addr) % PageSize) + 1
           on == p \div PageSize = addr \div PageSize /\ n <= Len(data)
<1>2. p \in Nat
  BY DEF Place
<1>3. /\ on <=> (addr <= p /\ p < addr + Len(data))
      /\ (addr <= p /\ p < addr + Len(data)) => n = p - addr + 1
  BY <1>1, <1>2, WithinPage
<1>4. Programmed(f, addr, data)[p] = IF on THEN And(f[p], data[n]) ELSE f[p]
  BY DEF Programmed
<1> HIDE DEF n, on
<1> QED BY <1>3, <1>4 DEF And

-----------------------------------------------------------------------------
(* The driver by itself: what the program does between its commands.       *)

\* The part of a list from one place on, or up to one.
LEMMA Parts ==
  ASSUME NEW S, NEW d \in Seq(S), NEW n \in 0 .. Len(d)
  PROVE  /\ SubSeq(d, 1, n) \in Seq(S) /\ Len(SubSeq(d, 1, n)) = n
         /\ \A k \in 1 .. n : SubSeq(d, 1, n)[k] = d[k]
         /\ SubSeq(d, n + 1, Len(d)) \in Seq(S) /\ Len(SubSeq(d, n + 1, Len(d))) = Len(d) - n
         /\ \A k \in 1 .. Len(d) - n : SubSeq(d, n + 1, Len(d))[k] = d[n + k]
<1>1. Len(d) \in Nat /\ \A i \in 1 .. Len(d) : d[i] \in S
  BY LenProperties, ElementOfSeq
<1>2. \A i \in 1 .. n : d[i] \in S
  BY <1>1
<1>3. \A i \in n + 1 .. Len(d) : d[i] \in S
  BY <1>1
<1>4. 1 \in Int /\ n \in Int /\ n + 1 \in Int /\ Len(d) \in Int
  BY <1>1
<1>5. /\ SubSeq(d, 1, n) \in Seq(S)
      /\ Len(SubSeq(d, 1, n)) = IF 1 <= n THEN n - 1 + 1 ELSE 0
      /\ \A i \in 1 .. n - 1 + 1 : SubSeq(d, 1, n)[i] = d[1 + i - 1]
  BY <1>2, <1>4, SubSeqProperties
<1>6. /\ SubSeq(d, n + 1, Len(d)) \in Seq(S)
      /\ Len(SubSeq(d, n + 1, Len(d))) = IF n + 1 <= Len(d) THEN Len(d) - (n + 1) + 1 ELSE 0
      /\ \A i \in 1 .. Len(d) - (n + 1) + 1 : SubSeq(d, n + 1, Len(d))[i] = d[(n + 1) + i - 1]
  BY <1>3, <1>4, SubSeqProperties
<1>7. \A k \in 1 .. n : SubSeq(d, 1, n)[k] = d[k]
  BY <1>1, <1>5
<1>8. \A k \in 1 .. Len(d) - n : SubSeq(d, n + 1, Len(d))[k] = d[n + k]
  BY <1>1, <1>6
<1> QED BY <1>1, <1>5, <1>6, <1>7, <1>8

\* The sector nor_write is at, and its share of the bytes.
LEMMA SectorFacts ==
  ASSUME NorType
  PROVE  /\ Off \in 0 .. SectorSize - 1 /\ SectorAt \in Nat /\ SectorAt % SectorSize = 0
         /\ rest.addr = SectorAt + Off
         /\ Share \in Nat /\ Share <= Len(rest.data) /\ rest.addr + Share <= SectorAt + SectorSize
         /\ rest.data # << >> => Share > 0 /\ SectorAt + SectorSize <= DeviceSize
         /\ Share < Len(rest.data) => rest.addr + Share = SectorAt + SectorSize
<1>1. rest.addr \in Nat /\ Len(rest.data) \in Nat /\ rest.data \in Seq(Unit)
      /\ rest.addr + Len(rest.data) <= DeviceSize
  BY LenProperties DEF NorType
<1>2. SectorSize \in Nat \ {0} /\ DeviceSize \in Nat
  BY GeometryAssumption
<1> DEFINE q == rest.addr \div SectorSize
<1>3. q \in Nat /\ Off \in 0 .. SectorSize - 1 /\ rest.addr = SectorSize * q + Off
  <2>1. rest.addr \in Int
    BY <1>1
  <2>2. /\ q \in Nat /\ rest.addr % SectorSize \in 0 .. SectorSize - 1
        /\ rest.addr = SectorSize * q + (rest.addr % SectorSize)
    BY <1>1, <1>2, <2>1, DivMod, Zenon
  <2> HIDE DEF q
  <2> QED BY <2>2 DEF Off
<1> HIDE DEF q
<1>4. SectorAt = SectorSize * q + 0 /\ SectorAt \in Nat /\ SectorAt \in Int /\ q \in Int
  BY <1>1, <1>2, <1>3 DEF SectorAt
<1>5. SectorAt % SectorSize = 0
  <2>1. 0 \in 0 .. SectorSize - 1
    BY <1>2
  <2> QED BY <1>2, <1>4, <2>1, DivUnique
<1>6. /\ Share \in Nat /\ Share <= Len(rest.data) /\ Share <= SectorSize - Off
      /\ Share = Len(rest.data) \/ Share = SectorSize - Off
  BY <1>1, <1>2, <1>3 DEF Share, Least
<1>7. rest.data # << >> => Len(rest.data) > 0
  <2>1. rest.data # << >> => Len(rest.data) # 0
    BY <1>1, EmptySeq
  <2> QED BY <1>1, <2>1
<1>8. rest.data # << >> => SectorAt + SectorSize <= DeviceSize
  <2>1. rest.data # << >> => SectorAt < DeviceSize
    <3>1. rest.data # << >> => rest.addr < DeviceSize
      BY <1>1, <1>2, <1>7
    <3>2. SectorAt <= rest.addr
      BY <1>1, <1>2, <1>3 DEF SectorAt
    <3> QED BY <1>1, <1>2, <1>4, <3>1, <3>2
  <2>2. DeviceSize % SectorSize = 0 /\ DeviceSize \in Int
    BY Areas
  <2> QED BY <1>2, <1>4, <1>5, <2>1, <2>2, NextMultiple
<1>9. rest.addr = SectorAt + Off
  BY <1>1, <1>3 DEF SectorAt
<1> QED BY <1>1, <1>2, <1>3, <1>4, <1>5, <1>6, <1>7, <1>8, <1>9

\* The array is not the empty function that stands for no array.
LEMMA ArrayIsSomething == \A f \in [Place -> Unit] : f # Nothing
<1>1. 0 \in Place
  BY GeometryAssumption DEF Place
<1>2. DOMAIN Nothing = {}
  BY DEF Nothing
<1> QED BY <1>1, <1>2

\* What nor_write and its loop compute from rest alone.
LEMMA SectorKept ==
  ASSUME rest' = rest
  PROVE  Off' = Off /\ Share' = Share /\ SectorAt' = SectorAt
BY DEF Off, Share, SectorAt

\* nor_write reads a sector and decides whether to erase it.
LEMMA LookSectorOK == NorType /\ DriverOK /\ LookSector => NorType' /\ DriverOK'
<1> SUFFICES ASSUME NorType, DriverOK, LookSector PROVE NorType' /\ DriverOK'
  OBVIOUS
<1>1. /\ nor = "sector" /\ checks /\ was = Nothing /\ prog.data = << >>
      /\ UNCHANGED <<flash, rest, checks, was>>
  BY DEF DriverOK, LookSector
<1>2. /\ Off' = Off /\ Share' = Share /\ SectorAt' = SectorAt
      /\ Share \in 0 .. Len(rest.data) /\ Len(rest.data) \in Nat
      /\ SectorAt \in Nat /\ rest.addr \in Nat /\ rest.data \in Seq(Unit)
      /\ rest.addr + Len(rest.data) <= DeviceSize
  BY <1>1, SectorKept, SectorFacts, LenProperties DEF NorType
<1>3. CASE \E p \in rest.addr .. rest.addr + Share - 1 : flash[p] # Blank
  <2>1. /\ nor' = "erase" /\ buf' = [i \in InSector |-> flash[SectorAt + i]]
        /\ prog' = prog
    BY <1>3 DEF LookSector
  <2>2. rest.data # << >>
    <3>1. Share # 0
      BY <1>2, <1>3
    <3> QED BY <1>2, <3>1, EmptySeq
  <2>3. SectorAt + SectorSize <= DeviceSize
    BY <2>2, SectorFacts
  <2>4. \A i \in InSector : SectorAt + i \in Place
    BY <1>2, <2>3, GeometryAssumption DEF InSector, Place
  <2>5. buf' \in [InSector -> Unit]
    BY <2>1, <2>4 DEF NorType
  <2>6. NorType'
    BY <1>1, <2>1, <2>5 DEF NorType
  <2>7. DriverOK'
    BY <1>1, <1>2, <2>1, <2>2 DEF DriverOK
  <2> QED BY <2>6, <2>7
<1>4. CASE ~(\E p \in rest.addr .. rest.addr + Share - 1 : flash[p] # Blank)
  <2>1. /\ nor' = "page" /\ buf' = buf
        /\ prog' = [addr |-> rest.addr, data |-> SubSeq(rest.data, 1, Share)]
    BY <1>4 DEF LookSector
  <2>2. /\ SubSeq(rest.data, 1, Share) \in Seq(Unit) /\ Len(SubSeq(rest.data, 1, Share)) = Share
        /\ \A k \in 1 .. Share : SubSeq(rest.data, 1, Share)[k] = rest.data[k]
    BY <1>2, Parts
  <2>3. /\ prog' \in [addr : Nat, data : Seq(Unit)] /\ prog'.addr = rest.addr
        /\ Len(prog'.data) = Share /\ \A k \in 1 .. Share : prog'.data[k] = rest.data[k]
    BY <1>2, <2>1, <2>2
  <2>4. prog'.addr + Len(prog'.data) <= DeviceSize
    BY <1>2, <2>3, GeometryAssumption
  <2>5. NorType'
    BY <1>1, <2>1, <2>3, <2>4 DEF NorType
  <2>6. Lo' = rest.addr /\ Hi' = rest.addr + Share
    BY <1>1, <1>2 DEF Lo, Hi
  <2>7. Paging'
    <3>1. \A k \in 1 .. Len(prog'.data) : prog'.data[k] = Want(prog.addr + k - 1)'
      <4> SUFFICES ASSUME NEW k \in 1 .. Share PROVE prog'.data[k] = Want(prog.addr + k - 1)'
        BY <2>3
      <4>1. prog'.addr + k - 1 \in rest.addr .. rest.addr + Share - 1
            /\ (prog'.addr + k - 1) - rest.addr + 1 = k
        BY <1>2, <2>3
      <4> QED BY <1>1, <1>2, <2>3, <4>1 DEF Want
    <3>2. BlankFrom(prog.addr, Hi)'
      BY <1>1, <1>2, <1>4, <2>3, <2>6 DEF BlankFrom, Place
    <3>3. ~(was' # Nothing)
      BY <1>1
    <3>4. Lo' <= prog'.addr /\ prog'.addr + Len(prog'.data) = Hi'
      BY <1>2, <2>3, <2>6
    <3>5. \A p \in Place : ~(Lo' <= p /\ p < prog'.addr)
      BY <1>2, <2>3, <2>6 DEF Place
    <3> QED BY <3>1, <3>2, <3>3, <3>4, <3>5 DEF Paging
  <2>8. DriverOK'
    BY <1>1, <2>1, <2>7 DEF DriverOK
  <2> QED BY <2>5, <2>8
<1> QED BY <1>3, <1>4

\* The sector is erased; everything in it is now to be programmed.
LEMMA EraseSectorOK ==
  ASSUME NorType, DriverOK, EraseSector
  PROVE  /\ NorType' /\ DriverOK'
         /\ \A p \in Place : ~(SectorAt <= p /\ p < SectorAt + SectorSize) => flash'[p] = flash[p]
<1>1. /\ nor = "erase" /\ checks /\ was = Nothing /\ rest.data # << >>
      /\ buf = [i \in InSector |-> flash[SectorAt + i]]
      /\ flash' = Erased(flash, SectorAt, SectorSize)
      /\ nor' = "page" /\ buf' = Nothing /\ was' = flash /\ UNCHANGED <<rest, checks>>
  BY DEF DriverOK, EraseSector
<1> DEFINE new == [n \in 1 .. SectorSize |-> IF n - 1 \in Off .. Off + Share - 1
                                             THEN rest.data[n - Off] ELSE buf[n - 1]]
<1>2. prog' = [addr |-> SectorAt, data |-> new]
  BY DEF EraseSector
<1>3. /\ Off \in 0 .. SectorSize - 1 /\ rest.addr = SectorAt + Off
      /\ Share \in 0 .. Len(rest.data) /\ Len(rest.data) \in Nat
      /\ rest.addr + Share <= SectorAt + SectorSize
      /\ SectorAt \in Nat /\ rest.addr \in Nat /\ rest.data \in Seq(Unit)
      /\ SectorAt + SectorSize <= DeviceSize /\ SectorAt % SectorSize = 0
      /\ SectorSize \in Nat \ {0} /\ DeviceSize \in Nat
  BY <1>1, SectorFacts, LenProperties, GeometryAssumption DEF NorType
<1>4. Off' = Off /\ Share' = Share /\ SectorAt' = SectorAt
  BY <1>1, SectorKept
<1>5. \A n \in 1 .. SectorSize :
        /\ n - 1 \in InSector /\ SectorAt + n - 1 \in Place
        /\ buf[n - 1] = flash[SectorAt + n - 1]
        /\ n - 1 \in Off .. Off + Share - 1 => n - Off \in 1 .. Len(rest.data)
  <2> SUFFICES ASSUME NEW n \in 1 .. SectorSize
               PROVE  /\ n - 1 \in InSector /\ SectorAt + n - 1 \in Place
                      /\ buf[n - 1] = flash[SectorAt + n - 1]
                      /\ n - 1 \in Off .. Off + Share - 1 => n - Off \in 1 .. Len(rest.data)
    OBVIOUS
  <2>1. n - 1 \in InSector /\ SectorAt + n - 1 \in Place /\ SectorAt + (n - 1) = SectorAt + n - 1
    BY <1>3 DEF InSector, Place
  <2>2. buf[n - 1] = flash[SectorAt + (n - 1)]
    BY <1>1, <2>1
  <2>3. n - 1 \in Off .. Off + Share - 1 => n - Off \in 1 .. Len(rest.data)
    BY <1>3
  <2> QED BY <2>1, <2>2, <2>3
<1>6. \A n \in 1 .. SectorSize : new[n] \in Unit
  <2> SUFFICES ASSUME NEW n \in 1 .. SectorSize PROVE new[n] \in Unit
    OBVIOUS
  <2>1. buf[n - 1] \in Unit
    BY <1>5 DEF NorType
  <2>2. n - 1 \in Off .. Off + Share - 1 => rest.data[n - Off] \in Unit
    BY <1>3, <1>5, ElementOfSeq
  <2> QED BY <2>1, <2>2
<1>7. new \in Seq(Unit) /\ Len(new) = SectorSize
  <2>1. new \in [1 .. SectorSize -> Unit]
    BY <1>6
  <2> HIDE DEF new
  <2> QED BY <1>3, <2>1
<1>8. prog' \in [addr : Nat, data : Seq(Unit)] /\ prog'.addr = SectorAt /\ prog'.data = new
  <2> HIDE DEF new
  <2> QED BY <1>2, <1>3, <1>7
<1>9. \A p \in Place : flash'[p] = IF SectorAt <= p /\ p < SectorAt + SectorSize
                                   THEN Blank ELSE flash[p]
  <2> SUFFICES ASSUME NEW p \in Place
               PROVE  flash'[p] = IF SectorAt <= p /\ p < SectorAt + SectorSize
                                  THEN Blank ELSE flash[p]
    OBVIOUS
  <2>1. flash'[p] = IF p \div SectorSize = SectorAt \div SectorSize THEN Blank ELSE flash[p]
    BY <1>1 DEF Erased
  <2>2. p \in Nat
    BY DEF Place
  <2>3. (p \div SectorSize = SectorAt \div SectorSize)
        <=> (SectorAt <= p /\ p < SectorAt + SectorSize)
    BY <1>3, <2>2, SameBlock
  <2> QED BY <2>1, <2>3
<1>10. flash' \in [Place -> Unit]
  <2>1. \A p \in Place : flash'[p] \in Unit
    BY <1>9, BlankAssumption DEF NorType, Unit
  <2>2. flash' = [p \in Place |-> flash'[p]]
    BY <1>1 DEF Erased
  <2> QED BY <2>1, <2>2
<1>11. NorType'
  <2>1. prog'.addr + Len(prog'.data) <= DeviceSize
    BY <1>3, <1>7, <1>8
  <2> HIDE DEF new
  <2> QED BY <1>1, <1>8, <1>10, <2>1 DEF NorType
<1>12. was' # Nothing
  BY <1>1, ArrayIsSomething DEF NorType
<1>13. Lo' = SectorAt /\ Hi' = SectorAt + SectorSize
  BY <1>4, <1>12 DEF Lo, Hi
<1>14. Paging'
  <2>1. \A k \in 1 .. Len(prog'.data) : prog'.data[k] = Want(prog.addr + k - 1)'
    <3> SUFFICES ASSUME NEW k \in 1 .. SectorSize PROVE new[k] = Want(prog.addr + k - 1)'
      BY <1>7, <1>8
    <3>1. Want(prog.addr + k - 1)' =
            IF SectorAt + k - 1 \in rest.addr .. rest.addr + Share - 1
            THEN rest.data[(SectorAt + k - 1) - rest.addr + 1] ELSE flash[SectorAt + k - 1]
      <4> HIDE DEF new
      <4> QED BY <1>1, <1>4, <1>8, <1>12 DEF Want
    <3>2. SectorAt + k - 1 \in rest.addr .. rest.addr + Share - 1
          <=> k - 1 \in Off .. Off + Share - 1
      BY <1>3
    <3>3. (SectorAt + k - 1) - rest.addr + 1 = k - Off
      BY <1>3
    <3> QED BY <1>5, <3>1, <3>2, <3>3
  <2> HIDE DEF new
  <2>2. BlankFrom(prog.addr, Hi)'
    BY <1>8, <1>9, <1>13 DEF BlankFrom
  <2>3. Lo' <= prog'.addr /\ prog'.addr + Len(prog'.data) = Hi'
    <3>1. Len(prog'.data) = SectorSize /\ prog'.addr = SectorAt
      BY <1>7, <1>8
    <3>2. SectorAt \in Nat
      BY <1>3
    <3> QED BY <1>13, <3>1, <3>2
  <2>4. \A p \in Place : ~(Lo' <= p /\ p < prog'.addr)
    BY <1>3, <1>8, <1>13 DEF Place
  <2>5. rest'.data # << >>
        /\ \A p \in Place : p < Lo' \/ Hi' <= p => flash'[p] = was'[p]
    <3>1. rest' = rest /\ was' = flash
      BY <1>1
    <3>2. \A p \in Place : p < Lo' \/ Hi' <= p => flash'[p] = flash[p]
      <4> SUFFICES ASSUME NEW p \in Place, p < Lo' \/ Hi' <= p PROVE flash'[p] = flash[p]
        OBVIOUS
      <4>1. p \in Nat /\ SectorAt \in Nat /\ SectorSize \in Nat
        BY <1>3 DEF Place
      <4>2. ~(SectorAt <= p /\ p < SectorAt + SectorSize)
        BY <1>13, <4>1
      <4> QED BY <1>9, <4>2
    <3> QED BY <1>1, <3>1, <3>2
  <2> QED BY <2>1, <2>2, <2>3, <2>4, <2>5 DEF Paging
<1>15. DriverOK'
  <2>1. nor' = "page" /\ checks'
    BY <1>1
  <2> QED BY <1>14, <2>1 DEF DriverOK
<1> QED BY <1>9, <1>11, <1>15

\* The array after the page program that comes next.
After == Programmed(flash, prog.addr, SubSeq(prog.data, 1, PageRemain))

\* Pages are only programmed where the array is blank.
LEMMA AfterIs ==
  ASSUME NorType, DriverOK, nor = "page"
  PROVE  /\ Len(prog.data) \in Nat /\ prog.addr \in Nat /\ prog.data \in Seq(Unit)
         /\ prog.addr + Len(prog.data) <= DeviceSize
         /\ PageRemain \in 0 .. Len(prog.data)
         /\ BlankFrom(prog.addr, prog.addr + Len(prog.data))
         /\ After \in [Place -> Unit]
         /\ \A p \in Place :
              After[p] = IF prog.addr <= p /\ p < prog.addr + PageRemain
                         THEN prog.data[p - prog.addr + 1] ELSE flash[p]
<1>1. /\ Len(prog.data) \in Nat /\ prog.addr \in Nat /\ prog.data \in Seq(Unit)
      /\ prog.addr + Len(prog.data) <= DeviceSize /\ flash \in [Place -> Unit]
  BY LenProperties DEF NorType
<1>2. prog.addr % PageSize \in 0 .. PageSize - 1 /\ PageSize \in Nat \ {0}
  <2>1. PageSize \in Nat \ {0} /\ prog.addr \in Int
    BY <1>1, GeometryAssumption
  <2> QED BY <2>1, DivMod
<1>3. PageRemain \in 0 .. Len(prog.data) /\ PageRemain <= PageSize - (prog.addr % PageSize)
  BY <1>1, <1>2 DEF PageRemain, Least
<1>4. BlankFrom(prog.addr, prog.addr + Len(prog.data))
  BY DEF DriverOK, Paging
<1> DEFINE part == SubSeq(prog.data, 1, PageRemain)
<1>5. /\ part \in Seq(Unit) /\ Len(part) = PageRemain
      /\ \A k \in 1 .. PageRemain : part[k] = prog.data[k]
  BY <1>1, <1>3, Parts
<1> HIDE DEF part
<1>6. \A p \in Place : prog.addr <= p /\ p < prog.addr + Len(part) => flash[p] = Blank
  BY <1>1, <1>3, <1>4, <1>5 DEF BlankFrom, Place
<1>7. \A p \in Place : Programmed(flash, prog.addr, part)[p] =
                         IF prog.addr <= p /\ p < prog.addr + Len(part)
                         THEN part[p - prog.addr + 1] ELSE flash[p]
  BY <1>1, <1>3, <1>5, <1>6, ProgrammedIs
<1>8. \A p \in Place :
        After[p] = IF prog.addr <= p /\ p < prog.addr + PageRemain
                   THEN prog.data[p - prog.addr + 1] ELSE flash[p]
  <2> SUFFICES ASSUME NEW p \in Place
               PROVE  After[p] = IF prog.addr <= p /\ p < prog.addr + PageRemain
                                 THEN prog.data[p - prog.addr + 1] ELSE flash[p]
    OBVIOUS
  <2>1. After = Programmed(flash, prog.addr, part)
    BY DEF After, part
  <2>2. After[p] = IF prog.addr <= p /\ p < prog.addr + PageRemain
                   THEN part[p - prog.addr + 1] ELSE flash[p]
    BY <1>5, <1>7, <2>1
  <2>3. p - prog.addr + 1 \in 1 .. PageRemain \/ ~(prog.addr <= p /\ p < prog.addr + PageRemain)
    BY <1>1, <1>3 DEF Place
  <2> QED BY <1>5, <2>2, <2>3
<1>9. After \in [Place -> Unit]
  <2>1. \A p \in Place : After[p] \in Unit
    <3> SUFFICES ASSUME NEW p \in Place PROVE After[p] \in Unit
      OBVIOUS
    <3>1. flash[p] \in Unit
      BY <1>1
    <3>2. prog.addr <= p /\ p < prog.addr + PageRemain => p - prog.addr + 1 \in 1 .. Len(prog.data)
      BY <1>1, <1>3 DEF Place
    <3>3. prog.addr <= p /\ p < prog.addr + PageRemain => prog.data[p - prog.addr + 1] \in Unit
      BY <1>1, <3>2, ElementOfSeq
    <3> QED BY <1>8, <3>1, <3>3
  <2>2. After = [p \in Place |-> After[p]]
    BY DEF After, Programmed
  <2> QED BY <2>1, <2>2
<1> QED BY <1>1, <1>3, <1>4, <1>8, <1>9

\* Of a stretch, what is programmed holds what it is to hold, one page further now.
LEMMA AfterPaging ==
  ASSUME NorType, DriverOK, nor = "page", checks
  PROVE  /\ \A p \in Place : Lo <= p /\ p < prog.addr + PageRemain => After[p] = Want(p)
         /\ \A p \in Place : p < Lo \/ Hi <= p => After[p] = flash[p]
         /\ \A p \in Place : prog.addr + PageRemain <= p /\ p < Hi => After[p] = Blank
         /\ Lo \in Nat /\ Hi \in Nat /\ Lo <= prog.addr /\ prog.addr + Len(prog.data) = Hi
<1>1. Paging
  BY DEF DriverOK
<1>2. /\ Len(prog.data) \in Nat /\ prog.addr \in Nat /\ PageRemain \in 0 .. Len(prog.data)
      /\ \A p \in Place : After[p] = IF prog.addr <= p /\ p < prog.addr + PageRemain
                                     THEN prog.data[p - prog.addr + 1] ELSE flash[p]
  BY AfterIs
<1>3. Lo \in Nat /\ Lo <= prog.addr /\ prog.addr + Len(prog.data) = Hi /\ Hi \in Nat
  BY SMTT(30), <1>1, <1>2, SectorFacts DEF Paging, Lo, NorType
<1>4. ASSUME NEW p \in Place, Lo <= p, p < prog.addr + PageRemain PROVE After[p] = Want(p)
  <2>1. CASE p < prog.addr
    <3>1. flash[p] = Want(p)
      BY <1>1, <1>4, <2>1 DEF Paging
    <3>2. After[p] = flash[p]
      BY <1>2, <2>1 DEF Place
    <3> QED BY <3>1, <3>2
  <2>2. CASE prog.addr <= p
    <3>1. p - prog.addr + 1 \in 1 .. Len(prog.data) /\ prog.addr + (p - prog.addr + 1) - 1 = p
      BY <1>2, <1>4, <2>2 DEF Place
    <3>2. prog.data[p - prog.addr + 1] = Want(prog.addr + (p - prog.addr + 1) - 1)
      BY <1>1, <3>1 DEF Paging
    <3> QED BY <1>2, <1>4, <2>2, <3>1, <3>2
  <2> QED BY <1>2, <2>1, <2>2 DEF Place
<1>5. ASSUME NEW p \in Place, p < Lo \/ Hi <= p PROVE After[p] = flash[p]
  BY <1>2, <1>3, <1>5 DEF Place
<1>6. ASSUME NEW p \in Place, prog.addr + PageRemain <= p, p < Hi PROVE After[p] = Blank
  <2>1. After[p] = flash[p]
    BY <1>2, <1>6 DEF Place
  <2>2. prog.addr <= p
    BY <1>2, <1>6 DEF Place
  <2> QED BY <1>1, <1>6, <2>1, <2>2 DEF Paging, BlankFrom
<1> QED BY <1>3, <1>4, <1>5, <1>6

\* Within the stretch, what is wanted depends on the call alone.
LEMMA WantOf ==
  ASSUME NorType, NEW p \in Place, Lo <= p, p < Hi
  PROVE  Want(p) = IF p \in rest.addr .. rest.addr + Share - 1 THEN rest.data[p - rest.addr + 1]
                   ELSE was[p]
<1>1. rest.addr \in Nat /\ Share \in Nat
  BY SectorFacts DEF NorType
<1>2. was = Nothing => p \in rest.addr .. rest.addr + Share - 1
  BY <1>1 DEF Lo, Hi, Place
<1> QED BY <1>2 DEF Want

\* A page of several: the stretch goes on after it.
LEMMA PageOfMany ==
  ASSUME NorType, DriverOK, nor = "page", PageRemain < Len(prog.data),
         flash' = After, prog' = Dropped(prog, PageRemain), UNCHANGED <<nor, rest, was, buf, checks>>
  PROVE  NorType' /\ DriverOK'
<1>1. /\ Len(prog.data) \in Nat /\ prog.addr \in Nat /\ prog.data \in Seq(Unit)
      /\ prog.addr + Len(prog.data) <= DeviceSize
      /\ PageRemain \in 0 .. Len(prog.data)
      /\ BlankFrom(prog.addr, prog.addr + Len(prog.data)) /\ After \in [Place -> Unit]
      /\ \A p \in Place : After[p] = IF prog.addr <= p /\ p < prog.addr + PageRemain
                                     THEN prog.data[p - prog.addr + 1] ELSE flash[p]
  BY AfterIs
<1> DEFINE n == PageRemain
           tail == SubSeq(prog.data, n + 1, Len(prog.data))
<1>2. /\ tail \in Seq(Unit) /\ Len(tail) = Len(prog.data) - n
      /\ \A k \in 1 .. Len(prog.data) - n : tail[k] = prog.data[n + k]
  BY <1>1, Parts
<1>3. prog' = [addr |-> prog.addr + n, data |-> tail]
  BY DEF Dropped
<1> HIDE DEF tail, n
<1>n. n = PageRemain
  BY DEF n
<1>4. /\ prog'.addr = prog.addr + n /\ prog'.data = tail /\ prog'.addr \in Nat
      /\ prog' \in [addr : Nat, data : Seq(Unit)]
  BY <1>1, <1>2, <1>3, <1>n
<1>5. NorType'
  <2>1. prog'.addr + Len(prog'.data) <= DeviceSize
    BY <1>1, <1>2, <1>4, <1>n
  <2> QED BY <1>1, <1>4, <2>1 DEF NorType
<1>6. ASSUME checks PROVE Paging'
  <2>1. Paging
    BY <1>6 DEF DriverOK
  <2>2. Lo' = Lo /\ Hi' = Hi
    <3>1. Share' = Share /\ SectorAt' = SectorAt
      BY SectorKept
    <3> QED BY <3>1 DEF Lo, Hi
  <2>3. /\ \A p \in Place : Lo <= p /\ p < prog.addr + PageRemain => After[p] = Want(p)
        /\ \A p \in Place : p < Lo \/ Hi <= p => After[p] = flash[p]
        /\ \A p \in Place : prog.addr + PageRemain <= p /\ p < Hi => After[p] = Blank
        /\ Lo \in Nat /\ Hi \in Nat /\ Lo <= prog.addr /\ prog.addr + Len(prog.data) = Hi
    BY <1>6, AfterPaging
  <2>4. \A p \in Place : Lo <= p /\ p < Hi => Want(p)' = Want(p)
    <3> SUFFICES ASSUME NEW p \in Place, Lo <= p, p < Hi PROVE Want(p)' = Want(p)
      OBVIOUS
    <3>1. Want(p) = IF p \in rest.addr .. rest.addr + Share - 1 THEN rest.data[p - rest.addr + 1]
                    ELSE was[p]
      BY WantOf
    <3>2. Share' = Share
      BY SectorKept
    <3>3. was = Nothing => p \in rest.addr .. rest.addr + Share - 1
      <4>1. rest.addr \in Nat /\ Share \in Nat
        BY SectorFacts DEF NorType
      <4> QED BY <4>1 DEF Lo, Hi, Place
    <3> QED BY <3>1, <3>2, <3>3 DEF Want
  <2>5. Lo' <= prog'.addr /\ prog'.addr + Len(prog'.data) = Hi'
    BY <1>1, <1>2, <1>4, <1>n, <2>2, <2>3
  <2>6. \A k \in 1 .. Len(prog'.data) : prog'.data[k] = Want(prog.addr + k - 1)'
    <3> SUFFICES ASSUME NEW k \in 1 .. Len(prog.data) - n
                 PROVE  tail[k] = Want(prog.addr + k - 1)'
      BY <1>2, <1>4
    <3>1. n + k \in 1 .. Len(prog.data)
      BY <1>1, <1>n
    <3>2. tail[k] = Want(prog.addr + (n + k) - 1)
      BY <1>2, <2>1, <3>1 DEF Paging
    <3>3. PICK p : p = prog.addr + (n + k) - 1
      OBVIOUS
    <3>4. p \in Place /\ Lo <= p /\ p < Hi
      <4>1. n \in Nat /\ k \in Nat /\ k >= 1 /\ n + k <= Len(prog.data)
        BY <1>1, <1>n, <3>1
      <4>2. p \in Nat /\ prog.addr <= p /\ p < prog.addr + Len(prog.data)
        BY <1>1, <3>3, <4>1
      <4>3. DeviceSize \in Nat
        BY GeometryAssumption
      <4> QED BY <1>1, <2>3, <4>2, <4>3 DEF Place
    <3>5. prog'.addr + k - 1 = p
      BY <1>1, <1>4, <1>n, <3>3
    <3>6. Want(p)' = Want(p)
      BY <2>4, <3>4
    <3>7. Want(prog.addr + k - 1)' = Want(p)'
      BY <3>5 DEF Want
    <3> QED BY <3>2, <3>3, <3>6, <3>7
  <2>7. \A p \in Place : Lo' <= p /\ p < prog'.addr => flash'[p] = Want(p)'
    <3> SUFFICES ASSUME NEW p \in Place, Lo <= p, p < prog.addr + n
                 PROVE  flash'[p] = Want(p)'
      BY <1>4, <2>2
    <3>1. p < Hi
      BY <1>1, <1>n, <2>3 DEF Place
    <3> QED BY <1>n, <2>3, <2>4, <3>1
  <2>8. BlankFrom(prog.addr, Hi)'
    BY <1>4, <1>n, <2>2, <2>3 DEF BlankFrom
  <2>9. was' # Nothing => /\ rest'.data # << >>
                          /\ \A p \in Place : p < Lo' \/ Hi' <= p => flash'[p] = was'[p]
    BY <2>1, <2>2, <2>3 DEF Paging
  <2> QED BY <2>5, <2>6, <2>7, <2>8, <2>9 DEF Paging
<1>7. ASSUME ~checks PROVE BlankFrom(prog.addr, prog.addr + Len(prog.data))'
  <2> SUFFICES ASSUME NEW p \in Place, prog'.addr <= p, p < prog'.addr + Len(prog'.data)
               PROVE  After[p] = Blank
    BY DEF BlankFrom
  <2>1. prog.addr + n <= p /\ p < prog.addr + Len(prog.data) /\ prog.addr <= p
    BY <1>1, <1>2, <1>4, <1>n DEF Place
  <2> QED BY <1>1, <1>n, <2>1 DEF BlankFrom, Place
<1> QED BY <1>5, <1>6, <1>7 DEF DriverOK

\* The last page of a stretch: the next sector, or the end of the call.
LEMMA LastPage ==
  ASSUME NorType, DriverOK, nor = "page", PageRemain = Len(prog.data),
         flash' = After, prog' = NoData, was' = Nothing, UNCHANGED <<buf, checks>>,
         IF checks /\ Share < Len(rest.data)
         THEN nor' = "sector" /\ rest' = Dropped(rest, Share)
         ELSE nor' = "done" /\ rest' = rest
  PROVE  NorType' /\ DriverOK'
<1>1. After \in [Place -> Unit] /\ prog.addr \in Nat /\ Len(prog.data) \in Nat
  BY AfterIs
<1>2. /\ rest.addr \in Nat /\ rest.data \in Seq(Unit) /\ Len(rest.data) \in Nat
      /\ rest.addr + Len(rest.data) <= DeviceSize
      /\ Share \in 0 .. Len(rest.data)
  BY SectorFacts, LenProperties DEF NorType
<1>3. NoData \in [addr : Nat, data : Seq(Unit)] /\ NoData.addr + Len(NoData.data) <= DeviceSize
      /\ NoData.data = << >>
  BY EmptySeq, GeometryAssumption DEF NoData
<1>4. CASE checks /\ Share < Len(rest.data)
  <2> DEFINE tail == SubSeq(rest.data, Share + 1, Len(rest.data))
  <2>1. tail \in Seq(Unit) /\ Len(tail) = Len(rest.data) - Share
    BY <1>2, Parts
  <2>2. nor' = "sector" /\ rest' = [addr |-> rest.addr + Share, data |-> tail]
    BY <1>4 DEF Dropped
  <2> HIDE DEF tail
  <2>3. rest' \in [addr : Nat, data : Seq(Unit)] /\ rest'.addr + Len(rest'.data) <= DeviceSize
    BY <1>2, <2>1, <2>2
  <2>4. NorType'
    BY <1>1, <1>3, <2>2, <2>3 DEF NorType
  <2>5. DriverOK'
    BY <1>3, <1>4, <2>2 DEF DriverOK
  <2> QED BY <2>4, <2>5
<1>5. CASE ~(checks /\ Share < Len(rest.data))
  <2>1. nor' = "done" /\ rest' = rest
    BY <1>5
  <2>2. NorType'
    BY <1>1, <1>3, <2>1 DEF NorType
  <2>3. ASSUME checks, NEW k \in 1 .. Len(rest.data)
        PROVE  flash'[rest.addr + k - 1] = rest.data[k]
    <3>1. Share = Len(rest.data)
      BY <1>2, <1>5, <2>3
    <3> DEFINE p == rest.addr + k - 1
    <3>2. p \in Place
      BY SMTT(30), <1>2, GeometryAssumption DEF Place
    <3>3. Lo <= p /\ p < Hi
      <4>1. rest.addr <= p /\ p < rest.addr + Share
        BY <1>2, <3>1
      <4>2. SectorAt \in Nat /\ SectorAt <= rest.addr /\ rest.addr + Share <= SectorAt + SectorSize
        BY <1>2, SectorFacts DEF SectorAt
      <4>3. SectorSize \in Nat /\ p \in Int
        BY <1>2, GeometryAssumption
      <4> HIDE DEF p
      <4> QED BY <1>2, <4>1, <4>2, <4>3 DEF Lo, Hi
    <3>4. After[p] = Want(p)
      BY <1>1, <2>3, <3>2, <3>3, AfterPaging
    <3>5. p \in rest.addr .. rest.addr + Share - 1 /\ p - rest.addr + 1 = k
      BY <1>2, <3>1
    <3> QED BY <3>4, <3>5 DEF Want
  <2>4. DriverOK'
    <3>1. \A k \in 1 .. Len(rest'.data) : checks' => flash'[rest'.addr + k - 1] = rest'.data[k]
      BY <2>1, <2>3
    <3>2. nor' = "done" /\ was' = Nothing /\ prog'.data = << >> /\ (~checks' => rest' = NoData)
      BY <1>3, <2>1 DEF DriverOK
    <3> QED BY <3>1, <3>2 DEF DriverOK
  <2> QED BY <2>2, <2>4
<1> QED BY <1>4, <1>5

\* nor_write_nocheck.
LEMMA ProgramPageOK == NorType /\ DriverOK /\ ProgramPage => NorType' /\ DriverOK'
<1> SUFFICES ASSUME NorType, DriverOK, ProgramPage PROVE NorType' /\ DriverOK'
  OBVIOUS
<1>1. nor = "page" /\ flash' = After /\ UNCHANGED <<buf, checks>>
  BY DEF ProgramPage, After
<1>2. PageRemain \in 0 .. Len(prog.data) /\ Len(prog.data) \in Nat
  BY <1>1, AfterIs
<1>3. CASE PageRemain < Len(prog.data)
  <2>1. prog' = Dropped(prog, PageRemain) /\ UNCHANGED <<nor, rest, was>>
    BY <1>3 DEF ProgramPage
  <2> QED BY <1>1, <1>3, <2>1, PageOfMany
<1>4. CASE ~(PageRemain < Len(prog.data))
  <2>1. PageRemain = Len(prog.data)
    BY <1>2, <1>4
  <2>2. /\ prog' = NoData /\ was' = Nothing
        /\ IF checks /\ Share < Len(rest.data)
           THEN nor' = "sector" /\ rest' = Dropped(rest, Share)
           ELSE nor' = "done" /\ rest' = rest
    BY <1>4 DEF ProgramPage
  <2> QED BY <1>1, <2>1, <2>2, LastPage
<1> QED BY <1>3, <1>4

\* Entering nor_write with bytes that fit on the chip.
LEMMA CallWriteOK ==
  ASSUME NorType, DriverOK, nor = "idle", NEW addr \in Place, NEW data \in Seq(Unit),
         addr + Len(data) <= DeviceSize, CallWrite(addr, data)
  PROVE  NorType' /\ DriverOK' /\ nor' = "sector" /\ rest' = [addr |-> addr, data |-> data]
<1>1. addr \in Nat /\ addr < DeviceSize /\ Len(data) \in Nat /\ DeviceSize \in Nat
  BY LenProperties, GeometryAssumption DEF Place
<1>2. Clip(addr, data) = data
  <2>1. Least(Len(data), DeviceSize - addr) = Len(data)
    BY <1>1 DEF Least
  <2> QED BY <2>1, SubSeqFull DEF Clip
<1>3. /\ nor' = "sector" /\ rest' = [addr |-> addr, data |-> data] /\ checks' = TRUE
      /\ UNCHANGED <<flash, buf, prog, was>>
  BY <1>1, <1>2 DEF CallWrite
<1>4. rest' \in [addr : Nat, data : Seq(Unit)] /\ rest'.addr + Len(rest'.data) <= DeviceSize
  BY <1>1, <1>3
<1>5. NorType'
  BY <1>3, <1>4 DEF NorType
<1>6. DriverOK'
  BY <1>3 DEF DriverOK
<1> QED BY <1>3, <1>5, <1>6

\* Entering nor_write_erased, where the array is blank.
LEMMA CallWriteErasedOK ==
  ASSUME NorType, DriverOK, nor = "idle", NEW addr \in Nat, NEW data \in Seq(Unit),
         addr + Len(data) <= DeviceSize, BlankFrom(addr, addr + Len(data)),
         CallWriteErased(addr, data)
  PROVE  /\ NorType' /\ DriverOK' /\ nor' \in {"page", "done"} /\ ~checks'
         /\ prog' = [addr |-> addr, data |-> data] /\ (nor' = "done" => data = << >>)
<1>1. Len(data) \in Nat /\ DeviceSize \in Nat
  BY LenProperties, GeometryAssumption
<1>2. Clip(addr, data) = data
  <2>1. Least(Len(data), DeviceSize - addr) = Len(data)
    BY <1>1 DEF Least
  <2> QED BY <2>1, SubSeqFull DEF Clip
<1>3. /\ nor' = IF addr >= DeviceSize THEN "done" ELSE "page"
      /\ prog' = [addr |-> addr, data |-> data] /\ checks' = FALSE
      /\ UNCHANGED <<flash, buf, rest, was>>
  BY <1>2 DEF CallWriteErased
<1>4. prog' \in [addr : Nat, data : Seq(Unit)] /\ prog'.addr + Len(prog'.data) <= DeviceSize
  BY <1>1, <1>3
<1>5. nor' = "done" => data = << >>
  <2>1. nor' = "done" => Len(data) = 0
    BY <1>1, <1>3
  <2> QED BY <2>1, EmptySeq
<1>6. NorType'
  BY <1>3, <1>4 DEF NorType
<1>7. DriverOK'
  <2>1. BlankFrom(prog.addr, prog.addr + Len(prog.data))'
    BY <1>3 DEF BlankFrom
  <2>2. was = Nothing /\ rest = NoData
    BY DEF DriverOK
  <2> QED BY <1>3, <1>5, <2>1, <2>2 DEF DriverOK
<1> QED BY <1>3, <1>5, <1>6, <1>7

\* A call returns, or is over because the power went.
LEMMA IdleOK ==
  ASSUME flash' \in [Place -> Unit], nor' = "idle", rest' = NoData, prog' = NoData,
         checks' = FALSE, was' = Nothing, buf' \in [InSector -> Unit] \cup {Nothing}
  PROVE  NorType' /\ DriverOK'
<1>1. NoData \in [addr : Nat, data : Seq(Unit)] /\ NoData.addr + Len(NoData.data) <= DeviceSize
      /\ NoData.data = << >>
  BY EmptySeq, GeometryAssumption DEF NoData
<1>2. NorType'
  BY <1>1 DEF NorType
<1>3. DriverOK'
  BY <1>1 DEF DriverOK
<1> QED BY <1>2, <1>3

\* The end of a call.
LEMMA ReturnOK ==
  ASSUME NorType, DriverOK, nor = "done", Return
  PROVE  NorType' /\ DriverOK' /\ flash' = flash /\ nor' = "idle" /\ prog' = NoData
<1>1. was = Nothing /\ flash \in [Place -> Unit] /\ buf \in [InSector -> Unit] \cup {Nothing}
  BY DEF NorType, DriverOK
<1> QED BY <1>1, IdleOK DEF Return

\* Where the array may change in a step of the driver, and when the power goes, and to
\* what.
Reaches(p) ==
  \/ nor = "page" /\ prog.addr <= p /\ p < prog.addr + PageRemain /\ flash'[p] = prog.data[p - prog.addr + 1]
  \/ nor = "erase" /\ SectorAt <= p /\ p < SectorAt + SectorSize

\* The power goes while a page is programmed or a sector erased.
LEMMA NorCutOK ==
  ASSUME NorType, DriverOK, NorCut
  PROVE  NorType' /\ DriverOK' /\ \A p \in Place : flash'[p] = flash[p] \/ Reaches(p)
<1>1. flash \in [Place -> Unit]
  BY DEF NorType
<1>2. ASSUME NEW after \in [Place -> Unit], CutShort(after)
      PROVE  flash' \in [Place -> Unit] /\ \A p \in Place : flash'[p] \in {flash[p], after[p]}
  <2>1. PICK S \in SUBSET {p \in Place : after[p] # flash[p]} :
          flash' = [p \in Place |-> IF p \in S THEN after[p] ELSE flash[p]]
    BY <1>2 DEF CutShort
  <2> QED BY <1>1, <2>1
<1>3. nor' = "idle" /\ rest' = NoData /\ prog' = NoData /\ checks' = FALSE
      /\ buf' = Nothing /\ was' = Nothing
  BY DEF NorCut
<1>4. CASE nor = "page"
  <2>1. /\ After \in [Place -> Unit]
        /\ \A p \in Place :
             After[p] = IF prog.addr <= p /\ p < prog.addr + PageRemain
                        THEN prog.data[p - prog.addr + 1] ELSE flash[p]
    BY <1>4, AfterIs
  <2>2. CutShort(After)
    BY <1>4 DEF NorCut, After
  <2>3. flash' \in [Place -> Unit] /\ \A p \in Place : flash'[p] \in {flash[p], After[p]}
    BY <1>2, <2>1, <2>2
  <2>4. \A p \in Place : flash'[p] = flash[p] \/ Reaches(p)
    BY <1>4, <2>1, <2>3 DEF Reaches
  <2> QED BY <1>3, <2>3, <2>4, IdleOK
<1>5. CASE nor = "erase"
  <2> DEFINE gone == Erased(flash, SectorAt, SectorSize)
  <2>1. CutShort(gone)
    BY <1>5 DEF NorCut
  <2>2. /\ SectorAt \in Nat /\ SectorAt % SectorSize = 0 /\ SectorSize \in Nat \ {0}
    BY SectorFacts, GeometryAssumption
  <2>3. \A p \in Place : gone[p] = IF p \div SectorSize = SectorAt \div SectorSize
                                   THEN Blank ELSE flash[p]
    BY DEF Erased
  <2>4. gone \in [Place -> Unit]
    <3>1. \A p \in Place : gone[p] \in Unit
      BY <1>1, <2>3, BlankAssumption DEF Unit
    <3>2. gone = [p \in Place |-> gone[p]]
      BY DEF Erased
    <3> QED BY <3>1, <3>2
  <2>5. \A p \in Place : p \div SectorSize = SectorAt \div SectorSize
                         => SectorAt <= p /\ p < SectorAt + SectorSize
    <3> SUFFICES ASSUME NEW p \in Place, p \div SectorSize = SectorAt \div SectorSize
                 PROVE  SectorAt <= p /\ p < SectorAt + SectorSize
      OBVIOUS
    <3>1. p \in Nat
      BY DEF Place
    <3> QED BY <2>2, <3>1, SameBlock
  <2> HIDE DEF gone
  <2>6. flash' \in [Place -> Unit] /\ \A p \in Place : flash'[p] \in {flash[p], gone[p]}
    BY <1>2, <2>1, <2>4
  <2>7. \A p \in Place : flash'[p] = flash[p] \/ Reaches(p)
    BY <1>5, <2>3, <2>5, <2>6 DEF Reaches
  <2> QED BY <1>3, <2>6, <2>7, IdleOK
<1>6. CASE nor \notin {"page", "erase"}
  <2>1. flash' = flash
    BY <1>6 DEF NorCut
  <2> QED BY <1>1, <1>3, <2>1, IdleOK
<1> QED BY <1>4, <1>5, <1>6

\* A step of the driver.
LEMMA NorStepOK ==
  ASSUME NorType, DriverOK, NorStep
  PROVE  NorType' /\ DriverOK' /\ \A p \in Place : flash'[p] = flash[p] \/ Reaches(p)
<1>1. CASE LookSector
  <2>1. flash' = flash
    BY <1>1 DEF LookSector
  <2> QED BY <1>1, <2>1, LookSectorOK
<1>2. CASE EraseSector
  <2>1. nor = "erase" /\ \A p \in Place : ~(SectorAt <= p /\ p < SectorAt + SectorSize)
                                           => flash'[p] = flash[p]
    BY <1>2, EraseSectorOK DEF EraseSector
  <2>2. \A p \in Place : flash'[p] = flash[p] \/ Reaches(p)
    BY <2>1 DEF Reaches
  <2> QED BY <1>2, <2>2, EraseSectorOK
<1>3. CASE ProgramPage
  <2>1. nor = "page" /\ flash' = After
    BY <1>3 DEF ProgramPage, After
  <2>2. \A p \in Place : After[p] = IF prog.addr <= p /\ p < prog.addr + PageRemain
                                    THEN prog.data[p - prog.addr + 1] ELSE flash[p]
    BY <2>1, AfterIs
  <2>3. \A p \in Place : flash'[p] = flash[p] \/ Reaches(p)
    BY <2>1, <2>2 DEF Reaches
  <2> QED BY <1>3, <2>3, ProgramPageOK
<1> QED BY <1>1, <1>2, <1>3 DEF NorStep

-----------------------------------------------------------------------------
(* The driver implements the store of bytes.                               *)

\* The array as a reader of the promise sees it.
Bytes_store == IF was = Nothing THEN flash ELSE was

\* The write in progress.
InProgress == IF checks THEN rest ELSE prog

\* A function without a domain is the empty one.
LEMMA NoDomain ==
  ASSUME NEW f, f = [x \in DOMAIN f |-> f[x]], DOMAIN f = {}
  PROVE  f = << >>
OBVIOUS

\* A write in progress changes the places from its address on.
LEMMA PendingOf ==
  ASSUME NEW a \in Nat, NEW d \in Seq(Unit), a + Len(d) <= DeviceSize,
         NEW w, w = [p \in a .. a + Len(d) - 1 |-> d[p - a + 1]]
  PROVE  /\ Len(d) \in Nat
         /\ DOMAIN w = {p \in Place : a <= p /\ p < a + Len(d)}
         /\ \A p \in DOMAIN w : w[p] = d[p - a + 1]
<1>1. Len(d) \in Nat /\ DeviceSize \in Nat
  BY LenProperties, GeometryAssumption
<1>2. a .. a + Len(d) - 1 = {p \in Place : a <= p /\ p < a + Len(d)}
  BY <1>1 DEF Place
<1> QED BY <1>1, <1>2

\* So it is of the write at hand.
LEMMA PendingIs ==
  ASSUME NorType
  PROVE  /\ InProgress.addr \in Nat /\ Len(InProgress.data) \in Nat
         /\ InProgress.addr + Len(InProgress.data) <= DeviceSize
         /\ DOMAIN pendingWrite = {p \in Place : InProgress.addr <= p
                                                 /\ p < InProgress.addr + Len(InProgress.data)}
         /\ \A p \in DOMAIN pendingWrite : pendingWrite[p] = InProgress.data[p - InProgress.addr + 1]
         /\ InProgress.data = << >> => pendingWrite = << >>
         /\ Bytes_store \in [Place -> Unit]
<1>1. /\ InProgress.addr \in Nat /\ InProgress.data \in Seq(Unit)
      /\ InProgress.addr + Len(InProgress.data) <= DeviceSize
  BY DEF NorType, InProgress
<1>2. Len(InProgress.data) \in Nat /\ DeviceSize \in Nat
  BY <1>1, LenProperties, GeometryAssumption
<1>3. pendingWrite = [p \in InProgress.addr .. InProgress.addr + Len(InProgress.data) - 1 |->
                        InProgress.data[p - InProgress.addr + 1]]
  BY DEF pendingWrite, InProgress
<1>4. InProgress.addr .. InProgress.addr + Len(InProgress.data) - 1
        = {p \in Place : InProgress.addr <= p /\ p < InProgress.addr + Len(InProgress.data)}
  BY <1>1, <1>2 DEF Place
<1>5. InProgress.data = << >> => pendingWrite = << >>
  <2>1. InProgress.data = << >> => DOMAIN pendingWrite = {}
    BY <1>1, <1>3, EmptySeq
  <2>2. pendingWrite = [x \in DOMAIN pendingWrite |-> pendingWrite[x]]
    BY <1>3
  <2> QED BY <2>1, <2>2, NoDomain
<1>6. Bytes_store \in [Place -> Unit]
  BY DEF NorType, Bytes_store
<1> QED BY <1>1, <1>2, <1>3, <1>4, <1>5, <1>6

\* No call, no write in progress.
LEMMA NothingPending ==
  ASSUME NorType, DriverOK, nor = "idle"
  PROVE  pendingWrite = << >> /\ Bytes_store = flash
<1>1. InProgress = NoData /\ was = Nothing
  BY DEF DriverOK, InProgress
<1>2. InProgress.data = << >>
  BY <1>1 DEF NoData
<1> QED BY <1>1, <1>2, PendingIs DEF Bytes_store

\* Bytes that are no longer pending are in place.
LEMMA ByProgress ==
  ASSUME NorType, NorType',
         DOMAIN pendingWrite' \subseteq DOMAIN pendingWrite,
         \A p \in Place : \/ Bytes_store'[p] = Bytes_store[p]
                          \/ p \in DOMAIN pendingWrite /\ Bytes_store'[p] = pendingWrite[p],
         \A p \in DOMAIN pendingWrite :
           IF p \in DOMAIN pendingWrite' THEN pendingWrite'[p] = pendingWrite[p]
                                         ELSE Bytes_store'[p] = pendingWrite[p]
  PROVE  Bytes!Progress
<1>1. DOMAIN Bytes_store' = Place
  <2>1. Bytes_store' \in [Place -> Unit]
    BY DEF NorType, Bytes_store
  <2> QED BY <2>1
<1> QED BY <1>1 DEF Bytes!Progress, Bytes_store

\* A page of several.
LEMMA PageOfManyRefines ==
  ASSUME NorType, DriverOK, NorType', nor = "page", PageRemain < Len(prog.data),
         flash' = After, prog' = Dropped(prog, PageRemain), UNCHANGED <<nor, rest, was, buf, checks>>
  PROVE  [Bytes!Next]_<<Bytes_store, pendingWrite>>
<1>1. /\ Len(prog.data) \in Nat /\ prog.addr \in Nat /\ prog.data \in Seq(Unit)
      /\ prog.addr + Len(prog.data) <= DeviceSize
      /\ PageRemain \in 0 .. Len(prog.data)
      /\ \A p \in Place : After[p] = IF prog.addr <= p /\ p < prog.addr + PageRemain
                                     THEN prog.data[p - prog.addr + 1] ELSE flash[p]
  BY AfterIs
<1>2. CASE checks
  <2>1. pendingWrite' = pendingWrite
    BY <1>2 DEF pendingWrite
  <2>2. CASE was # Nothing
    BY <2>1, <2>2 DEF Bytes_store
  <2>3. CASE was = Nothing
    <3>1. Bytes_store = flash /\ Bytes_store' = After
      BY <2>3 DEF Bytes_store
    <3>2. InProgress = rest
      BY <1>2 DEF InProgress
    <3>3. /\ DOMAIN pendingWrite = {p \in Place : rest.addr <= p /\ p < rest.addr + Len(rest.data)}
          /\ \A p \in DOMAIN pendingWrite : pendingWrite[p] = rest.data[p - rest.addr + 1]
      BY <3>2, PendingIs
    <3>4. /\ Lo = rest.addr /\ Hi = rest.addr + Share /\ Share <= Len(rest.data)
          /\ Share \in Nat /\ rest.addr \in Nat /\ Len(rest.data) \in Nat
      BY <2>3, SectorFacts, LenProperties DEF Lo, Hi, NorType
    <3>5. \A p \in Place : \/ After[p] = flash[p]
                           \/ p \in DOMAIN pendingWrite /\ After[p] = pendingWrite[p]
      <4> SUFFICES ASSUME NEW p \in Place, prog.addr <= p, p < prog.addr + PageRemain
                   PROVE  p \in DOMAIN pendingWrite /\ After[p] = pendingWrite[p]
        BY <1>1
      <4>1. Lo <= p /\ p < Hi /\ p < prog.addr + PageRemain
        <5>1. Lo <= prog.addr /\ prog.addr + Len(prog.data) = Hi
          BY <1>2, AfterPaging
        <5> QED BY SMTT(30), <1>1, <3>4, <5>1 DEF Place
      <4>2. After[p] = Want(p)
        BY <1>2, <4>1, AfterPaging
      <4>3. p \in rest.addr .. rest.addr + Share - 1
        BY <3>4, <4>1 DEF Place
      <4>4. p \in DOMAIN pendingWrite
        BY <3>3, <3>4, <4>3
      <4> QED BY <3>3, <4>2, <4>3, <4>4 DEF Want
    <3>6. Bytes!Progress
      BY <2>1, <3>1, <3>5, ByProgress
    <3> QED BY <3>6 DEF Bytes!Next
  <2> QED BY <2>2, <2>3
<1>3. CASE ~checks
  <2>1. was = Nothing /\ was' = Nothing /\ InProgress = prog /\ InProgress' = prog'
    BY <1>3 DEF DriverOK, InProgress
  <2>2. Bytes_store = flash /\ Bytes_store' = After
    BY <2>1 DEF Bytes_store
  <2>3. /\ DOMAIN pendingWrite = {p \in Place : prog.addr <= p /\ p < prog.addr + Len(prog.data)}
        /\ \A p \in DOMAIN pendingWrite : pendingWrite[p] = prog.data[p - prog.addr + 1]
    BY <2>1, PendingIs
  <2> DEFINE tail == SubSeq(prog.data, PageRemain + 1, Len(prog.data))
  <2>4. /\ Len(tail) = Len(prog.data) - PageRemain
        /\ \A k \in 1 .. Len(prog.data) - PageRemain : tail[k] = prog.data[PageRemain + k]
    BY <1>1, Parts
  <2>5. prog' = [addr |-> prog.addr + PageRemain, data |-> tail]
    BY DEF Dropped
  <2> HIDE DEF tail
  <2>6. pendingWrite' = [p \in prog'.addr .. prog'.addr + Len(prog'.data) - 1 |->
                           prog'.data[p - prog'.addr + 1]]
    BY <1>3 DEF pendingWrite
  <2>7. /\ DOMAIN pendingWrite' = prog.addr + PageRemain .. prog.addr + Len(prog.data) - 1
        /\ \A p \in DOMAIN pendingWrite' : pendingWrite'[p] = tail[p - (prog.addr + PageRemain) + 1]
    <3>1. PageRemain \in Nat /\ prog.addr \in Nat /\ Len(prog.data) \in Nat
      BY <1>1
    <3>2. prog'.addr = prog.addr + PageRemain /\ prog'.data = tail
      BY <2>5
    <3>3. (prog.addr + PageRemain) + (Len(prog.data) - PageRemain) - 1
            = prog.addr + Len(prog.data) - 1
      BY <3>1
    <3>4. prog'.addr + Len(prog'.data) - 1 = prog.addr + Len(prog.data) - 1
      BY <2>4, <3>2, <3>3
    <3> QED BY <2>6, <3>2, <3>4
  <2>8. \A p \in DOMAIN pendingWrite' : pendingWrite'[p] = prog.data[p - prog.addr + 1]
    <3> SUFFICES ASSUME NEW p \in prog.addr + PageRemain .. prog.addr + Len(prog.data) - 1
                 PROVE  tail[p - (prog.addr + PageRemain) + 1] = prog.data[p - prog.addr + 1]
      BY <2>7
    <3>1. /\ p - (prog.addr + PageRemain) + 1 \in 1 .. Len(prog.data) - PageRemain
          /\ PageRemain + (p - (prog.addr + PageRemain) + 1) = p - prog.addr + 1
      <4>1. PageRemain \in Nat /\ prog.addr \in Nat /\ Len(prog.data) \in Nat
        BY <1>1
      <4> QED BY SMTT(30), <4>1
    <3> QED BY <2>4, <3>1
  <2>9. DOMAIN pendingWrite' \subseteq DOMAIN pendingWrite
    <3>1. DeviceSize \in Nat
      BY GeometryAssumption
    <3> QED BY SMTT(30), <1>1, <2>3, <2>7, <3>1 DEF Place
  <2>10. \A p \in DOMAIN pendingWrite : p \notin DOMAIN pendingWrite' => After[p] = pendingWrite[p]
    BY <1>1, <2>3, <2>7 DEF Place
  <2>11. \A p \in Place : \/ After[p] = flash[p]
                          \/ p \in DOMAIN pendingWrite /\ After[p] = pendingWrite[p]
    BY <1>1, <2>3 DEF Place
  <2>12. Bytes!Progress
    BY <2>2, <2>3, <2>8, <2>9, <2>10, <2>11, ByProgress
  <2> QED BY <2>12 DEF Bytes!Next
<1> QED BY <1>2, <1>3

\* The last page of a stretch.
LEMMA LastPageRefines ==
  ASSUME NorType, DriverOK, NorType', nor = "page", PageRemain = Len(prog.data),
         flash' = After, prog' = NoData, was' = Nothing, UNCHANGED <<buf, checks>>,
         IF checks /\ Share < Len(rest.data)
         THEN nor' = "sector" /\ rest' = Dropped(rest, Share)
         ELSE nor' = "done" /\ rest' = rest
  PROVE  Bytes!Progress
<1>1. /\ Len(prog.data) \in Nat /\ prog.addr \in Nat
      /\ \A p \in Place : After[p] = IF prog.addr <= p /\ p < prog.addr + PageRemain
                                     THEN prog.data[p - prog.addr + 1] ELSE flash[p]
  BY AfterIs
<1>2. Bytes_store' = After
  BY DEF Bytes_store
<1>3. CASE checks
  <2>1. InProgress = rest /\ InProgress' = rest'
    BY <1>3 DEF InProgress
  <2>2. /\ DOMAIN pendingWrite = {p \in Place : rest.addr <= p /\ p < rest.addr + Len(rest.data)}
        /\ \A p \in DOMAIN pendingWrite : pendingWrite[p] = rest.data[p - rest.addr + 1]
    BY <2>1, PendingIs
  <2>3. /\ rest.addr \in Nat /\ rest.data \in Seq(Unit) /\ Len(rest.data) \in Nat
        /\ Share \in 0 .. Len(rest.data) /\ rest.addr + Len(rest.data) <= DeviceSize
    BY SectorFacts, LenProperties DEF NorType
  <2>4. /\ \A p \in Place : Lo <= p /\ p < Hi => After[p] = Want(p)
        /\ \A p \in Place : p < Lo \/ Hi <= p => After[p] = flash[p]
        /\ Lo \in Nat /\ Hi \in Nat
    <3>1. Hi = prog.addr + PageRemain
      BY <1>3, AfterPaging
    <3> QED BY <1>3, <3>1, AfterPaging
  <2>5. Lo <= rest.addr /\ rest.addr + Share <= Hi
    <3>1. SectorAt \in Nat /\ SectorAt <= rest.addr /\ rest.addr + Share <= SectorAt + SectorSize
      BY <2>3, SectorFacts DEF SectorAt
    <3> QED BY <2>3, <3>1 DEF Lo, Hi
  <2>6. \A p \in Place : rest.addr <= p /\ p < rest.addr + Share
                         => p \in DOMAIN pendingWrite /\ After[p] = pendingWrite[p]
    <3> SUFFICES ASSUME NEW p \in Place, rest.addr <= p, p < rest.addr + Share
                 PROVE  p \in DOMAIN pendingWrite /\ After[p] = pendingWrite[p]
      OBVIOUS
    <3>1. p \in DOMAIN pendingWrite
      BY <2>2, <2>3 DEF Place
    <3>2. Lo <= p /\ p < Hi /\ p \in rest.addr .. rest.addr + Share - 1
      BY <2>3, <2>4, <2>5 DEF Place
    <3> QED BY <2>2, <2>4, <3>1, <3>2 DEF Want
  <2>7. \A p \in Place : ~(rest.addr <= p /\ p < rest.addr + Share) => After[p] = Bytes_store[p]
    <3> SUFFICES ASSUME NEW p \in Place, ~(rest.addr <= p /\ p < rest.addr + Share)
                 PROVE  After[p] = Bytes_store[p]
      OBVIOUS
    <3>1. CASE Lo <= p /\ p < Hi
      <4>1. p \notin rest.addr .. rest.addr + Share - 1
        BY <2>3 DEF Place
      <4>2. was # Nothing
        BY <2>3, <3>1 DEF Lo, Hi, Place
      <4> QED BY <2>4, <3>1, <4>1, <4>2 DEF Want, Bytes_store
    <3>2. CASE p < Lo \/ Hi <= p
      <4>1. Paging
        BY <1>3 DEF DriverOK
      <4>2. After[p] = flash[p]
        BY <2>4, <3>2
      <4> QED BY <3>2, <4>1, <4>2 DEF Paging, Bytes_store
    <3> QED BY <2>4, <3>1, <3>2 DEF Place
  <2>8. \A p \in Place : \/ Bytes_store'[p] = Bytes_store[p]
                         \/ p \in DOMAIN pendingWrite /\ Bytes_store'[p] = pendingWrite[p]
    BY <1>2, <2>6, <2>7
  <2>9. CASE Share < Len(rest.data)
    <3> DEFINE tail == SubSeq(rest.data, Share + 1, Len(rest.data))
    <3>0. tail \in Seq(Unit)
      BY <2>3, Parts
    <3>1. /\ Len(tail) = Len(rest.data) - Share
          /\ \A k \in 1 .. Len(rest.data) - Share : tail[k] = rest.data[Share + k]
      BY <2>3, Parts
    <3>2. rest' = [addr |-> rest.addr + Share, data |-> tail]
      BY <1>3, <2>9 DEF Dropped
    <3> HIDE DEF tail
    <3>3. Share \in Nat /\ rest.addr \in Nat /\ Len(rest.data) \in Nat
      BY <2>3
    <3>4. /\ rest'.addr = rest.addr + Share
          /\ rest'.addr + Len(rest'.data) = rest.addr + Len(rest.data)
      BY <3>1, <3>2, <3>3
    <3>5. /\ DOMAIN pendingWrite' = {p \in Place : rest'.addr <= p /\ p < rest'.addr + Len(rest'.data)}
          /\ \A p \in DOMAIN pendingWrite' : pendingWrite'[p] = rest'.data[p - rest'.addr + 1]
      <4>1. pendingWrite' = [p \in rest'.addr .. rest'.addr + Len(rest'.data) - 1 |->
                               rest'.data[p - rest'.addr + 1]]
        BY <1>3 DEF pendingWrite
      <4>2. tail \in Seq(Unit) /\ rest'.data = tail
        BY <3>0, <3>2
      <4>3. rest'.addr \in Nat /\ rest'.addr + Len(tail) <= DeviceSize
        BY <2>3, <3>3, <3>4, <4>2
      <4>4. pendingWrite' = [p \in rest'.addr .. rest'.addr + Len(tail) - 1 |->
                               tail[p - rest'.addr + 1]]
        BY <4>1, <4>2
      <4>5. /\ DOMAIN pendingWrite' = {p \in Place : rest'.addr <= p /\ p < rest'.addr + Len(tail)}
            /\ \A p \in DOMAIN pendingWrite' : pendingWrite'[p] = tail[p - rest'.addr + 1]
        <5> DEFINE a == rest'.addr
        <5>1. a \in Nat /\ a + Len(tail) <= DeviceSize
              /\ pendingWrite' = [p \in a .. a + Len(tail) - 1 |-> tail[p - a + 1]]
          BY <4>3, <4>4
        <5> HIDE DEF a
        <5>2. /\ DOMAIN pendingWrite' = {p \in Place : a <= p /\ p < a + Len(tail)}
              /\ \A p \in DOMAIN pendingWrite' : pendingWrite'[p] = tail[p - a + 1]
          BY ZenonT(40), <4>2, <5>1, PendingOf
        <5> QED BY <5>2 DEF a
      <4> QED BY <4>2, <4>5
    <3>6. DOMAIN pendingWrite' \subseteq DOMAIN pendingWrite
      BY <2>2, <3>3, <3>4, <3>5 DEF Place
    <3>7. \A p \in DOMAIN pendingWrite' : pendingWrite'[p] = pendingWrite[p]
      <4> SUFFICES ASSUME NEW p \in DOMAIN pendingWrite' PROVE pendingWrite'[p] = pendingWrite[p]
        OBVIOUS
      <4>1. p \in Nat /\ rest.addr + Share <= p /\ p < rest.addr + Len(rest.data)
        BY <3>4, <3>5 DEF Place
      <4>2. p - (rest.addr + Share) + 1 \in 1 .. Len(rest.data) - Share
            /\ Share + (p - (rest.addr + Share) + 1) = p - rest.addr + 1
        BY <3>3, <4>1
      <4>3. tail[p - (rest.addr + Share) + 1] = rest.data[p - rest.addr + 1]
        BY <3>1, <4>2
      <4>4. pendingWrite'[p] = tail[p - (rest.addr + Share) + 1]
        BY <3>2, <3>4, <3>5
      <4> QED BY <2>2, <3>6, <4>3, <4>4
    <3>8. \A p \in DOMAIN pendingWrite : p \notin DOMAIN pendingWrite'
                                         => Bytes_store'[p] = pendingWrite[p]
      <4> SUFFICES ASSUME NEW p \in DOMAIN pendingWrite, p \notin DOMAIN pendingWrite'
                   PROVE  Bytes_store'[p] = pendingWrite[p]
        OBVIOUS
      <4>1. p \in Place /\ rest.addr <= p /\ p < rest.addr + Share
        BY <2>2, <3>3, <3>4, <3>5 DEF Place
      <4> QED BY <1>2, <2>6, <4>1
    <3> QED BY <2>8, <3>6, <3>7, <3>8, ByProgress
  <2>10. CASE ~(Share < Len(rest.data))
    <3>1. pendingWrite' = pendingWrite
      BY <1>3, <2>10 DEF pendingWrite
    <3> QED BY <2>8, <3>1, ByProgress
  <2> QED BY <2>9, <2>10
<1>4. CASE ~checks
  <2>1. was = Nothing /\ InProgress = prog /\ InProgress' = prog'
    BY <1>4 DEF DriverOK, InProgress
  <2>2. Bytes_store = flash
    BY <2>1 DEF Bytes_store
  <2>3. /\ DOMAIN pendingWrite = {p \in Place : prog.addr <= p /\ p < prog.addr + Len(prog.data)}
        /\ \A p \in DOMAIN pendingWrite : pendingWrite[p] = prog.data[p - prog.addr + 1]
    BY <2>1, PendingIs
  <2>4. pendingWrite' = [p \in 0 .. 0 + Len(<< >>) - 1 |-> << >>[p - 0 + 1]]
    BY <1>4 DEF pendingWrite, NoData
  <2>5. DOMAIN pendingWrite' = {}
    <3>1. 0 .. 0 + Len(<< >>) - 1 = {}
      BY EmptySeq
    <3> QED BY <2>4, <3>1
  <2> QED BY <1>1, <1>2, <2>2, <2>3, <2>5, ByProgress
<1> QED BY <1>3, <1>4

\* Every step of the driver is a step of the store, or none.
LEMMA NorStepRefines ==
  ASSUME NorType, DriverOK, NorStep
  PROVE  [Bytes!Next]_<<Bytes_store, pendingWrite>>
<1>1. NorType'
  BY NorStepOK
<1>2. CASE LookSector
  <2>1. checks /\ UNCHANGED <<flash, was, rest, checks>>
    BY <1>2 DEF DriverOK, LookSector
  <2> QED BY <2>1 DEF Bytes_store, pendingWrite
<1>3. CASE EraseSector
  <2>1. was = Nothing /\ was' = flash /\ checks /\ UNCHANGED <<rest, checks>>
    BY <1>3 DEF DriverOK, EraseSector
  <2>2. was' # Nothing
    BY <2>1, ArrayIsSomething DEF NorType
  <2> QED BY <2>1, <2>2 DEF Bytes_store, pendingWrite
<1>4. CASE ProgramPage
  <2>1. nor = "page" /\ flash' = After /\ UNCHANGED <<buf, checks>>
    BY <1>4 DEF ProgramPage, After
  <2>2. PageRemain \in 0 .. Len(prog.data) /\ Len(prog.data) \in Nat
    BY <2>1, AfterIs
  <2>3. CASE PageRemain < Len(prog.data)
    <3>1. prog' = Dropped(prog, PageRemain) /\ UNCHANGED <<nor, rest, was>>
      BY <1>4, <2>3 DEF ProgramPage
    <3> QED BY <1>1, <2>1, <2>3, <3>1, PageOfManyRefines
  <2>4. CASE ~(PageRemain < Len(prog.data))
    <3>1. PageRemain = Len(prog.data)
      BY <2>2, <2>4
    <3>2. /\ prog' = NoData /\ was' = Nothing
          /\ IF checks /\ Share < Len(rest.data)
             THEN nor' = "sector" /\ rest' = Dropped(rest, Share)
             ELSE nor' = "done" /\ rest' = rest
      BY <1>4, <2>4 DEF ProgramPage
    <3>3. Bytes!Progress
      BY <1>1, <2>1, <3>1, <3>2, LastPageRefines
    <3> QED BY <3>3 DEF Bytes!Next
  <2> QED BY <2>3, <2>4
<1> QED BY <1>2, <1>3, <1>4 DEF NorStep

\* A call begins a write.
LEMMA CallRefines ==
  ASSUME NorType, NorType', DriverOK, nor = "idle", UNCHANGED <<flash, was>>,
         NEW addr \in Nat, NEW data \in Seq(Unit), addr + Len(data) <= DeviceSize,
         (IF checks' THEN rest' ELSE prog') = [addr |-> addr, data |-> data]
  PROVE  Bytes!Begin
<1>1. pendingWrite = << >> /\ Bytes_store' = Bytes_store
  BY NothingPending DEF Bytes_store
<1>2. pendingWrite' = [p \in addr .. addr + Len(data) - 1 |-> data[p - addr + 1]]
  <2>1. CASE checks'
    <3>1. rest' = [addr |-> addr, data |-> data]
      BY <2>1
    <3> QED BY <2>1, <3>1 DEF pendingWrite
  <2>2. CASE ~checks'
    <3>1. prog' = [addr |-> addr, data |-> data]
      BY <2>2
    <3> QED BY <2>2, <3>1 DEF pendingWrite
  <2> QED BY <2>1, <2>2
<1>3. DOMAIN pendingWrite' \subseteq Place
  <2>1. addr .. addr + Len(data) - 1 = {p \in Place : addr <= p /\ p < addr + Len(data)}
    <3>1. Len(data) \in Nat /\ DeviceSize \in Nat
      BY LenProperties, GeometryAssumption
    <3> QED BY <3>1 DEF Place
  <2> QED BY <1>2, <2>1
<1> QED BY <1>1, <1>3 DEF Bytes!Begin, Bytes!None, Bytes_store

\* No driver, no write in progress.
LEMMA Ended ==
  ASSUME rest' = NoData, prog' = NoData
  PROVE  pendingWrite' = << >>
<1>1. pendingWrite' = [p \in 0 .. 0 + Len(<< >>) - 1 |-> << >>[p - 0 + 1]]
  BY DEF pendingWrite, NoData
<1>2. 0 .. 0 + Len(<< >>) - 1 = {}
  BY EmptySeq
<1>3. DOMAIN pendingWrite' = {} /\ pendingWrite' = [x \in DOMAIN pendingWrite' |-> pendingWrite'[x]]
  BY <1>1, <1>2
<1> QED BY <1>3, NoDomain

\* A call that has ended has written all of its bytes.
LEMMA EndRefines ==
  ASSUME NorType, NorType', DriverOK, nor = "done", flash' = flash, was' = Nothing,
         rest' = NoData, prog' = NoData
  PROVE  Bytes!Progress
<1>1. pendingWrite' = << >>
  BY Ended
<1>2. Bytes_store = flash /\ Bytes_store' = flash
  BY DEF DriverOK, Bytes_store
<1>3. \A p \in DOMAIN pendingWrite : flash[p] = pendingWrite[p]
  <2>1. CASE checks
    <3>1. InProgress = rest /\ \A k \in 1 .. Len(rest.data) : flash[rest.addr + k - 1] = rest.data[k]
      BY <2>1 DEF DriverOK, InProgress
    <3>2. /\ DOMAIN pendingWrite = {p \in Place : rest.addr <= p /\ p < rest.addr + Len(rest.data)}
          /\ \A p \in DOMAIN pendingWrite : pendingWrite[p] = rest.data[p - rest.addr + 1]
          /\ rest.addr \in Nat /\ Len(rest.data) \in Nat
      BY <3>1, PendingIs
    <3> SUFFICES ASSUME NEW p \in DOMAIN pendingWrite PROVE flash[p] = pendingWrite[p]
      OBVIOUS
    <3>3. p - rest.addr + 1 \in 1 .. Len(rest.data) /\ rest.addr + (p - rest.addr + 1) - 1 = p
      BY <3>2 DEF Place
    <3> QED BY <3>1, <3>2, <3>3
  <2>2. CASE ~checks
    <3>1. InProgress = prog /\ prog.data = << >>
      BY <2>2 DEF DriverOK, InProgress
    <3>2. pendingWrite = << >>
      BY <3>1, PendingIs
    <3> QED BY <3>2
  <2> QED BY <2>1, <2>2
<1> QED BY <1>1, <1>2, <1>3, ByProgress

\* A block is erased between two calls.
LEMMA EraseBlockRefines ==
  ASSUME NorType, NorType', DriverOK, nor = "idle", erase \in Place,
         flash' = Erased(flash, erase, BlockSize), UNCHANGED norVars
  PROVE  Bytes!EraseBlock
<1>1. pendingWrite = << >> /\ pendingWrite' = pendingWrite /\ Bytes_store = flash
  BY NothingPending DEF pendingWrite, norVars
<1>2. Bytes_store' = flash'
  BY DEF norVars, DriverOK, Bytes_store
<1>3. flash' = [p \in Place |-> IF p \div BlockSize = erase \div BlockSize THEN Blank ELSE flash[p]]
  BY DEF Erased
<1> QED BY ZenonT(40), <1>1, <1>2, <1>3 DEF Bytes!EraseBlock, Bytes!None, Bytes_store

\* The erase of a block is cut short.
LEMMA CutEraseRefines ==
  ASSUME NorType, NorType', DriverOK, nor = "idle", erase \in Place, UNCHANGED norVars,
         \A p \in Place : \/ flash'[p] = flash[p]
                          \/ p \div BlockSize = erase \div BlockSize /\ flash'[p] = Blank
  PROVE  Bytes!CutErase
<1>1. pendingWrite = << >> /\ pendingWrite' = pendingWrite /\ Bytes_store = flash
  BY NothingPending DEF pendingWrite, norVars
<1>2. Bytes_store' = flash'
  BY DEF norVars, DriverOK, Bytes_store
<1>3. DOMAIN flash' = Place
  BY DEF NorType
<1>4. \E b \in {p \div BlockSize : p \in Place} :
        \A p \in Place : \/ flash'[p] = flash[p]
                         \/ p \div BlockSize = b /\ flash'[p] = Blank
  OBVIOUS
<1> QED BY <1>1, <1>2, <1>3, <1>4 DEF Bytes!CutErase, Bytes!None, Bytes_store

\* A power cut spoils no more than the sector of a byte that was pending.
LEMMA ByCut ==
  ASSUME NorType', pendingWrite' = << >>, NEW q \in DOMAIN pendingWrite,
         \A p \in Place : Bytes_store'[p] = Bytes_store[p] \/ p \div SectorSize = q \div SectorSize
  PROVE  Bytes!Cut
<1>1. DOMAIN Bytes_store' = Place
  <2>1. Bytes_store' \in [Place -> Unit]
    BY DEF NorType, Bytes_store
  <2> QED BY <2>1
<1> QED BY <1>1 DEF Bytes!Cut, Bytes!None, Bytes_store

\* A sector is all of its places.
LEMMA InOneSector ==
  ASSUME NEW s \in Nat, s % SectorSize = 0, NEW p \in Place, NEW q \in Place,
         s <= p, p < s + SectorSize, s <= q, q < s + SectorSize
  PROVE  p \div SectorSize = q \div SectorSize
<1>1. SectorSize \in Nat \ {0} /\ p \in Nat /\ q \in Nat
  BY GeometryAssumption DEF Place
<1>2. p \div SectorSize = s \div SectorSize
  BY <1>1, SameBlock
<1>3. q \div SectorSize = s \div SectorSize
  BY <1>1, SameBlock
<1> QED BY <1>2, <1>3

\* Rounded down to a multiple.
LEMMA RoundDown ==
  ASSUME NEW z \in Nat \ {0}, NEW a \in Nat
  PROVE  /\ a % z \in 0 .. z - 1 /\ a - (a % z) \in Nat /\ (a - (a % z)) % z = 0
         /\ a - (a % z) <= a /\ a < (a - (a % z)) + z
<1> DEFINE k == a \div z
           m == a % z
<1>0. a \in Int
  OBVIOUS
<1>1. a = z * k + m /\ k \in Int /\ m \in 0 .. z - 1 /\ k \in Nat
  BY <1>0, DivMod, Zenon
<1> HIDE DEF k, m
<1>2. a - m = z * k + 0 /\ a - m \in Nat
  BY <1>1
<1>3. (a - m) % z = 0
  <2>1. 0 \in 0 .. z - 1 /\ a - m \in Int
    BY <1>2
  <2> QED BY <1>1, <1>2, <2>1, DivUnique
<1>4. a - m <= a /\ a < (a - m) + z
  BY <1>1
<1> QED BY <1>1, <1>2, <1>3, <1>4 DEF m

\* What is left of a page lies within a sector.
LEMMA PageInSector ==
  ASSUME NEW a \in Place, NEW n \in Nat, n <= PageSize - (a % PageSize),
         NEW p \in Place, a <= p, p < a + n
  PROVE  p \div SectorSize = a \div SectorSize
<1> DEFINE s == a - (a % SectorSize)
           g == a - (a % PageSize)
<1>0. /\ SectorSize \in Nat \ {0} /\ PageSize \in Nat \ {0} /\ SectorSize % PageSize = 0
      /\ a \in Nat /\ p \in Nat
  BY GeometryAssumption DEF Place
<1>2. s \in Nat /\ s % SectorSize = 0 /\ s <= a /\ a < s + SectorSize
  BY <1>0, RoundDown
<1>3. g \in Nat /\ g % PageSize = 0 /\ g <= a /\ a + n <= g + PageSize
  <2> DEFINE m == a % PageSize
  <2>1. m \in 0 .. PageSize - 1 /\ a - m \in Nat /\ (a - m) % PageSize = 0 /\ n <= PageSize - m
    BY <1>0, RoundDown
  <2> HIDE DEF m
  <2>2. a - m <= a /\ a + n <= (a - m) + PageSize
    BY <1>0, <2>1
  <2> QED BY <2>1, <2>2 DEF m
<1> HIDE DEF s, g
<1>4. (s + SectorSize) % SectorSize = 0 /\ s + SectorSize \in Int
  BY SMTT(30), <1>0, <1>2, NextMultiple
<1>5. (s + SectorSize) % PageSize = 0
  BY <1>0, <1>4, MultipleOfMultiple
<1>6. g + PageSize <= s + SectorSize
  <2>1. g < s + SectorSize
    BY <1>0, <1>2, <1>3
  <2> QED BY <1>0, <1>3, <1>4, <1>5, <2>1, NextMultiple
<1>7. s <= p /\ p < s + SectorSize
  BY <1>0, <1>2, <1>3, <1>6
<1> QED BY <1>2, <1>7, InOneSector

\* The power goes between two commands to the chip, or during one.
LEMMA NorCutRefines ==
  ASSUME NorType, DriverOK, NorCut
  PROVE  [Bytes!Next]_<<Bytes_store, pendingWrite>>
<1>1. /\ NorType' /\ \A p \in Place : flash'[p] = flash[p] \/ Reaches(p)
      /\ was' = Nothing /\ rest' = NoData /\ prog' = NoData
  BY NorCutOK DEF NorCut
<1>2. pendingWrite' = << >> /\ Bytes_store' = flash'
  BY <1>1, Ended DEF Bytes_store
<1>3. ASSUME nor \notin {"page", "erase"} PROVE flash' = flash /\ Bytes_store = flash
  BY <1>3 DEF NorCut, DriverOK, Bytes_store
<1>4. ASSUME NEW q \in DOMAIN pendingWrite,
             \A p \in Place : flash'[p] = Bytes_store[p] \/ p \div SectorSize = q \div SectorSize
      PROVE  Bytes!Next
  <2>1. Bytes!Cut
    BY <1>1, <1>2, <1>4, ByCut
  <2> QED BY <2>1 DEF Bytes!Next
<1>5. ASSUME \A p \in Place : ~Reaches(p) PROVE flash' = flash
  <2>1. flash \in [Place -> Unit] /\ flash' \in [Place -> Unit]
    BY <1>1 DEF NorType
  <2>2. \A p \in Place : flash'[p] = flash[p]
    BY <1>1, <1>5
  <2> QED BY <2>1, <2>2
<1>6. /\ Off \in 0 .. SectorSize - 1 /\ SectorAt \in Nat /\ SectorAt % SectorSize = 0
      /\ SectorSize \in Nat \ {0} /\ rest.addr = SectorAt + Off
      /\ Share \in Nat /\ rest.addr + Share <= SectorAt + SectorSize
  BY SectorFacts, GeometryAssumption
<1>7. ASSUME checks, rest.data # << >>
      PROVE  /\ rest.addr \in DOMAIN pendingWrite /\ rest.addr \in Place
             /\ SectorAt <= rest.addr /\ rest.addr < SectorAt + SectorSize
  <2>1. InProgress = rest
    BY <1>7 DEF InProgress
  <2>2. /\ DOMAIN pendingWrite = {p \in Place : rest.addr <= p /\ p < rest.addr + Len(rest.data)}
        /\ rest.addr \in Nat /\ Len(rest.data) \in Nat /\ rest.addr + Len(rest.data) <= DeviceSize
    BY <2>1, PendingIs
  <2>3. Len(rest.data) > 0 /\ DeviceSize \in Nat
    <3>1. rest.data \in Seq(Unit)
      BY DEF NorType
    <3>2. Len(rest.data) # 0
      BY <1>7, <3>1, EmptySeq
    <3> QED BY <2>2, <3>2, GeometryAssumption
  <2>4. rest.addr \in Place
    BY <2>2, <2>3 DEF Place
  <2>5. rest.addr \in DOMAIN pendingWrite
    BY <2>2, <2>3, <2>4
  <2>6. SectorAt <= rest.addr /\ rest.addr < SectorAt + SectorSize
    BY <1>6
  <2> QED BY <2>4, <2>5, <2>6
<1>8. ASSUME checks, rest.data # << >>,
             \A p \in Place : flash'[p] = Bytes_store[p] \/ (SectorAt <= p /\ p < SectorAt + SectorSize)
      PROVE  Bytes!Next
  <2>1. \A p \in Place : SectorAt <= p /\ p < SectorAt + SectorSize
                         => p \div SectorSize = rest.addr \div SectorSize
    BY <1>6, <1>7, <1>8, InOneSector
  <2> QED BY <1>4, <1>7, <1>8, <2>1
<1>9. CASE nor = "done"
  <2>1. Bytes!Progress
    BY <1>1, <1>3, <1>9, EndRefines
  <2> QED BY <2>1 DEF Bytes!Next
<1>10. CASE nor = "idle"
  BY <1>2, <1>3, <1>10, NothingPending
<1>11. CASE nor = "sector"
  <2>1. checks
    BY <1>11 DEF DriverOK
  <2>2. CASE rest.data = << >>
    <3>1. pendingWrite = << >>
      BY <2>1, <2>2, PendingIs DEF InProgress
    <3> QED BY <1>2, <1>3, <1>11, <3>1
  <2>3. CASE rest.data # << >>
    BY <1>3, <1>8, <1>11, <2>1, <2>3
  <2> QED BY <2>2, <2>3
<1>12. CASE nor = "erase"
  <2>1. checks /\ rest.data # << >> /\ was = Nothing
    BY <1>12 DEF DriverOK
  <2>2. \A p \in Place : flash'[p] = flash[p] \/ (SectorAt <= p /\ p < SectorAt + SectorSize)
    BY <1>1, <1>12 DEF Reaches
  <2> QED BY <1>8, <2>1, <2>2 DEF Bytes_store
<1>13. CASE nor = "page" /\ checks
  <2>1. Paging /\ Len(prog.data) \in Nat /\ prog.addr \in Nat /\ PageRemain \in 0 .. Len(prog.data)
    BY <1>13, AfterIs DEF DriverOK
  <2>2. Lo <= prog.addr /\ prog.addr + Len(prog.data) = Hi /\ Lo \in Nat /\ Hi \in Nat
    BY <1>13, AfterPaging
  <2>3. SectorAt <= Lo /\ Hi <= SectorAt + SectorSize
    BY <1>6 DEF Lo, Hi
  <2>4. \A p \in Place : Reaches(p) => Lo <= p /\ p < Hi
    BY <1>13, <2>1, <2>2 DEF Reaches, Place
  <2>5. \A p \in Place : Lo <= p /\ p < Hi => SectorAt <= p /\ p < SectorAt + SectorSize
    BY <1>6, <2>2, <2>3 DEF Place
  <2>6. CASE was = Nothing
    <3>1. Bytes_store = flash
      BY <2>6 DEF Bytes_store
    <3>2. CASE rest.data = << >>
      <4>1. pendingWrite = << >>
        BY <1>13, <3>2, PendingIs DEF InProgress
      <4>2. Lo = rest.addr /\ Hi = rest.addr + Share /\ Share <= Len(rest.data) /\ Len(rest.data) = 0
        BY <2>6, <3>2, SectorFacts, EmptySeq DEF Lo, Hi
      <4>3. \A p \in Place : ~Reaches(p)
        <5>1. Share = 0 /\ rest.addr \in Nat
          BY <1>6, <4>2
        <5> QED BY <2>4, <4>2, <5>1 DEF Place
      <4> QED BY <1>2, <1>5, <3>1, <4>1, <4>3
    <3>3. CASE rest.data # << >>
      BY <1>1, <1>8, <1>13, <2>4, <2>5, <3>1, <3>3
    <3> QED BY <3>2, <3>3
  <2>7. CASE was # Nothing
    <3>1. Bytes_store = was /\ rest.data # << >>
      BY <2>1, <2>7 DEF Bytes_store, Paging
    <3>2. \A p \in Place : p < Lo \/ Hi <= p => flash[p] = was[p]
      BY <2>1, <2>7 DEF Paging
    <3>3. \A p \in Place : flash'[p] = was[p] \/ (Lo <= p /\ p < Hi)
      BY <1>1, <2>2, <2>4, <3>2 DEF Place
    <3> QED BY <1>8, <1>13, <2>5, <3>1, <3>3
  <2> QED BY <2>6, <2>7
<1>14. CASE nor = "page" /\ ~checks
  <2>1. InProgress = prog /\ Bytes_store = flash
    BY <1>14 DEF DriverOK, InProgress, Bytes_store
  <2>2. /\ DOMAIN pendingWrite = {p \in Place : prog.addr <= p /\ p < prog.addr + Len(prog.data)}
        /\ Len(prog.data) \in Nat /\ prog.addr \in Nat /\ PageRemain \in 0 .. Len(prog.data)
        /\ prog.addr + Len(prog.data) <= DeviceSize
    BY <1>14, <2>1, PendingIs, AfterIs
  <2>3. CASE PageRemain = 0
    <3>1. \A p \in Place : ~Reaches(p)
      BY <1>14, <2>2, <2>3 DEF Reaches, Place
    <3>2. prog.data = << >>
      <4>1. Len(prog.data) = 0
        <5>1. prog.addr % PageSize \in 0 .. PageSize - 1 /\ PageSize \in Nat \ {0}
          BY <2>2, RoundDown, GeometryAssumption
        <5> QED BY <2>2, <2>3, <5>1 DEF PageRemain, Least
      <4> QED BY <4>1, EmptySeq DEF NorType
    <3>3. pendingWrite = << >>
      BY <2>1, <3>2, PendingIs
    <3> QED BY <1>2, <1>5, <2>1, <3>1, <3>3
  <2>4. CASE PageRemain # 0
    <3>1. prog.addr \in Place /\ prog.addr \in DOMAIN pendingWrite
      <4>1. DeviceSize \in Nat
        BY GeometryAssumption
      <4> QED BY <2>2, <2>4, <4>1 DEF Place
    <3>2. PageRemain <= PageSize - (prog.addr % PageSize) /\ PageRemain \in Nat
      <4>1. prog.addr % PageSize \in 0 .. PageSize - 1 /\ PageSize \in Nat \ {0}
        BY <2>2, RoundDown, GeometryAssumption
      <4> QED BY <2>2, <4>1 DEF PageRemain, Least
    <3>3. \A p \in Place : Reaches(p) => p \div SectorSize = prog.addr \div SectorSize
      <4> SUFFICES ASSUME NEW p \in Place, Reaches(p)
                   PROVE  p \div SectorSize = prog.addr \div SectorSize
        OBVIOUS
      <4>1. prog.addr <= p /\ p < prog.addr + PageRemain
        BY <1>14 DEF Reaches
      <4> QED BY <3>1, <3>2, <4>1, PageInSector
    <3> QED BY <1>1, <1>4, <2>1, <3>1, <3>3
  <2> QED BY <2>3, <2>4
<1> QED BY <1>9, <1>10, <1>11, <1>12, <1>13, <1>14 DEF NorType

-----------------------------------------------------------------------------
(* Where the fonts lie.                                                    *)

\* Any of the fonts have a first one among them.
LEMMA FirstOf ==
  ASSUME NEW A \in SUBSET Font, A # {}
  PROVE  \E x \in A : \A y \in A : x <= y
<1> DEFINE Below(x) == {y \in A : y < x}
           T == {Below(x) : x \in A}
<1>0. IsFiniteSet(A) /\ A \subseteq Int
  <2>1. IsFiniteSet(Font) /\ Font \subseteq Int
    BY FS_Interval, FontAssumption DEF Font
  <2> QED BY <2>1, FS_Subset
<1>1. T \subseteq FiniteSubsetsOf(A) /\ T # {}
  <2>1. \A x \in A : IsFiniteSet(Below(x)) /\ Below(x) \in SUBSET A
    BY <1>0, FS_Subset
  <2> QED BY <2>1 DEF FiniteSubsetsOf
<1>2. PICK U \in T : \A V \in T : <<V, U>> \notin StrictSubsetOrdering(A)
  BY <1>0, <1>1, WFMin, FS_StrictSubsetOrderingWellFounded
<1>3. PICK x \in A : U = Below(x)
  OBVIOUS
<1>4. \A y \in A : x <= y
  <2> SUFFICES ASSUME NEW y \in A, y < x PROVE FALSE
    BY <1>0
  <2>1. \A z \in Below(y) : z \in Below(x)
    BY <1>0
  <2>2. y \in Below(x) /\ y \notin Below(y)
    BY <1>0
  <2>3. Below(y) \in SUBSET A /\ Below(x) \in SUBSET A /\ Below(y) \in T
    OBVIOUS
  <2> HIDE DEF Below, T
  <2>4. <<Below(y), Below(x)>> \in StrictSubsetOrdering(A)
    BY <2>1, <2>2, <2>3 DEF StrictSubsetOrdering
  <2> QED BY <1>2, <1>3, <2>3, <2>4
<1> QED BY <1>4

\* The files of a card, and where they come to lie.
LEMMA CardFacts ==
  ASSUME NEW c \in Cards
  PROVE  /\ NFonts \in Nat \ {0} /\ FirstFont \in Nat /\ FirstFont = FontBase + NFonts + 1
         /\ \A i \in Font : /\ i \in Nat /\ c[i] \in Seq(Byte) /\ c[i] \in Seq(Unit)
                            /\ Len(c[i]) \in Nat /\ Start[c][i] \in Nat
         /\ Start[c][1] = FirstFont /\ EndOf(c) \in Nat /\ EndOf(c) <= ImageBase
         /\ \A i \in Font : i > 1 => Start[c][i] = Start[c][i - 1] + Len(c[i - 1])
<1>1. NFonts \in Nat \ {0} /\ FontBase \in Nat /\ c \in [Font -> Seq(Byte)]
  BY FontAssumption, LayoutAssumption
<1>2. \A i \in Font : c[i] \in Seq(Byte) /\ Len(c[i]) \in Nat
  BY <1>1, LenProperties
<1>3. \A d \in Seq(Byte) : d \in Seq(Unit)
  BY SeqDef DEF Unit
<1>4. \A i \in Font : i \in Nat /\ Start[c][i] \in Nat
  <2>1. Start[c] \in [Font -> Nat]
    BY StartAssumption
  <2>2. \A i \in Font : i \in Nat
    BY <1>1 DEF Font
  <2> QED BY <2>1, <2>2
<1>5. EndOf(c) \in Nat /\ EndOf(c) <= ImageBase
  <2>1. NFonts \in Font
    BY <1>1 DEF Font
  <2> QED BY <1>2, <1>4, <2>1, StartAssumption DEF EndOf
<1> QED BY <1>1, <1>2, <1>3, <1>4, <1>5, StartAssumption DEF FirstFont

\* A font ends before any later one begins.
LEMMA Ordered ==
  ASSUME NEW c \in Cards, NEW k \in Font, NEW l \in Font, k < l
  PROVE  Start[c][k] + Len(c[k]) <= Start[c][l]
<1> DEFINE Early(j) == \E i \in Font : i < j /\ ~(Start[c][i] + Len(c[i]) <= Start[c][j])
           A == {j \in Font : Early(j)}
<1> SUFFICES ASSUME A # {} PROVE FALSE
  OBVIOUS
<1>1. PICK j \in A : \A y \in A : j <= y
  <2>1. A \in SUBSET Font
    OBVIOUS
  <2> HIDE DEF A
  <2> QED BY <2>1, FirstOf
<1>2. PICK i \in Font : i < j /\ ~(Start[c][i] + Len(c[i]) <= Start[c][j])
  OBVIOUS
<1>3. j \in Font /\ j - 1 \in Font /\ j > 1 /\ j \in Nat /\ i \in Nat /\ i <= j - 1
  BY <1>2, CardFacts DEF Font
<1>4. j - 1 \notin A
  <2> HIDE DEF A
  <2> QED BY <1>1, <1>3
<1>5. /\ Start[c][j] = Start[c][j - 1] + Len(c[j - 1])
      /\ Start[c][i] \in Nat /\ Len(c[i]) \in Nat /\ Start[c][j - 1] \in Nat /\ Len(c[j - 1]) \in Nat
  BY <1>2, <1>3, CardFacts
<1>6. CASE i = j - 1
  BY <1>2, <1>5, <1>6
<1>7. CASE i < j - 1
  <2>1. ~Early(j - 1)
    BY <1>3, <1>4
  <2>2. Start[c][i] + Len(c[i]) <= Start[c][j - 1]
    BY <1>2, <1>7, <2>1
  <2> QED BY <1>2, <1>5, <2>2
<1> QED BY <1>3, <1>6, <1>7

\* The fonts lie between the descriptor and the end, the descriptor where the area begins.
LEMMA FontPlaces ==
  ASSUME NEW c \in Cards, NEW k \in Font
  PROVE  /\ FirstFont <= Start[c][k] /\ Start[c][k] + Len(c[k]) <= EndOf(c)
         /\ FirstFont <= EndOf(c)
<1>1. /\ 1 \in Font /\ NFonts \in Font /\ k \in Nat /\ 1 <= k /\ k <= NFonts
      /\ Start[c][k] \in Nat /\ Len(c[k]) \in Nat /\ Start[c][1] \in Nat /\ Len(c[1]) \in Nat
      /\ Start[c][NFonts] \in Nat /\ Len(c[NFonts]) \in Nat /\ Start[c][1] = FirstFont
      /\ NFonts \in Nat
  BY CardFacts DEF Font
<1>2. FirstFont <= Start[c][k]
  <2>1. 1 < k => Start[c][1] + Len(c[1]) <= Start[c][k]
    BY <1>1, Ordered
  <2>2. CASE k = 1
    <3>1. Start[c][k] = FirstFont
      BY <1>1, <2>2
    <3> QED BY <1>1, <3>1
  <2>3. CASE 1 < k
    BY <1>1, <2>1, <2>3
  <2> QED BY <1>1, <2>2, <2>3
<1>3. Start[c][k] + Len(c[k]) <= EndOf(c)
  <2>1. k < NFonts => Start[c][k] + Len(c[k]) <= Start[c][NFonts]
    BY <1>1, Ordered
  <2>2. CASE k = NFonts
    <3>1. Start[c][k] + Len(c[k]) = EndOf(c) /\ EndOf(c) \in Nat
      BY <2>2, CardFacts DEF EndOf
    <3> QED BY <3>1
  <2>3. CASE k < NFonts
    <3>1. EndOf(c) = Start[c][NFonts] + Len(c[NFonts])
      BY DEF EndOf
    <3> QED BY SMTT(30), <1>1, <2>1, <2>3, <3>1
  <2>4. k = NFonts \/ k < NFonts
    BY <1>1
  <2> QED BY <2>2, <2>3, <2>4
<1>4. FirstFont <= EndOf(c)
  <2>1. FirstFont \in Nat /\ EndOf(c) \in Nat
    BY CardFacts
  <2> QED BY <1>1, <1>2, <1>3, <2>1
<1> QED BY <1>2, <1>3, <1>4

-----------------------------------------------------------------------------
(* The font store, action by action.                                       *)

\* The conjuncts of TypeOK about the program.
FontType ==
  /\ at \in {"off", "init", "again", "idle", "other", "update", "size", "erase", "open",
            "read", "copy", "seal", "sealing"}
  /\ ftinfo \in [ok : BOOLEAN, field : [Font -> Unit]]
  /\ card \in Cards \union {NoCard}
  /\ fx \in Font /\ offx \in 0 .. Len(card[fx]) /\ bread \in 0 .. Chunk
  /\ total \in Nat /\ erase \in Nat
  /\ failed \in BOOLEAN /\ half \in BOOLEAN /\ faults \in 0 .. MaxFault

\* The parts of the invariant, and the invariant of its parts.
LEMMA OfInv ==
  IInv => /\ NorType /\ FontType /\ DriverOK
          /\ Locals /\ Filled /\ Sealing /\ Store /\ DrawnRight
BY DEF IInv, TypeOK, NorType, FontType

\* The same, for the state after a step.
LEMMA ToInv ==
  ASSUME NorType', FontType', DriverOK', Locals', Filled', Sealing', Store', DrawnRight'
  PROVE  IInv'
BY DEF IInv, TypeOK, NorType, FontType

\* Most steps of a program leave the chip and its driver alone.
LEMMA DriverStays ==
  ASSUME NorType, DriverOK, UNCHANGED <<flash, norVars>>
  PROVE  NorType' /\ DriverOK'
<1> USE DEF norVars
<1>1. NorType'
  BY DEF NorType
<1>2. Off' = Off /\ Share' = Share /\ SectorAt' = SectorAt
  BY SectorKept
<1>3. Lo' = Lo /\ Hi' = Hi
  BY <1>2 DEF Lo, Hi
<1>4. Paging => Paging'
  BY <1>2, <1>3 DEF Paging, Want, BlankFrom, Place
<1>5. DriverOK'
  BY <1>2, <1>4 DEF DriverOK, BlankFrom, InSector, Place
<1> QED BY <1>1, <1>5

\* Then what the store holds stays as well.
LEMMA StoreStays ==
  ASSUME flash' = flash
  PROVE  /\ half' = half => (DescriptorTrue' <=> DescriptorTrue)
         /\ DescriptorFull' <=> DescriptorFull
         /\ \A c : InPlace(c)' <=> InPlace(c)
         /\ \A lo, hi : BlankFrom(lo, hi)' <=> BlankFrom(lo, hi)
BY DEF DescriptorTrue, DescriptorFull, InPlace, BlankFrom, Place

\* Fonts that have nothing to hold.
LEMMA NoCardFacts ==
  /\ 1 \in Font /\ 1 \in Nat /\ 0 \in 0 .. Chunk
  /\ \A i \in Font : Len(NoCard[i]) = 0
<1>1. 1 \in Font /\ 0 \in 0 .. Chunk
  BY FontAssumption DEF Font
<1>2. \A i \in Font : Len(NoCard[i]) = 0
  BY EmptySeq DEF NoCard
<1> QED BY <1>1, <1>2

\* A program is started.
LEMMA PowerOnOK == ASSUME IInv, PowerOn PROVE IInv'
<1> USE OfInv DEF PowerOn
<1>1. NorType' /\ DriverOK'
  BY DriverStays
<1>2. FontType'
  BY DEF FontType
<1>3. Locals'
  BY DEF Locals, Calls, Busy, Filling, norVars
<1>4. Filled' /\ Sealing' /\ DrawnRight'
  BY DEF Filled, Sealing, DrawnRight, Filling
<1>5. Store'
  BY StoreStays DEF Store, Filling
<1> QED BY <1>1, <1>2, <1>3, <1>4, <1>5, ToInv

\* The descriptor is as wide as the one in RAM.
LEMMA DescriptorType ==
  ASSUME NorType
  PROVE  Descriptor \in [ok : BOOLEAN, field : [Font -> Unit]]
<1>1. \A i \in Font : FontBase + i \in Place
  <2>1. FontBase % SectorSize = 0 /\ DeviceSize % SectorSize = 0 /\ FontBase < DeviceSize
        /\ FontBase \in Nat /\ DeviceSize \in Nat /\ SectorSize \in Nat \ {0}
    BY Areas, GeometryAssumption
  <2>2. FontBase + SectorSize <= DeviceSize
    <3>1. FontBase \in Int /\ DeviceSize \in Int
      BY <2>1
    <3> QED BY <2>1, <3>1, NextMultiple
  <2>3. NFonts \in Nat /\ NFonts < SectorSize
    BY FontAssumption
  <2> QED BY <2>1, <2>2, <2>3 DEF Font, Place
<1>2. [i \in Font |-> flash[FontBase + i]] \in [Font -> Unit]
  BY <1>1 DEF NorType
<1> QED BY <1>2 DEF Descriptor

\* A program starts with the fonts, if the descriptor and the XBF fonts look right.
LEMMA FontsInitOK == ASSUME IInv, FontsInit PROVE IInv'
<1> USE OfInv DEF FontsInit
<1>1. NorType' /\ DriverOK'
  BY DriverStays
<1>2. FontType'
  BY DescriptorType DEF FontType
<1>3. Locals'
  BY DEF Locals, Calls, Busy, Filling, norVars
<1>4. Filled' /\ Sealing'
  BY DEF Filled, Sealing, Filling
<1>5. DescriptorTrue
  BY DEF Store, Filling
<1>6. Store'
  BY <1>5, StoreStays DEF Store, Filling
<1>7. DrawnRight'
  <2> SUFFICES ASSUME at' = "idle", ~half
               PROVE  \E c \in Cards : InPlace(c)' /\ \A i \in Xbf : ftinfo'.field[i] = Field(c, i)
    BY DEF DrawnRight, Field
  <2>1. flash[FontBase] = Valid /\ \A i \in Xbf : XbfOk(ftinfo'.field[i])
    BY DEF Descriptor, LvglOk
  <2>2. PICK c \in Cards : InPlace(c) /\ \A i \in Font : flash[FontBase + i] \in {Blank, Field(c, i)}
    BY <1>5, <2>1 DEF DescriptorTrue
  <2>3. \A i \in Xbf : ftinfo'.field[i] = Field(c, i)
    <3> SUFFICES ASSUME NEW i \in Xbf PROVE ftinfo'.field[i] = Field(c, i)
      OBVIOUS
    <3>1. i \in Font /\ ftinfo'.field[i] = flash[FontBase + i]
      BY FontAssumption DEF Descriptor
    <3>2. ftinfo'.field[i] \in Entry
      BY <2>1 DEF XbfOk
    <3>3. Blank \notin Entry
      BY FontAssumption, BlankAssumption
    <3> QED BY <2>2, <3>1, <3>2, <3>3
  <2> QED BY <2>2, <2>3, StoreStays
<1> QED BY <1>1, <1>2, <1>3, <1>4, <1>6, <1>7, ToInv

\* fonts_init again, after an update.
LEMMA FontsInitAgainOK == ASSUME IInv, FontsInitAgain PROVE IInv'
<1> USE OfInv DEF FontsInitAgain
<1>1. NorType' /\ DriverOK'
  BY DriverStays
<1>2. FontType'
  BY DescriptorType DEF FontType
<1>3. Locals'
  BY DEF Locals, Calls, Busy, Filling, norVars
<1>4. Filled' /\ Sealing'
  BY DEF Filled, Sealing, Filling
<1>5. Store'
  BY StoreStays DEF Store, Filling
<1>6. DrawnRight'
  <2> SUFFICES ASSUME ~failed
               PROVE  \E c \in Cards : InPlace(c)' /\ \A i \in Xbf : ftinfo'.field[i] = Field(c, i)
    BY DEF DrawnRight, Field
  <2>1. PICK c \in Cards : InPlace(c) /\ \A i \in Font : flash[FontBase + i] = Field(c, i)
    BY DEF Store, DescriptorFull
  <2>2. \A i \in Xbf : i \in Font /\ ftinfo'.field[i] = flash[FontBase + i]
    BY FontAssumption DEF Descriptor
  <2> QED BY <2>1, <2>2, StoreStays
<1> QED BY <1>1, <1>2, <1>3, <1>4, <1>5, <1>6, ToInv

\* The fonts are to be refreshed.
LEMMA RefreshOK == ASSUME IInv, Refresh PROVE IInv'
<1> USE OfInv DEF Refresh
<1>1. NorType' /\ DriverOK'
  BY DriverStays
<1>2. FontType'
  BY DEF FontType
<1>3. Locals'
  BY DEF Locals, Calls, Busy, Filling, norVars
<1>4. Filled' /\ Sealing' /\ DrawnRight'
  BY DEF Filled, Sealing, DrawnRight, Filling
<1>5. Store'
  BY StoreStays DEF Store, Filling
<1> QED BY <1>1, <1>2, <1>3, <1>4, <1>5, ToInv

\* An update begins.
LEMMA UpdateFontOK ==
  ASSUME IInv, NEW c \in Cards, UpdateFont(c)
  PROVE  IInv'
<1> USE OfInv DEF UpdateFont
<1>1. NorType' /\ DriverOK'
  BY DriverStays
<1>2. fx = 1 /\ offx = 0 /\ total = 0
  BY DEF Locals, Busy, Filling
<1>3. FontType'
  <2>1. 0 \in 0 .. Len(c[1])
    BY <1>2, CardFacts DEF FontType
  <2> QED BY <1>2, <2>1 DEF FontType
<1>4. Locals'
  <2>1. 0 = Start[c][1] - FirstFont
    BY CardFacts
  <2> QED BY <1>2, <2>1 DEF Locals, Calls, Busy, Filling, norVars
<1>5. Filled' /\ Sealing' /\ DrawnRight'
  BY DEF Filled, Sealing, DrawnRight, Filling
<1>6. Store'
  BY StoreStays DEF Store, Filling
<1> QED BY <1>1, <1>3, <1>4, <1>5, <1>6, ToInv

\* The font after one that is not the last.
LEMMA NextFont ==
  ASSUME NEW f \in Font, f < NFonts
  PROVE  f + 1 \in Font /\ f + 1 > 1 /\ (f + 1) - 1 = f
<1>1. NFonts \in Nat
  BY FontAssumption
<1> QED BY <1>1 DEF Font

\* The sizes add up to where the fonts end.
LEMMA SizeFileOK == ASSUME IInv, SizeFile PROVE IInv'
<1> USE OfInv DEF SizeFile
<1>1. NorType' /\ DriverOK'
  BY DriverStays
<1>2. /\ card \in Cards /\ offx = 0 /\ total = Start[card][fx] - FirstFont /\ fx \in Font
      /\ total' = total + Len(card[fx]) /\ card' = card /\ offx' = offx
      /\ nor = "idle" /\ nor' = nor /\ checks' = checks
  BY DEF Locals, Busy, Filling, FontType, Calls, norVars
<1>3. /\ Len(card[fx]) \in Nat /\ Start[card][fx] \in Nat /\ FirstFont \in Nat
      /\ FirstFont <= Start[card][fx] /\ NFonts \in Nat \ {0} /\ fx \in Nat
  BY <1>2, CardFacts, FontPlaces
<1>4. total' = (Start[card][fx] + Len(card[fx])) - FirstFont /\ total' \in Nat
  <2>1. PICK b \in Nat, l \in Nat, f \in Nat : Start[card][fx] = b /\ Len(card[fx]) = l /\ FirstFont = f
    BY <1>3, Zenon
  <2>2. total' = (b - f) + l /\ f <= b
    BY <1>2, <1>3, <2>1, Zenon
  <2> QED BY <2>1, <2>2
<1>5. CASE fx < NFonts
  <2>0. fx' = fx + 1 /\ at' = "size" /\ erase' = erase
    BY <1>5
  <2>1. fx + 1 \in Font /\ fx + 1 > 1 /\ (fx + 1) - 1 = fx
    BY <1>2, <1>5, NextFont
  <2>2. Start[card][fx + 1] = Start[card][fx] + Len(card[fx]) /\ 0 \in 0 .. Len(card[fx + 1])
    BY <1>2, <2>1, CardFacts
  <2>3. FontType'
    BY <1>2, <1>4, <2>0, <2>1, <2>2 DEF FontType
  <2>4. Locals'
    BY <1>2, <1>4, <2>0, <2>2 DEF Locals, Calls, Busy, Filling
  <2>5. Filled' /\ Sealing' /\ DrawnRight'
    BY <2>0 DEF Filled, Sealing, DrawnRight, Filling
  <2>6. Store'
    BY <2>0, StoreStays DEF Store, Filling
  <2> QED BY <1>1, <2>3, <2>4, <2>5, <2>6, ToInv
<1>6. CASE ~(fx < NFonts)
  <2>0. fx' = 1 /\ at' = "erase" /\ erase' = FontBase
    BY <1>6
  <2>1. fx = NFonts
    BY <1>2, <1>3, <1>6 DEF Font
  <2>2. 1 \in Font /\ 0 \in 0 .. Len(card[1])
    <3>1. 1 \in Font
      BY NoCardFacts
    <3>2. Len(card[1]) \in Nat
      BY <1>2, <3>1, CardFacts
    <3> QED BY <3>1, <3>2
  <2>3. FontBase \in Nat /\ FontBase \in FontBase .. ImageBase /\ FontBase % BlockSize = 0
    BY LayoutAssumption
  <2>4. FontType'
    BY <1>2, <1>4, <2>0, <2>2, <2>3 DEF FontType
  <2>5. Locals'
    <3>1. total' = EndOf(card) - FirstFont
      BY <1>4, <2>1 DEF EndOf
    <3> QED BY <1>2, <2>0, <2>3, <3>1 DEF Locals, Calls, Busy, Filling
  <2>6. Filled' /\ Sealing' /\ DrawnRight'
    BY <2>0 DEF Filled, Sealing, DrawnRight, Filling
  <2>7. Store'
    <3>1. BlankFrom(FontBase, FontBase)
      BY <2>3 DEF BlankFrom, Place
    <3>2. DescriptorTrue
      BY DEF Store, Filling
    <3> QED BY <2>0, <3>1, <3>2, StoreStays DEF Store, Filling
  <2> QED BY <1>1, <2>4, <2>5, <2>6, <2>7, ToInv
<1> QED BY <1>5, <1>6

\* A font goes after the one before.
LEMMA OpenFontOK == ASSUME IInv, OpenFont PROVE IInv'
<1> USE OfInv DEF OpenFont
<1>1. NorType' /\ DriverOK'
  BY DriverStays
<1>2. /\ card \in Cards /\ offx = 0 /\ fx \in Font /\ prog.data = << >> /\ prog' = prog
      /\ Len(prog.data) = 0
  BY EmptySeq DEF Locals, Busy, Filling, FontType, DriverOK, Calls, norVars, NoData
<1>3. Len(card[fx]) \in Nat /\ Start[card][fx] \in Nat /\ fx \in Nat
  BY <1>2, CardFacts
<1>4. ftinfo' = [ftinfo EXCEPT !.field[fx] = Field(card, fx)]
  <2>1. CASE fx = 1
    BY <1>2, <2>1, CardFacts DEF Field
  <2>2. CASE fx # 1
    <3>1. fx > 1 /\ fx - 1 \in Font /\ fx - 1 < fx
      BY <1>2, <1>3, <2>2, CardFacts DEF Font
    <3>2. ftinfo.field[fx - 1] = Field(card, fx - 1)
      BY <3>1 DEF Filled, Filling
    <3>3. Start[card][fx] = Start[card][fx - 1] + Len(card[fx - 1])
      BY <1>2, <3>1, CardFacts
    <3> QED BY <2>2, <3>2, <3>3 DEF Field
  <2> QED BY <2>1, <2>2
<1>5. Field(card, fx) \in Unit
  BY <1>3 DEF Field, Unit, Entry
<1>6. ftinfo'.field[fx] = Field(card, fx) /\ \A i \in Font : i # fx => ftinfo'.field[i] = ftinfo.field[i]
  BY <1>2, <1>4 DEF FontType
<1>7. FontType'
  <2>1. ftinfo' \in [ok : BOOLEAN, field : [Font -> Unit]]
    BY <1>2, <1>4, <1>5 DEF FontType
  <2> QED BY SMTT(30), <1>3, <2>1 DEF FontType
<1>8. Locals'
  BY DEF Locals, Calls, Busy, Filling, norVars
<1>9. Filled'
  <2>1. \A i \in Font : i < fx => FontAt(card, i, Len(card[i])) /\ ftinfo.field[i] = Field(card, i)
    BY DEF Filled, Filling
  <2>2. \A i \in Font : i < fx => FontAt(card, i, Len(card[i]))' /\ ftinfo'.field[i] = Field(card, i)
    BY <1>3, <1>6, <2>1 DEF FontAt
  <2>3. BlankFrom(Start[card][fx] + offx - Len(prog.data), EndOf(card)) /\ BlankFrom(FontBase, FirstFont)
    BY DEF Filled, Filling
  <2>4. FontAt(card, fx, 0)'
    BY DEF FontAt
  <2> QED BY <1>2, <1>6, <2>2, <2>3, <2>4 DEF Filled, Filling, BlankFrom, Field, EndOf, FontAt, Place
<1>10. Sealing' /\ DrawnRight' /\ Store'
  BY DEF Sealing, DrawnRight, Store, Filling
<1> QED BY <1>1, <1>7, <1>8, <1>9, <1>10, ToInv

\* An update fails: the descriptor is not yet, or no longer, there.
LEMMA UpdateFailsOK == ASSUME IInv, UpdateFails PROVE IInv'
<1> USE OfInv DEF UpdateFails, Reset
<1>1. NorType' /\ DriverOK'
  BY DriverStays
<1>2. FontType'
  <2>1. faults' \in 0 .. MaxFault
    BY FontAssumption DEF FontType
  <2>2. 0 \in 0 .. Len(NoCard[1]) /\ 1 \in Font /\ 0 \in 0 .. Chunk
    BY NoCardFacts
  <2> QED BY <2>1, <2>2 DEF FontType
<1>3. Locals'
  BY DEF Locals, Calls, Busy, Filling, norVars
<1>4. Filled' /\ Sealing' /\ DrawnRight'
  BY DEF Filled, Sealing, DrawnRight, Filling
<1>5. DescriptorTrue
  <2>1. CASE at \in {"update", "size"}
    BY <2>1 DEF Store, Filling
  <2>2. CASE at \in {"open", "read"}
    <3>1. BlankFrom(FontBase, FirstFont)
      BY <2>2 DEF Filled, Filling
    <3>2. FontBase \in Place /\ FontBase < FirstFont /\ FontBase <= FontBase
      BY Areas, FontAssumption DEF Place, FirstFont
    <3>3. flash[FontBase] = Blank
      BY <3>1, <3>2 DEF BlankFrom
    <3> QED BY <3>3, FontAssumption DEF DescriptorTrue
  <2> QED BY <2>1, <2>2
<1>6. Store'
  BY <1>5, StoreStays DEF Store, Filling
<1> QED BY <1>1, <1>2, <1>3, <1>4, <1>6, ToInv

\* A block of the area is erased: what changes is in the block, which is in the area.
LEMMA BlockErased ==
  ASSUME NorType, erase \in Nat, erase % BlockSize = 0, FontBase <= erase, erase < ImageBase,
         flash' = Erased(flash, erase, BlockSize)
  PROVE  /\ flash' \in [Place -> Unit] /\ erase \in Place
         /\ erase + BlockSize <= ImageBase /\ (erase + BlockSize) % BlockSize = 0
         /\ \A p \in Place : flash'[p] = IF erase <= p /\ p < erase + BlockSize
                                         THEN Blank ELSE flash[p]
<1>1. /\ BlockSize \in Nat \ {0} /\ ImageBase \in Nat /\ ImageBase % BlockSize = 0
      /\ ImageBase <= DeviceSize /\ DeviceSize \in Nat
  BY GeometryAssumption, LayoutAssumption
<1>2. erase + BlockSize <= ImageBase /\ (erase + BlockSize) % BlockSize = 0
  <2>1. erase \in Int /\ ImageBase \in Int
    BY <1>1
  <2> QED BY <1>1, <2>1, NextMultiple
<1>3. \A p \in Place : flash'[p] = IF p \div BlockSize = erase \div BlockSize
                                   THEN Blank ELSE flash[p]
  BY DEF Erased
<1>4. \A p \in Place : flash'[p] = IF erase <= p /\ p < erase + BlockSize
                                   THEN Blank ELSE flash[p]
  <2> SUFFICES ASSUME NEW p \in Place
               PROVE  flash'[p] = IF erase <= p /\ p < erase + BlockSize
                                  THEN Blank ELSE flash[p]
    OBVIOUS
  <2>1. p \in Nat
    BY DEF Place
  <2>2. p \div BlockSize = erase \div BlockSize <=> erase <= p /\ p < erase + BlockSize
    BY <1>1, <2>1, SameBlock
  <2> QED BY <1>3, <2>2
<1>5. flash' \in [Place -> Unit]
  <2>1. \A p \in Place : flash'[p] \in Unit
    BY <1>4, BlankAssumption DEF NorType, Unit
  <2>2. flash' = [p \in Place |-> flash'[p]]
    BY DEF Erased
  <2> QED BY <2>1, <2>2
<1>6. erase \in Place
  BY <1>1 DEF Place
<1> QED BY <1>2, <1>4, <1>5, <1>6

\* With no call under way the driver has nothing to remember.
LEMMA IdleStays ==
  ASSUME NorType, DriverOK, nor = "idle", flash' \in [Place -> Unit], UNCHANGED norVars
  PROVE  NorType' /\ DriverOK'
<1> USE DEF norVars
<1>1. /\ rest = NoData /\ prog = NoData /\ checks = FALSE /\ was = Nothing
      /\ buf \in [InSector -> Unit] \cup {Nothing}
  BY DEF DriverOK, NorType
<1> QED BY <1>1, IdleOK

\* The erase loop.
LEMMA EraseLoopOK == ASSUME IInv, EraseLoop PROVE IInv'
<1>0. NorType /\ FontType /\ DriverOK /\ Locals /\ Filled /\ Sealing /\ Store /\ DrawnRight
  BY OfInv
<1>1. /\ at = "erase" /\ nor = "idle" /\ card \in Cards /\ offx = 0 /\ fx = 1
      /\ total = EndOf(card) - FirstFont /\ erase % BlockSize = 0 /\ erase \in FontBase .. ImageBase
      /\ BlankFrom(FontBase, erase) /\ (erase = FontBase => DescriptorTrue)
      /\ UNCHANGED <<norVars, ftinfo, card, total, fx, offx, bread, failed, faults>>
  BY <1>0 DEF EraseLoop, Locals, Store, Calls, Busy, Filling
<1>2. /\ FirstFont \in Nat /\ EndOf(card) \in Nat /\ EndOf(card) <= ImageBase /\ FirstFont <= EndOf(card)
      /\ FontBase \in Nat /\ ImageBase \in Nat /\ erase \in Nat /\ FontBase <= erase
      /\ FontBase < FirstFont
  <2>1. 1 \in Font /\ NFonts \in Nat
    BY NoCardFacts, FontAssumption
  <2> QED BY <1>1, <2>1, CardFacts, FontPlaces, Areas DEF FirstFont
<1>3. End = EndOf(card)
  BY <1>1, <1>2 DEF End
<1>4. CASE erase < End
  <2>1. /\ flash' = Erased(flash, erase, BlockSize) /\ erase' = erase + BlockSize /\ at' = at
        /\ half' = FALSE
    BY <1>4 DEF EraseLoop
  <2>2. erase < ImageBase
    BY <1>2, <1>3, <1>4
  <2>3. /\ flash' \in [Place -> Unit]
        /\ erase + BlockSize <= ImageBase /\ (erase + BlockSize) % BlockSize = 0
        /\ \A p \in Place : flash'[p] = IF erase <= p /\ p < erase + BlockSize
                                         THEN Blank ELSE flash[p]
    BY <1>0, <1>1, <1>2, <2>1, <2>2, BlockErased
  <2>4. NorType' /\ DriverOK'
    BY <1>0, <1>1, <2>3, IdleStays
  <2>5. BlockSize \in Nat \ {0}
    BY GeometryAssumption
  <2>6. erase' \in Nat /\ erase' \in FontBase .. ImageBase /\ erase' # FontBase
    BY <1>2, <2>1, <2>3, <2>5
  <2>7. FontType'
    BY <1>0, <1>1, <2>1, <2>6 DEF FontType
  <2>8. Locals'
    BY <1>0, <1>1, <2>1, <2>3, <2>6 DEF Locals, Calls, Busy, Filling, norVars, EndOf
  <2>9. Filled' /\ Sealing' /\ DrawnRight'
    BY <1>1, <2>1 DEF Filled, Sealing, DrawnRight, Filling
  <2>10. BlankFrom(FontBase, erase)'
    <3> SUFFICES ASSUME NEW p \in Place, FontBase <= p, p < erase + BlockSize
                 PROVE  flash'[p] = Blank
      BY <2>1 DEF BlankFrom, Place
    <3>1. p < erase => flash[p] = Blank
      BY <1>1 DEF BlankFrom
    <3>2. p < erase \/ erase <= p
      BY <1>2 DEF Place
    <3> QED BY <2>3, <3>1, <3>2
  <2>11. Store'
    BY <1>1, <2>1, <2>6, <2>10 DEF Store, Filling, BlankFrom
  <2> QED BY <2>4, <2>7, <2>8, <2>9, <2>11, ToInv
<1>5. CASE ~(erase < End)
  <2>1. flash' = flash /\ erase' = 0 /\ at' = "open" /\ half' = half
    BY <1>5 DEF EraseLoop
  <2>2. NorType' /\ DriverOK'
    BY <1>0, <1>1, <2>1, DriverStays
  <2>3. FontType'
    BY <1>0, <1>1, <2>1 DEF FontType
  <2>4. Locals'
    BY <1>0, <1>1, <2>1 DEF Locals, Calls, Busy, Filling, norVars, EndOf
  <2>5. Sealing' /\ DrawnRight' /\ Store'
    BY <2>1 DEF Sealing, DrawnRight, Store, Filling
  <2>6. prog'.data = << >> /\ Len(prog'.data) = 0
    BY <1>0, <1>1, EmptySeq DEF DriverOK, NoData, norVars
  <2>7. \A p \in Place : FontBase <= p /\ p < EndOf(card) => flash'[p] = Blank
    BY <1>1, <1>2, <1>3, <1>5, <2>1 DEF BlankFrom, Place
  <2>8. Start[card][1] = FirstFont /\ ~(\E i \in Font : i < 1)
    BY <1>1, CardFacts DEF Font
  <2>9. \A p \in Place : FirstFont <= p => FontBase <= p
    BY <1>2 DEF Place
  <2>10. /\ \A p \in Place : FirstFont <= p /\ p < EndOf(card) => flash'[p] = Blank
         /\ \A p \in Place : FontBase <= p /\ p < FirstFont => flash'[p] = Blank
    <3>1. \A p \in Place : p < FirstFont => p < EndOf(card)
      BY <1>2 DEF Place
    <3> QED BY <2>7, <2>9, <3>1
  <2>11. FirstFont + 0 - 0 = FirstFont /\ card' = card
    BY <1>1, <1>2
  <2>12. Filled'
    BY <1>1, <2>1, <2>6, <2>8, <2>10, <2>11 DEF Filled, Filling, FontAt, BlankFrom
  <2> QED BY <2>2, <2>3, <2>4, <2>5, <2>12, ToInv
<1> QED BY <1>4, <1>5

\* A stretch of a list.
LEMMA Stretch ==
  ASSUME NEW S, NEW d \in Seq(S), NEW m \in Nat, NEW n \in Nat, m + n <= Len(d)
  PROVE  /\ SubSeq(d, m + 1, m + n) \in Seq(S) /\ Len(SubSeq(d, m + 1, m + n)) = n
         /\ \A k \in 1 .. n : SubSeq(d, m + 1, m + n)[k] = d[m + k]
<1>1. Len(d) \in Nat
  BY LenProperties
<1>2. \A k \in 1 .. n : m + k \in 1 .. Len(d) /\ d[m + k] \in S
  BY <1>1, ElementOfSeq
<1>3. SubSeq(d, m + 1, m + n) = [k \in 1 .. n |-> d[m + k]]
  <2>1. SubSeq(d, m + 1, m + n) = [k \in 1 .. (m + n) - (m + 1) + 1 |-> d[k + (m + 1) - 1]]
    OBVIOUS
  <2>2. (m + n) - (m + 1) + 1 = n /\ \A k \in 1 .. n : k + (m + 1) - 1 = m + k
    OBVIOUS
  <2> QED BY <2>1, <2>2
<1>4. [k \in 1 .. n |-> d[m + k]] \in [1 .. n -> S]
  BY <1>2
<1> QED BY <1>3, <1>4, SeqDef

\* Where the font the copying is at lies.
LEMMA AtFont ==
  ASSUME NorType, FontType, Locals, at \in Busy
  PROVE  /\ card \in Cards /\ fx \in Font /\ card[fx] \in Seq(Byte) /\ card[fx] \in Seq(Unit)
         /\ Len(card[fx]) \in Nat /\ Start[card][fx] \in Nat /\ offx \in Nat
         /\ offx <= Len(card[fx]) /\ EndOf(card) \in Nat /\ FirstFont \in Nat
         /\ FirstFont <= Start[card][fx] /\ Start[card][fx] + Len(card[fx]) <= EndOf(card)
         /\ EndOf(card) <= ImageBase /\ ImageBase <= DeviceSize
         /\ ImageBase \in Nat /\ DeviceSize \in Nat /\ FontBase \in Nat /\ FontBase < FirstFont
<1>1. card \in Cards /\ fx \in Font /\ offx \in 0 .. Len(card[fx])
  BY DEF Locals, FontType
<1>2. /\ card[fx] \in Seq(Byte) /\ card[fx] \in Seq(Unit) /\ Len(card[fx]) \in Nat
      /\ Start[card][fx] \in Nat /\ EndOf(card) \in Nat /\ EndOf(card) <= ImageBase
      /\ FirstFont \in Nat
  BY <1>1, CardFacts
<1>3. FirstFont <= Start[card][fx] /\ Start[card][fx] + Len(card[fx]) <= EndOf(card)
  BY <1>1, FontPlaces
<1>4. FontBase < FirstFont
  BY FontAssumption, Areas DEF FirstFont
<1> QED BY <1>1, <1>2, <1>3, <1>4, Areas

\* A chunk is read, and nor_write_erased called with it.
LEMMA ReadChunkOK ==
  ASSUME IInv, ReadChunk
  PROVE  /\ IInv' /\ flash' = flash /\ was' = was /\ nor = "idle"
         /\ \E addr \in Nat, data \in Seq(Unit) :
              /\ addr + Len(data) <= DeviceSize
              /\ (IF checks' THEN rest' ELSE prog') = [addr |-> addr, data |-> data]
<1>0. NorType /\ FontType /\ DriverOK /\ Locals /\ Filled /\ Sealing /\ Store /\ DrawnRight
  BY OfInv
<1>1. /\ at = "read" /\ nor = "idle" /\ at \in Busy /\ ftinfo.field[fx] = Field(card, fx)
      /\ prog.data = << >> /\ Len(prog.data) = 0
      /\ at' = "copy" /\ bread' = Least(Chunk, Len(card[fx]) - offx) /\ offx' = offx + bread'
      /\ UNCHANGED <<ftinfo, card, total, erase, fx, failed, half, faults>>
  BY <1>0, EmptySeq DEF ReadChunk, Locals, Calls, Busy, Filling, Filled, DriverOK, NoData
<1> DEFINE b == bread'
           s == Start[card][fx]
           l == Len(card[fx])
           data == SubSeq(card[fx], offx + 1, offx + b)
<1>2. /\ card[fx] \in Seq(Unit) /\ l \in Nat /\ s \in Nat /\ offx \in Nat
      /\ offx <= l /\ EndOf(card) \in Nat /\ s + l <= EndOf(card)
      /\ EndOf(card) <= DeviceSize /\ FirstFont <= s /\ FirstFont \in Nat /\ DeviceSize \in Nat
  BY <1>0, <1>1, AtFont
<1>3. Chunk \in Nat \ {0}
  BY FontAssumption
<1>4. b \in Nat /\ offx + b <= l /\ b <= Chunk /\ (b = Chunk \/ offx + b = l)
  BY <1>1, <1>2, <1>3 DEF Least
<1>5. data \in Seq(Unit) /\ Len(data) = b /\ \A k \in 1 .. b : data[k] = card[fx][offx + k]
  <2>1. offx + b <= Len(card[fx]) /\ b \in Nat
    BY <1>4
  <2> HIDE DEF b
  <2>2. PICK d \in Seq(Unit), m \in Nat, n \in Nat : d = card[fx] /\ m = offx /\ n = b
    BY <1>2, <2>1
  <2>3. /\ SubSeq(d, m + 1, m + n) \in Seq(Unit) /\ Len(SubSeq(d, m + 1, m + n)) = n
        /\ \A k \in 1 .. n : SubSeq(d, m + 1, m + n)[k] = d[m + k]
    BY <2>1, <2>2, Stretch
  <2> QED BY <2>2, <2>3
<1>6. CallWriteErased(s + offx, data)
  BY <1>1 DEF ReadChunk, Field
<1> HIDE DEF b, s, l, data
<1>7. BlankFrom(s + offx, EndOf(card)) /\ BlankFrom(FontBase, FirstFont)
  <2>1. BlankFrom(s + offx - 0, EndOf(card)) /\ BlankFrom(FontBase, FirstFont)
    BY <1>0, <1>1 DEF Filled, Filling, s
  <2>2. s + offx - 0 = s + offx
    BY <1>2
  <2> QED BY <2>1, <2>2
<1>8. s + offx \in Nat /\ (s + offx) + b <= EndOf(card) /\ (s + offx) + b <= DeviceSize
  BY <1>2, <1>4
<1>9. BlankFrom(s + offx, (s + offx) + b)
  BY <1>2, <1>4, <1>7, <1>8 DEF BlankFrom, Place
<1>10. /\ NorType' /\ DriverOK' /\ nor' \in {"page", "done"} /\ ~checks'
       /\ prog' = [addr |-> s + offx, data |-> data]
  BY <1>0, <1>1, <1>5, <1>6, <1>8, <1>9, CallWriteErasedOK
<1>11. flash' = flash /\ was' = was
  BY <1>6 DEF CallWriteErased
<1>12. offx' = offx + b /\ bread' = b
  BY <1>1 DEF b
<1>13. FontType'
  <2>1. offx' \in 0 .. l /\ bread' \in 0 .. Chunk
    BY <1>2, <1>3, <1>4, <1>12
  <2> QED BY <1>0, <1>1, <2>1 DEF FontType, l
<1>14. Locals'
  <2>1. bread' = Chunk \/ offx' = l
    BY <1>4, <1>12
  <2> QED BY <1>0, <1>1, <1>10, <2>1 DEF Locals, Calls, Busy, Filling, EndOf, l
<1>15. Filled'
  <2>1. \A i \in Font : i < fx => FontAt(card, i, Len(card[i]))' /\ ftinfo'.field[i] = Field(card, i)
    BY <1>0, <1>1, <1>11 DEF Filled, Filling, FontAt
  <2>2. \A o \in 1 .. offx : flash'[s + o - 1] = card[fx][o]
    <3>1. \A o \in 1 .. offx - 0 : flash[s + o - 1] = card[fx][o]
      BY <1>0, <1>1 DEF Filled, Filling, FontAt, s
    <3>2. offx - 0 = offx
      BY <1>2
    <3> QED BY <1>11, <3>1, <3>2
  <2>3. /\ offx' - Len(prog'.data) = offx /\ Len(prog'.data) <= offx' /\ Len(prog'.data) = b
        /\ s + offx' - Len(prog'.data) = s + offx /\ prog'.addr + Len(prog'.data) = s + offx'
        /\ prog'.data = data
    <3>1. prog'.data = data /\ prog'.addr = s + offx /\ Len(prog'.data) = b
      BY <1>5, <1>10
    <3>2. offx' - b = offx /\ b <= offx' /\ s + offx' - b = s + offx /\ (s + offx) + b = s + offx'
      BY <1>2, <1>4, <1>12
    <3> QED BY <3>1, <3>2
  <2>4. \A k \in 1 .. Len(prog'.data) : prog'.data[k] = card[fx][offx' - Len(prog'.data) + k]
    BY <1>5, <2>3
  <2>5. /\ \A p \in Place : s + offx <= p /\ p < EndOf(card) => flash'[p] = Blank
        /\ \A p \in Place : FontBase <= p /\ p < FirstFont => flash'[p] = Blank
    BY <1>7, <1>11 DEF BlankFrom
  <2> QED BY <1>1, <2>1, <2>2, <2>3, <2>4, <2>5 DEF Filled, Filling, FontAt, BlankFrom, Field, s
<1>16. Sealing' /\ DrawnRight' /\ Store'
  BY <1>1 DEF Sealing, DrawnRight, Store, Filling
<1>17. \E addr \in Nat, d \in Seq(Unit) :
              /\ addr + Len(d) <= DeviceSize
              /\ (IF checks' THEN rest' ELSE prog') = [addr |-> addr, data |-> d]
  BY <1>5, <1>8, <1>10
<1> QED BY <1>1, <1>10, <1>11, <1>13, <1>14, <1>15, <1>16, <1>17, ToInv

\* The stretch of a chunk that is not yet programmed.
LEMMA InCopy ==
  ASSUME NorType, FontType, Locals, Filled, DriverOK, at = "copy"
  PROVE  /\ nor \in {"page", "done"} /\ ~checks /\ was = Nothing /\ rest = NoData
         /\ Len(prog.data) \in Nat /\ Len(prog.data) <= offx
         /\ nor # "page" => prog.data = << >> /\ Len(prog.data) = 0
         /\ prog.data # << >> =>
              prog.addr = Start[card][fx] + offx - Len(prog.data) /\ FirstFont <= prog.addr
<1>1. nor \in {"page", "done"} /\ ~checks /\ was = Nothing /\ rest = NoData
  BY DEF Locals, Calls, DriverOK
<1>2. Len(prog.data) \in Nat /\ Len(prog.data) <= offx /\ prog.addr \in Nat
  <2>1. prog.data \in Seq(Unit) /\ prog.addr \in Nat
    BY DEF NorType
  <2> QED BY <2>1, LenProperties DEF Filled, Filling
<1>3. nor # "page" => prog.data = << >> /\ Len(prog.data) = 0
  BY EmptySeq DEF DriverOK
<1>4. ASSUME prog.data # << >>
      PROVE  prog.addr = Start[card][fx] + offx - Len(prog.data) /\ FirstFont <= prog.addr
  <2>1. prog.addr + Len(prog.data) = Start[card][fx] + offx
    BY <1>4 DEF Filled, Filling
  <2>2. /\ Start[card][fx] \in Nat /\ FirstFont \in Nat /\ FirstFont <= Start[card][fx]
        /\ offx \in Nat
    BY AtFont DEF Busy, Filling
  <2>3. PICK b \in Nat, l \in Nat, a \in Nat : Start[card][fx] = b /\ Len(prog.data) = l /\ prog.addr = a
    BY <1>2, <2>2
  <2>4. a + l = b + offx /\ l <= offx /\ FirstFont <= b
    BY <1>2, <2>1, <2>2, <2>3
  <2>5. a = b + offx - l /\ FirstFont <= a
    BY <2>2, <2>4
  <2> QED BY <2>3, <2>5
<1> QED BY <1>1, <1>2, <1>3, <1>4

\* A page of a chunk is programmed.
LEMMA CopyPageOK == ASSUME IInv, at = "copy", Drive PROVE IInv'
<1>0. NorType /\ FontType /\ DriverOK /\ Locals /\ Filled /\ Sealing /\ Store /\ DrawnRight
  BY OfInv
<1>1. at \in Busy /\ NorStep /\ UNCHANGED fontVars
  BY DEF Drive, Busy, Filling
<1>2. /\ nor = "page" /\ ~checks /\ Len(prog.data) \in Nat /\ Len(prog.data) <= offx
      /\ prog.data # << >> =>
           prog.addr = Start[card][fx] + offx - Len(prog.data) /\ FirstFont <= prog.addr
  BY <1>0, <1>1, InCopy DEF NorStep, LookSector, EraseSector, ProgramPage
<1>3. ProgramPage
  BY <1>1, <1>2 DEF NorStep, LookSector, EraseSector
<1>4. NorType' /\ DriverOK'
  BY <1>0, <1>1, NorStepOK
<1>5. flash' = After /\ checks' = checks
  BY <1>3 DEF ProgramPage, After
<1> DEFINE n == Len(prog.data)
           r == PageRemain
           s == Start[card][fx]
           m == Len(prog'.data)
<1>6. /\ r \in 0 .. n /\ prog.data \in Seq(Unit) /\ prog.addr \in Nat
      /\ \A p \in Place : After[p] = IF prog.addr <= p /\ p < prog.addr + r
                                     THEN prog.data[p - prog.addr + 1] ELSE flash[p]
  BY <1>0, <1>2, AfterIs
<1>7. /\ m = n - r /\ nor' \in {"page", "done"}
      /\ prog'.data # << >> => /\ prog'.addr = prog.addr + r
                               /\ \A k \in 1 .. n - r : prog'.data[k] = prog.data[r + k]
  <2>1. CASE r < n
    <3>1. prog' = Dropped(prog, r) /\ nor' = nor
      BY <1>3, <2>1 DEF ProgramPage
    <3>2. /\ Len(SubSeq(prog.data, r + 1, n)) = n - r
          /\ \A k \in 1 .. n - r : SubSeq(prog.data, r + 1, n)[k] = prog.data[r + k]
      BY <1>6, Parts
    <3> QED BY <1>2, <3>1, <3>2 DEF Dropped
  <2>2. CASE ~(r < n)
    <3>1. prog' = NoData /\ nor' = "done"
      BY <1>2, <1>3, <2>2 DEF ProgramPage
    <3>2. prog'.data = << >> /\ m = 0
      BY <3>1, EmptySeq DEF NoData
    <3>3. n - r = 0
      BY <1>2, <1>6, <2>2
    <3> QED BY <3>1, <3>2, <3>3
  <2> QED BY <2>1, <2>2
<1>8. /\ s \in Nat /\ offx \in Nat /\ offx <= Len(card[fx]) /\ Len(card[fx]) \in Nat
      /\ FirstFont <= s /\ FirstFont \in Nat /\ s + Len(card[fx]) <= EndOf(card)
      /\ EndOf(card) \in Nat /\ EndOf(card) <= DeviceSize /\ DeviceSize \in Nat
      /\ card \in Cards /\ fx \in Font
  BY <1>0, <1>1, AtFont
<1>9. FontType'
  BY <1>0, <1>1 DEF FontType, fontVars
<1>10. Locals'
  BY <1>0, <1>1, <1>2, <1>5, <1>7 DEF Locals, fontVars, Calls, Busy, Filling, EndOf
<1>11. /\ \A k \in 1 .. n : prog.data[k] = card[fx][offx - n + k]
       /\ FontAt(card, fx, offx - n)
       /\ BlankFrom(s + offx - n, EndOf(card)) /\ BlankFrom(FontBase, FirstFont)
       /\ \A i \in Font : i < fx => FontAt(card, i, Len(card[i])) /\ ftinfo.field[i] = Field(card, i)
       /\ ftinfo.field[fx] = Field(card, fx)
  <2>1. prog.data = << >> => n = 0
    BY EmptySeq
  <2> QED BY <1>0, <2>1 DEF Filled, Filling
<1>12. n = 0 => r = 0
  BY <1>6
<1>13. n # 0 => prog.data # << >>
  BY EmptySeq
<1>14. n # 0 => prog.addr = s + (offx - n) /\ FirstFont <= prog.addr
  BY <1>2, <1>13
<1> HIDE DEF n, r, s, m
<1>15. \A p \in Place : /\ p < s + (offx - n) \/ s + (offx - n) + r <= p => flash'[p] = flash[p]
                        /\ s + (offx - n) <= p /\ p < s + (offx - n) + r
                             => flash'[p] = prog.data[p - (s + (offx - n)) + 1]
  <2> SUFFICES ASSUME NEW p \in Place
               PROVE  /\ p < s + (offx - n) \/ s + (offx - n) + r <= p => flash'[p] = flash[p]
                      /\ s + (offx - n) <= p /\ p < s + (offx - n) + r
                             => flash'[p] = prog.data[p - (s + (offx - n)) + 1]
    OBVIOUS
  <2>0. p \in Nat /\ n \in Nat
    BY <1>2 DEF Place, n
  <2>1. CASE n = 0
    <3>1. r = 0 /\ flash'[p] = flash[p]
      BY <1>5, <1>6, <1>12, <2>0, <2>1
    <3> QED BY <1>8, <2>0, <2>1, <3>1
  <2>2. CASE n # 0
    <3>1. prog.addr = s + (offx - n)
      BY <1>14, <2>2
    <3> QED BY <1>5, <1>6, <1>8, <2>0, <3>1
  <2> QED BY <2>1, <2>2
<1>16. m \in Nat /\ n \in Nat /\ r \in Nat /\ m = n - r /\ n <= offx
  BY <1>2, <1>6, <1>7 DEF n
<1>17. \A o \in 1 .. offx - m : flash'[s + o - 1] = card[fx][o]
  <2> SUFFICES ASSUME NEW o \in 1 .. offx - m PROVE flash'[s + o - 1] = card[fx][o]
    OBVIOUS
  <2>1. s + o - 1 \in Place /\ s + o - 1 \in Nat
    BY <1>8, <1>16 DEF Place
  <2>2. CASE o \in 1 .. offx - n
    <3>1. flash[s + o - 1] = card[fx][o]
      BY <1>11, <2>2 DEF FontAt, s
    <3>2. s + o - 1 < s + (offx - n)
      BY <1>8, <1>16, <2>2
    <3> QED BY <1>15, <2>1, <3>1, <3>2
  <2>3. CASE o \notin 1 .. offx - n
    <3> DEFINE p == s + o - 1
    <3>1. /\ s + (offx - n) <= p /\ p < s + (offx - n) + r
          /\ p - (s + (offx - n)) + 1 \in 1 .. n
          /\ offx - n + (p - (s + (offx - n)) + 1) = o
      BY <1>8, <1>16, <2>3
    <3>2. flash'[p] = prog.data[p - (s + (offx - n)) + 1]
      BY <1>15, <2>1, <3>1
    <3> HIDE DEF p
    <3>3. prog.data[p - (s + (offx - n)) + 1] = card[fx][o]
      BY <1>11, <3>1
    <3> QED BY <3>2, <3>3 DEF p
  <2> QED BY <2>2, <2>3
<1>18. \A i \in Font : i < fx => FontAt(card, i, Len(card[i]))'
  <2> SUFFICES ASSUME NEW i \in Font, i < fx, NEW o \in 1 .. Len(card[i])
               PROVE  flash'[Start[card][i] + o - 1] = card[i][o]
    BY <1>1 DEF FontAt, fontVars
  <2>1. /\ Start[card][i] + Len(card[i]) <= s /\ Start[card][i] \in Nat /\ Len(card[i]) \in Nat
    BY <1>8, Ordered, CardFacts DEF s
  <2>2. Start[card][i] + o - 1 \in Place /\ Start[card][i] + o - 1 < s + (offx - n)
    <3>1. PICK b \in Nat, l \in Nat : Start[card][i] = b /\ Len(card[i]) = l
      BY <2>1
    <3>2. b + l <= s /\ o \in 1 .. l /\ o \in Nat
      BY <2>1, <3>1
    <3>3. s + (offx - n) <= DeviceSize /\ s <= s + (offx - n) /\ s + (offx - n) \in Nat
      BY <1>8, <1>16
    <3>4. b + o - 1 \in Nat /\ b + o - 1 < s
      BY <1>8, <3>1, <3>2
    <3> HIDE DEF s
    <3> QED BY <1>8, <3>1, <3>3, <3>4 DEF Place
  <2>3. flash[Start[card][i] + o - 1] = card[i][o]
    BY <1>11 DEF FontAt
  <2> QED BY <1>15, <2>2, <2>3
<1>19. \A p \in Place : FontBase <= p /\ p < FirstFont => flash'[p] = Blank
  <2> SUFFICES ASSUME NEW p \in Place, FontBase <= p, p < FirstFont PROVE flash'[p] = Blank
    OBVIOUS
  <2>1. flash[p] = Blank
    BY <1>11 DEF BlankFrom
  <2>2. p < s + (offx - n)
    BY <1>8, <1>16 DEF Place
  <2> QED BY <1>15, <2>1, <2>2
<1>20. \A p \in Place : s + (offx - m) <= p /\ p < EndOf(card) => flash'[p] = Blank
  <2> SUFFICES ASSUME NEW p \in Place, s + (offx - m) <= p, p < EndOf(card) PROVE flash'[p] = Blank
    OBVIOUS
  <2>1. s + (offx - n) + r <= p /\ s + (offx - n) <= p
    BY <1>8, <1>16 DEF Place
  <2>2. flash[p] = Blank
    <3>1. BlankFrom(s + (offx - n), EndOf(card))
      BY <1>11
    <3> QED BY <2>1, <3>1 DEF BlankFrom
  <2> QED BY <1>15, <2>1, <2>2
<1>21. m # 0 => /\ prog'.addr + m = s + offx
                /\ \A k \in 1 .. m : prog'.data[k] = card[fx][offx - m + k]
  <2> SUFFICES ASSUME m # 0
               PROVE  /\ prog'.addr + m = s + offx
                      /\ \A k \in 1 .. m : prog'.data[k] = card[fx][offx - m + k]
    OBVIOUS
  <2>1. prog'.data # << >> /\ n # 0
    BY <1>16, EmptySeq DEF m
  <2>2. prog'.addr = s + (offx - n) + r /\ \A k \in 1 .. n - r : prog'.data[k] = prog.data[r + k]
    BY <1>7, <1>14, <2>1
  <2>3. \A k \in 1 .. m : r + k \in 1 .. n /\ offx - n + (r + k) = offx - m + k
    BY <1>8, <1>16
  <2>4. prog'.addr + m = s + offx
    BY <1>8, <1>16, <2>2
  <2> QED BY <1>11, <1>16, <2>2, <2>3, <2>4
<1>22. Filled'
  <2>1. prog'.data # << >> => m # 0
    BY <1>4, EmptySeq DEF NorType, m
  <2>2. UNCHANGED <<at, card, fx, offx, ftinfo>> /\ m <= offx
    BY <1>1, <1>8, <1>16 DEF fontVars
  <2> QED BY <1>11, <1>17, <1>18, <1>19, <1>20, <1>21, <2>1, <2>2
          DEF Filled, Filling, FontAt, BlankFrom, Field, s, m
<1>23. Sealing' /\ DrawnRight' /\ Store'
  BY <1>1 DEF Sealing, DrawnRight, Store, Filling, fontVars
<1> QED BY <1>4, <1>9, <1>10, <1>22, <1>23, ToInv

\* A chunk is in place: the next one, the next font, or the descriptor.
LEMMA CopiedOK == ASSUME IInv, Copied PROVE IInv'
<1>0. NorType /\ FontType /\ DriverOK /\ Locals /\ Filled /\ Sealing /\ Store /\ DrawnRight
  BY OfInv
<1>1. /\ at = "copy" /\ at \in Busy /\ nor = "done" /\ Return /\ bread' = 0
      /\ UNCHANGED <<ftinfo, card, total, erase, failed, half, faults>>
  BY DEF Copied, Busy, Filling
<1>2. /\ NorType' /\ DriverOK' /\ flash' = flash /\ nor' = "idle" /\ prog' = NoData
      /\ prog.data = << >> /\ Len(prog.data) = 0
  BY <1>0, <1>1, InCopy, ReturnOK
<1>3. prog'.data = << >> /\ Len(prog'.data) = 0
  BY <1>2, EmptySeq DEF NoData
<1> DEFINE s == Start[card][fx]
           l == Len(card[fx])
<1>4. /\ s \in Nat /\ offx \in Nat /\ offx <= l /\ l \in Nat /\ s + l <= EndOf(card)
      /\ EndOf(card) \in Nat /\ card \in Cards /\ fx \in Font
  BY <1>0, <1>1, AtFont
<1>5. /\ \A i \in Font : i < fx => FontAt(card, i, Len(card[i])) /\ ftinfo.field[i] = Field(card, i)
      /\ ftinfo.field[fx] = Field(card, fx)
      /\ FontAt(card, fx, offx) /\ BlankFrom(s + offx, EndOf(card)) /\ BlankFrom(FontBase, FirstFont)
  <2>1. offx - 0 = offx /\ s + offx - 0 = s + offx
    BY <1>4
  <2>2. /\ FontAt(card, fx, offx - 0) /\ BlankFrom(s + offx - 0, EndOf(card))
        /\ BlankFrom(FontBase, FirstFont) /\ ftinfo.field[fx] = Field(card, fx)
        /\ \A i \in Font : i < fx => FontAt(card, i, Len(card[i])) /\ ftinfo.field[i] = Field(card, i)
    BY <1>0, <1>1, <1>2 DEF Filled, Filling
  <2> HIDE DEF s
  <2> QED BY <2>1, <2>2
<1>6. 0 \in 0 .. Chunk
  BY NoCardFacts
<1>7. CASE bread = Chunk
  <2>1. at' = "read" /\ UNCHANGED <<fx, offx>>
    BY <1>7 DEF Copied
  <2>2. FontType'
    BY <1>0, <1>1, <1>6, <2>1 DEF FontType
  <2>3. Locals'
    BY <1>0, <1>1, <1>2, <2>1 DEF Locals, Calls, Busy, Filling, EndOf
  <2>4. offx - 0 = offx /\ s + offx - 0 = s + offx
    BY <1>4
  <2>5. Filled'
    <3>1. \A i \in Font : i < fx => FontAt(card, i, Len(card[i]))' /\ ftinfo'.field[i] = Field(card, i)'
      BY <1>1, <1>2, <1>5 DEF FontAt, Field
    <3>2. \A p \in Place : s + offx - 0 <= p /\ p < EndOf(card) => flash'[p] = Blank
      BY <1>2, <1>5, <2>4 DEF BlankFrom
    <3>3. \A p \in Place : FontBase <= p /\ p < FirstFont => flash'[p] = Blank
      BY <1>2, <1>5 DEF BlankFrom
    <3>4. \A o \in 1 .. offx - 0 : flash'[s + o - 1] = card[fx][o]
      BY <1>2, <1>5, <2>4 DEF FontAt
    <3>5. ftinfo'.field[fx] = Field(card, fx)
      BY <1>1, <1>5
    <3> QED BY <1>1, <1>3, <1>4, <2>1, <3>1, <3>2, <3>3, <3>4, <3>5
            DEF Filled, Filling, BlankFrom, FontAt, Field
  <2>6. Sealing' /\ DrawnRight' /\ Store'
    BY <2>1 DEF Sealing, DrawnRight, Store, Filling
  <2> QED BY <1>2, <2>2, <2>3, <2>5, <2>6, ToInv
<1>8. CASE bread # Chunk
  <2>1. offx = l /\ offx' = 0
    BY <1>0, <1>1, <1>8 DEF Locals, Copied
  <2>2. \A i \in Font : i <= fx => FontAt(card, i, Len(card[i])) /\ ftinfo.field[i] = Field(card, i)
    <3>1. \A i \in Font : i <= fx => i < fx \/ i = fx
      BY <1>4, CardFacts
    <3> QED BY <1>5, <2>1, <3>1
  <2>3. CASE fx < NFonts
    <3>1. fx' = fx + 1 /\ at' = "open"
      BY <1>8, <2>3 DEF Copied
    <3>2. fx + 1 \in Font /\ fx + 1 > 1 /\ (fx + 1) - 1 = fx
      BY <1>4, <2>3, NextFont
    <3>3. Start[card][fx + 1] = s + l /\ 0 \in 0 .. Len(card[fx + 1])
      BY <1>4, <3>2, CardFacts
    <3>4. FontType'
      BY <1>0, <1>1, <1>6, <2>1, <3>1, <3>2, <3>3 DEF FontType
    <3>5. Locals'
      BY <1>0, <1>1, <1>2, <2>1, <3>1 DEF Locals, Calls, Busy, Filling, EndOf
    <3>6. \A i \in Font : i < fx + 1 => i <= fx
      BY <1>4, CardFacts
    <3>7. Start[card][fx + 1] + 0 - 0 = s + offx /\ 0 - 0 = 0
      BY <1>4, <2>1, <3>3
    <3>8. \A i \in Font : i < fx' => FontAt(card, i, Len(card[i]))' /\ ftinfo'.field[i] = Field(card, i)'
      BY <1>1, <1>2, <2>2, <3>1, <3>6 DEF FontAt, Field
    <3>9. \A p \in Place : Start[card][fx + 1] + 0 - 0 <= p /\ p < EndOf(card) => flash'[p] = Blank
      BY <1>2, <1>5, <3>7 DEF BlankFrom
    <3>10. \A p \in Place : FontBase <= p /\ p < FirstFont => flash'[p] = Blank
      BY <1>2, <1>5 DEF BlankFrom
    <3>11. \A o \in 1 .. 0 - 0 : flash'[Start[card][fx + 1] + o - 1] = card[fx + 1][o]
      OBVIOUS
    <3>12. Filled'
      BY <1>1, <1>3, <2>1, <3>1, <3>8, <3>9, <3>10, <3>11 DEF Filled, Filling, BlankFrom, FontAt
    <3>13. Sealing' /\ DrawnRight' /\ Store'
      BY <3>1 DEF Sealing, DrawnRight, Store, Filling
    <3> QED BY <1>2, <3>4, <3>5, <3>12, <3>13, ToInv
  <2>4. CASE ~(fx < NFonts)
    <3>1. fx' = fx /\ at' = "seal"
      BY <1>8, <2>4 DEF Copied
    <3>2. fx = NFonts /\ \A i \in Font : i <= fx
      BY <1>4, <2>4, FontAssumption DEF Font
    <3>3. FontType'
      BY <1>0, <1>1, <1>4, <1>6, <2>1, <3>1 DEF FontType
    <3>4. Locals'
      BY <1>0, <1>1, <1>2, <2>1, <3>1, <3>2 DEF Locals, Calls, Busy, Filling
    <3>5. Filled' /\ DrawnRight' /\ Store'
      BY <3>1 DEF Filled, DrawnRight, Store, Filling
    <3>6. InPlace(card) /\ FieldsAre(card)
      BY <2>2, <3>2 DEF InPlace, FontAt, FieldsAre
    <3>7. InPlace(card)' /\ FieldsAre(card)' /\ BlankFrom(FontBase, FirstFont)'
      BY <1>1, <1>2, <1>5, <3>6 DEF InPlace, FieldsAre, Field, BlankFrom, Place, FirstFont
    <3>8. Sealing'
      BY <3>1, <3>7 DEF Sealing
    <3> QED BY <1>2, <3>3, <3>4, <3>5, <3>8, ToInv
  <2> QED BY <2>3, <2>4
<1> QED BY <1>7, <1>8

\* The area of the descriptor.
LEMMA HeaderPlaces ==
  /\ FontBase \in Place /\ FontBase \in Nat /\ FontBase % SectorSize = 0
  /\ FirstFont = FontBase + NFonts + 1 /\ NFonts \in Nat /\ NFonts < SectorSize
  /\ FirstFont \in Nat /\ FontBase < FirstFont /\ FirstFont <= DeviceSize
  /\ SectorSize \in Nat \ {0} /\ DeviceSize \in Nat /\ NFonts # 0
<1>1. /\ FontBase % SectorSize = 0 /\ DeviceSize % SectorSize = 0 /\ FontBase < DeviceSize
      /\ FontBase \in Nat /\ DeviceSize \in Nat /\ SectorSize \in Nat \ {0}
  BY Areas, GeometryAssumption
<1>2. FontBase + SectorSize <= DeviceSize
  <2>1. FontBase \in Int /\ DeviceSize \in Int
    BY <1>1
  <2> QED BY <1>1, <2>1, NextMultiple
<1>3. NFonts \in Nat \ {0} /\ NFonts < SectorSize
  BY FontAssumption
<1> QED BY <1>1, <1>2, <1>3 DEF FirstFont, Place

\* The descriptor is to be written.
LEMMA SealOK ==
  ASSUME IInv, Seal
  PROVE  /\ IInv' /\ flash' = flash /\ was' = was /\ nor = "idle"
         /\ \E addr \in Nat, data \in Seq(Unit) :
              /\ addr + Len(data) <= DeviceSize
              /\ (IF checks' THEN rest' ELSE prog') = [addr |-> addr, data |-> data]
<1>0. NorType /\ FontType /\ DriverOK /\ Locals /\ Filled /\ Sealing /\ Store /\ DrawnRight
  BY OfInv
<1>1. /\ at = "seal" /\ at' = "sealing" /\ nor = "idle" /\ card \in Cards /\ fx = NFonts /\ offx = 0
      /\ ftinfo' = [ftinfo EXCEPT !.ok = TRUE] /\ CallWrite(FontBase, <<Valid>> \o ftinfo.field)
      /\ InPlace(card) /\ FieldsAre(card) /\ BlankFrom(FontBase, FirstFont)
      /\ UNCHANGED <<card, total, erase, fx, offx, bread, failed, half, faults>>
  BY <1>0 DEF Seal, Locals, Sealing, Calls, Busy, Filling
<1> DEFINE data == <<Valid>> \o ftinfo.field
<1>2. /\ data \in Seq(Unit) /\ Len(data) = NFonts + 1 /\ data[1] = Valid
      /\ \A i \in Font : data[i + 1] = ftinfo.field[i]
  <2>1. NFonts \in Nat
    BY HeaderPlaces
  <2>2. ftinfo.field \in [1 .. NFonts -> Unit]
    BY <1>0 DEF FontType, Font
  <2>3. ftinfo.field \in Seq(Unit) /\ Len(ftinfo.field) = NFonts
    BY <2>1, <2>2, SeqDef
  <2>4. <<Valid>> \in Seq(Unit) /\ Len(<<Valid>>) = 1 /\ <<Valid>>[1] = Valid
    BY FontAssumption DEF Unit
  <2>5. /\ data \in Seq(Unit) /\ Len(data) = 1 + NFonts
        /\ \A k \in 1 .. 1 + NFonts : data[k] = IF k <= 1 THEN <<Valid>>[k] ELSE ftinfo.field[k - 1]
    BY <2>3, <2>4, ConcatProperties
  <2> HIDE DEF data
  <2>6. data[1] = Valid
    BY <2>1, <2>4, <2>5
  <2>7. \A i \in Font : data[i + 1] = ftinfo.field[i]
    <3>1. \A i \in Font : i + 1 \in 1 .. 1 + NFonts /\ ~(i + 1 <= 1) /\ (i + 1) - 1 = i
      BY <2>1 DEF Font
    <3> QED BY <2>5, <3>1
  <2> QED BY <2>1, <2>5, <2>6, <2>7
<1> HIDE DEF data
<1>3. FontBase + Len(data) <= DeviceSize /\ FontBase \in Place /\ FontBase \in Nat
  BY <1>2, HeaderPlaces
<1>4. NorType' /\ DriverOK' /\ nor' = "sector" /\ rest' = [addr |-> FontBase, data |-> data]
  BY <1>0, <1>1, <1>2, <1>3, CallWriteOK DEF data
<1>5. flash' = flash /\ was' = was /\ was = Nothing /\ checks' = TRUE
  BY <1>0, <1>1 DEF CallWrite, DriverOK
<1>6. ftinfo'.field = ftinfo.field /\ ftinfo' \in [ok : BOOLEAN, field : [Font -> Unit]]
  BY <1>0, <1>1 DEF FontType
<1>7. FontType'
  BY <1>0, <1>1, <1>6 DEF FontType
<1>8. Locals'
  BY <1>0, <1>1, <1>4, <1>5 DEF Locals, Calls, Busy, Filling
<1>9. Filled' /\ DrawnRight' /\ Store'
  BY <1>1 DEF Filled, DrawnRight, Store, Filling
<1>10. Sealing'
  <2>1. InPlace(card)' /\ FieldsAre(card)' /\ BlankFrom(FontBase, FirstFont)'
    BY <1>1, <1>5, <1>6 DEF InPlace, FieldsAre, Field, BlankFrom, Place, FirstFont
  <2>2. \A i \in Font : rest'.data[i + 1] = Field(card, i)
    BY <1>1, <1>2, <1>4 DEF FieldsAre
  <2> QED BY <1>1, <1>2, <1>4, <1>5, <2>1, <2>2 DEF Sealing, Field
<1>11. \E addr \in Nat, d \in Seq(Unit) :
              /\ addr + Len(d) <= DeviceSize
              /\ (IF checks' THEN rest' ELSE prog') = [addr |-> addr, data |-> d]
  BY <1>2, <1>3, <1>4, <1>5
<1> QED BY <1>1, <1>4, <1>5, <1>7, <1>8, <1>9, <1>10, <1>11, ToInv

\* The descriptor is within one sector, and written without an erase.
LEMMA InSealing ==
  ASSUME NorType, DriverOK, Locals, Sealing, at = "sealing"
  PROVE  /\ checks /\ was = Nothing /\ nor \in {"sector", "page", "done"}
         /\ Share = NFonts + 1 /\ ~(Share < Len(rest.data)) /\ rest.addr = FontBase
         /\ Lo = FontBase /\ Hi = FirstFont
<1>1. /\ checks /\ was = Nothing /\ nor \in {"sector", "page", "done"}
      /\ rest.addr = FontBase /\ Len(rest.data) = NFonts + 1
  BY DEF Locals, Calls, Sealing
<1>2. Off = 0 /\ Share = NFonts + 1
  BY <1>1, HeaderPlaces DEF Off, Share, Least
<1> QED BY <1>1, <1>2, HeaderPlaces DEF Lo, Hi

\* What a step of the driver, or a power cut, leaves of the descriptor and the fonts.
LEMMA SealingReaches ==
  ASSUME NorType, DriverOK, Locals, Sealing, at = "sealing", card \in Cards,
         \A p \in Place : flash'[p] = flash[p] \/ Reaches(p)
  PROVE  /\ \A p \in Place : p < FontBase \/ FirstFont <= p => flash'[p] = flash[p]
         /\ \A i \in Font : \A o \in 1 .. Len(card[i]) : flash'[Start[card][i] + o - 1] = card[i][o]
         /\ \A i \in Font : flash'[FontBase + i] \in {Blank, Field(card, i)}
<1>1. /\ checks /\ was = Nothing /\ nor \in {"sector", "page", "done"} /\ rest.addr = FontBase
      /\ Share = NFonts + 1 /\ Lo = FontBase /\ Hi = FirstFont
  BY InSealing
<1>2. /\ FontBase \in Nat /\ FirstFont = FontBase + NFonts + 1 /\ NFonts \in Nat
      /\ FirstFont <= DeviceSize /\ DeviceSize \in Nat /\ FirstFont \in Nat
  BY HeaderPlaces
<1>3. ASSUME nor = "page"
      PROVE  /\ FontBase <= prog.addr /\ prog.addr + Len(prog.data) = FirstFont
             /\ Len(prog.data) \in Nat /\ prog.addr \in Nat /\ PageRemain \in 0 .. Len(prog.data)
             /\ \A k \in 1 .. Len(prog.data) : prog.data[k] = Want(prog.addr + k - 1)
             /\ \A p \in Place : FontBase <= p /\ p < prog.addr => flash[p] = Want(p)
             /\ BlankFrom(prog.addr, FirstFont)
  BY <1>1, <1>3, AfterIs DEF DriverOK, Paging
<1>4. \A p \in Place : FontBase <= p /\ p < FirstFont => Want(p) = rest.data[p - FontBase + 1]
  BY <1>1, <1>2 DEF Want, Place
<1>5. \A p \in Place : p < FontBase \/ FirstFont <= p => flash'[p] = flash[p]
  <2> SUFFICES ASSUME NEW p \in Place, Reaches(p) PROVE FontBase <= p /\ p < FirstFont
    BY <1>2 DEF Place
  <2>1. nor = "page" /\ prog.addr <= p /\ p < prog.addr + PageRemain
    BY <1>1 DEF Reaches
  <2> QED BY <1>2, <1>3, <2>1 DEF Place
<1>6. \A p \in Place : FontBase <= p /\ p < FirstFont =>
                         flash'[p] \in {Blank, rest.data[p - FontBase + 1]}
  <2> SUFFICES ASSUME NEW p \in Place, FontBase <= p, p < FirstFont
               PROVE  flash'[p] \in {Blank, rest.data[p - FontBase + 1]}
    OBVIOUS
  <2>1. CASE nor = "sector"
    <3>1. flash[p] = Blank
      BY <2>1 DEF Sealing, BlankFrom
    <3>2. ~Reaches(p)
      BY <2>1 DEF Reaches
    <3> QED BY <3>1, <3>2
  <2>2. CASE nor = "done"
    <3>1. \A k \in 1 .. Len(rest.data) : flash[rest.addr + k - 1] = rest.data[k]
      BY <1>1, <2>2 DEF DriverOK
    <3>2. p - FontBase + 1 \in 1 .. Len(rest.data) /\ rest.addr + (p - FontBase + 1) - 1 = p
      <4>1. Len(rest.data) = NFonts + 1
        BY DEF Sealing
      <4> QED BY <1>1, <1>2, <4>1 DEF Place
    <3>3. flash[p] = rest.data[p - FontBase + 1]
      BY <3>1, <3>2
    <3>4. ~Reaches(p)
      BY <2>2 DEF Reaches
    <3> QED BY <3>3, <3>4
  <2>3. CASE nor = "page"
    <3>1. CASE Reaches(p)
      <4>1. prog.addr <= p /\ p < prog.addr + PageRemain /\ flash'[p] = prog.data[p - prog.addr + 1]
        BY <2>3, <3>1 DEF Reaches
      <4>2. p - prog.addr + 1 \in 1 .. Len(prog.data) /\ prog.addr + (p - prog.addr + 1) - 1 = p
        <5>1. PICK a \in Nat, l \in Nat, r \in Nat :
                a = prog.addr /\ l = Len(prog.data) /\ r = PageRemain
          BY <1>3, <2>3
        <5>2. a <= p /\ p < a + l /\ p \in Nat
          BY <1>3, <2>3, <4>1, <5>1 DEF Place
        <5>3. p - a + 1 \in 1 .. l /\ a + (p - a + 1) - 1 = p
          BY <5>2
        <5> QED BY <5>1, <5>3
      <4>3. prog.data[p - prog.addr + 1] = Want(p)
        BY <1>3, <2>3, <4>2
      <4> QED BY <1>4, <4>1, <4>3
    <3>2. CASE ~Reaches(p)
      <4>1. p < prog.addr => flash[p] = Want(p)
        BY <1>3, <2>3
      <4>2. prog.addr <= p => flash[p] = Blank
        BY <1>3, <2>3 DEF BlankFrom
      <4>3. p < prog.addr \/ prog.addr <= p
        BY <1>3, <2>3 DEF Place
      <4> QED BY <1>4, <3>2, <4>1, <4>2, <4>3
    <3> QED BY <3>1, <3>2
  <2> QED BY <1>1, <2>1, <2>2, <2>3
<1>7. \A i \in Font : flash'[FontBase + i] \in {Blank, Field(card, i)}
  <2> SUFFICES ASSUME NEW i \in Font PROVE flash'[FontBase + i] \in {Blank, Field(card, i)}
    OBVIOUS
  <2>1. /\ FontBase + i \in Place /\ FontBase <= FontBase + i /\ FontBase + i < FirstFont
        /\ (FontBase + i) - FontBase + 1 = i + 1
    BY <1>2 DEF Font, Place
  <2>2. rest.data[i + 1] = Field(card, i)
    BY DEF Sealing
  <2>3. flash'[FontBase + i] \in {Blank, rest.data[(FontBase + i) - FontBase + 1]}
    BY <1>6, <2>1
  <2> QED BY <2>1, <2>2, <2>3
<1>8. \A i \in Font : \A o \in 1 .. Len(card[i]) : flash'[Start[card][i] + o - 1] = card[i][o]
  <2> SUFFICES ASSUME NEW i \in Font, NEW o \in 1 .. Len(card[i])
               PROVE  flash'[Start[card][i] + o - 1] = card[i][o]
    OBVIOUS
  <2>1. /\ Start[card][i] \in Nat /\ Len(card[i]) \in Nat /\ FirstFont <= Start[card][i]
        /\ Start[card][i] + Len(card[i]) <= EndOf(card) /\ EndOf(card) \in Nat
        /\ EndOf(card) <= ImageBase /\ ImageBase <= DeviceSize /\ ImageBase \in Nat
    BY CardFacts, FontPlaces, Areas
  <2>2. Start[card][i] + o - 1 \in Place /\ FirstFont <= Start[card][i] + o - 1
    <3>1. PICK b \in Nat, l \in Nat : Start[card][i] = b /\ Len(card[i]) = l
      BY <2>1
    <3>2. FirstFont <= b /\ b + l <= DeviceSize /\ o \in 1 .. l
      BY <1>2, <2>1, <3>1
    <3>3. b + o - 1 \in 0 .. DeviceSize - 1 /\ FirstFont <= b + o - 1
      BY <1>2, <3>2
    <3> QED BY <3>1, <3>3 DEF Place
  <2>3. flash[Start[card][i] + o - 1] = card[i][o]
    BY DEF Sealing, InPlace
  <2> QED BY <1>5, <2>2, <2>3
<1> QED BY <1>5, <1>7, <1>8

\* A step of the driver on the descriptor.
LEMMA SealStepOK == ASSUME IInv, at = "sealing", Drive PROVE IInv'
<1>0. NorType /\ FontType /\ DriverOK /\ Locals /\ Filled /\ Sealing /\ Store /\ DrawnRight
  BY OfInv
<1>1. NorStep /\ UNCHANGED fontVars /\ card \in Cards
  BY <1>0 DEF Drive, Locals, Busy
<1>2. /\ checks /\ was = Nothing /\ nor \in {"sector", "page", "done"}
      /\ Share = NFonts + 1 /\ ~(Share < Len(rest.data)) /\ rest.addr = FontBase
  BY <1>0, InSealing
<1>3. NorType' /\ DriverOK' /\ \A p \in Place : flash'[p] = flash[p] \/ Reaches(p)
  BY <1>0, <1>1, NorStepOK
<1>4. \A i \in Font : \A o \in 1 .. Len(card[i]) : flash'[Start[card][i] + o - 1] = card[i][o]
  BY <1>0, <1>1, <1>3, SealingReaches
<1>5. nor' \in {"page", "done"} /\ was' = Nothing /\ rest' = rest /\ checks' = checks
  <2>1. CASE LookSector
    <3>1. \A p \in rest.addr .. rest.addr + Share - 1 : flash[p] = Blank
      <4>1. nor = "sector"
        BY <2>1 DEF LookSector
      <4>2. BlankFrom(FontBase, FirstFont)
        BY <1>0, <4>1 DEF Sealing
      <4>3. rest.addr .. rest.addr + Share - 1 = {p \in Place : FontBase <= p /\ p < FirstFont}
        BY <1>2, HeaderPlaces DEF Place
      <4> QED BY <4>2, <4>3 DEF BlankFrom
    <3> QED BY <1>2, <2>1, <3>1 DEF LookSector
  <2>2. CASE EraseSector
    BY <1>2, <2>2 DEF EraseSector
  <2>3. CASE ProgramPage
    BY <1>2, <2>3 DEF ProgramPage
  <2> QED BY <1>1, <2>1, <2>2, <2>3 DEF NorStep
<1>6. FontType'
  BY <1>0, <1>1 DEF FontType, fontVars
<1>7. Locals'
  BY <1>0, <1>1, <1>5 DEF Locals, fontVars, Calls, Busy, Filling
<1>8. Sealing'
  <2>1. InPlace(card)' /\ FieldsAre(card)'
    BY <1>0, <1>1, <1>4 DEF Sealing, InPlace, FieldsAre, Field, fontVars
  <2>2. at' = at /\ card' = card
    BY <1>1 DEF fontVars
  <2> QED BY <1>0, <1>5, <2>1, <2>2 DEF Sealing, Field
<1>9. Filled' /\ DrawnRight' /\ Store'
  BY <1>1 DEF Filled, DrawnRight, Store, Filling, fontVars
<1> QED BY <1>3, <1>6, <1>7, <1>8, <1>9, ToInv

\* The descriptor is written.
LEMMA SealedOK == ASSUME IInv, Sealed PROVE IInv'
<1>0. NorType /\ FontType /\ DriverOK /\ Locals /\ Filled /\ Sealing /\ Store /\ DrawnRight
  BY OfInv
<1>1. /\ at = "sealing" /\ nor = "done" /\ Return /\ Reset /\ at' = "again"
      /\ UNCHANGED <<ftinfo, failed, half, faults>> /\ card \in Cards /\ checks
  BY <1>0, InSealing DEF Sealed, Locals, Busy
<1>2. NorType' /\ DriverOK' /\ flash' = flash /\ nor' = "idle"
  BY <1>0, <1>1, ReturnOK
<1>3. FontType'
  <2>1. 0 \in 0 .. Len(NoCard[1]) /\ 1 \in Font /\ 0 \in 0 .. Chunk
    BY NoCardFacts
  <2> QED BY <1>0, <1>1, <2>1 DEF FontType, Reset
<1>4. Locals'
  BY <1>1, <1>2 DEF Locals, Calls, Busy, Filling, Reset
<1>5. Filled' /\ Sealing' /\ DrawnRight'
  BY <1>1 DEF Filled, Sealing, DrawnRight, Filling
<1>6. DescriptorFull
  <2>1. /\ rest.addr = FontBase /\ Len(rest.data) = NFonts + 1 /\ rest.data[1] = Valid
        /\ \A i \in Font : rest.data[i + 1] = Field(card, i)
        /\ InPlace(card)
    BY <1>0, <1>1 DEF Sealing
  <2>2. \A k \in 1 .. NFonts + 1 : flash[FontBase + k - 1] = rest.data[k]
    BY <1>0, <1>1, <2>1 DEF DriverOK
  <2>3. flash[FontBase] = Valid
    <3>1. 1 \in 1 .. NFonts + 1 /\ FontBase + 1 - 1 = FontBase
      BY HeaderPlaces
    <3> QED BY <2>1, <2>2, <3>1
  <2>4. \A i \in Font : flash[FontBase + i] = Field(card, i)
    <3>1. \A i \in Font : i + 1 \in 1 .. NFonts + 1 /\ FontBase + (i + 1) - 1 = FontBase + i
      BY HeaderPlaces DEF Font
    <3> QED BY <2>1, <2>2, <3>1
  <2> QED BY <1>1, <2>1, <2>3, <2>4 DEF DescriptorFull
<1>7. DescriptorTrue
  BY <1>6 DEF DescriptorTrue, DescriptorFull
<1>8. Store'
  BY <1>1, <1>2, <1>6, <1>7, StoreStays DEF Store, Filling
<1> QED BY <1>2, <1>3, <1>4, <1>5, <1>8, ToInv

\* A write of somebody else's is outside the area of the fonts.
Outside == rest.addr + Len(rest.data) <= FontBase \/ ImageBase <= rest.addr

\* So is the sector that is rewritten for it.
LEMMA OtherReaches ==
  ASSUME NorType, DriverOK, Locals, Outside, at = "other",
         NEW p \in Place, Reaches(p)
  PROVE  p < FontBase \/ ImageBase <= p
<1>1. checks
  BY DEF Locals, Calls
<1>2. /\ Off \in 0 .. SectorSize - 1 /\ SectorAt \in Nat /\ SectorAt % SectorSize = 0
      /\ rest.addr = SectorAt + Off /\ Share \in Nat /\ rest.addr + Share <= SectorAt + SectorSize
      /\ Share <= Len(rest.data) /\ SectorSize \in Nat \ {0}
  BY SectorFacts, GeometryAssumption
<1>3. /\ FontBase \in Nat /\ ImageBase \in Nat /\ FontBase \in Int /\ ImageBase \in Int
      /\ FontBase % SectorSize = 0 /\ ImageBase % SectorSize = 0 /\ SectorAt \in Int
  BY <1>2, Areas
<1>4. rest.addr \in Nat /\ Len(rest.data) \in Nat /\ rest.data \in Seq(Unit)
  BY LenProperties DEF NorType
<1>5. ASSUME rest.data # << >> PROVE SectorAt + SectorSize <= FontBase \/ ImageBase <= SectorAt
  <2>1. Len(rest.data) # 0
    BY <1>4, <1>5, EmptySeq
  <2>2. CASE rest.addr + Len(rest.data) <= FontBase
    <3>1. SectorAt < FontBase
      <4>1. PICK l \in Nat, o \in Nat : l = Len(rest.data) /\ o = Off
        BY <1>2, <1>4
      <4>2. (SectorAt + o) + l <= FontBase /\ l # 0
        BY <1>2, <2>1, <2>2, <4>1
      <4> QED BY <1>2, <1>3, <4>2
    <3> QED BY <1>2, <1>3, <3>1, NextMultiple
  <2>3. CASE ImageBase <= rest.addr
    <3>1. SectorAt < ImageBase => SectorAt + SectorSize <= ImageBase
      BY <1>2, <1>3, NextMultiple
    <3>2. rest.addr < SectorAt + SectorSize
      BY <1>2
    <3> QED BY <1>2, <1>3, <1>4, <2>3, <3>1, <3>2
  <2> QED BY <2>2, <2>3 DEF Outside
<1>6. rest.data # << >> /\ SectorAt <= p /\ p < SectorAt + SectorSize
  <2>1. CASE nor = "erase"
    BY <2>1 DEF Reaches, DriverOK
  <2>2. CASE nor = "page"
    <3>1. /\ Lo <= prog.addr /\ prog.addr + Len(prog.data) = Hi /\ Lo \in Nat /\ Hi \in Nat
          /\ PageRemain \in 0 .. Len(prog.data) /\ Len(prog.data) \in Nat /\ prog.addr \in Nat
      BY <1>1, <2>2, AfterPaging, AfterIs
    <3>2. prog.addr <= p /\ p < prog.addr + PageRemain
      BY <2>2 DEF Reaches
    <3>3. Lo <= p /\ p < Hi
      <4>1. PICK a \in Nat, l \in Nat, r \in Nat :
              a = prog.addr /\ l = Len(prog.data) /\ r = PageRemain
        BY <3>1
      <4>2. a <= p /\ p < a + r /\ r <= l /\ Lo <= a /\ a + l = Hi
        BY <3>1, <3>2, <4>1
      <4> QED BY <3>1, <4>2 DEF Place
    <3>4. SectorAt <= Lo /\ Hi <= SectorAt + SectorSize
      BY <1>2 DEF Lo, Hi
    <3>5. rest.data # << >>
      <4>1. CASE was = Nothing
        <5>1. Lo = rest.addr /\ Hi = rest.addr + Share
          BY <4>1 DEF Lo, Hi
        <5>2. Share # 0
          BY <1>4, <3>3, <5>1 DEF Place
        <5>3. Len(rest.data) # 0
          BY <1>2, <1>4, <5>2
        <5> QED BY <5>3, EmptySeq
      <4>2. CASE was # Nothing
        BY <1>1, <2>2, <4>2 DEF DriverOK, Paging
      <4> QED BY <4>1, <4>2
    <3> QED BY <1>2, <3>1, <3>3, <3>4, <3>5 DEF Place
  <2> QED BY <2>1, <2>2 DEF Reaches
<1> QED BY <1>2, <1>3, <1>5, <1>6 DEF Place

\* Then the store of the fonts is as it was.
LEMMA StoreKept ==
  ASSUME \A p \in Place : flash'[p] = flash[p] \/ p < FontBase \/ ImageBase <= p, half' = half
  PROVE  /\ DescriptorTrue => DescriptorTrue'
         /\ \A c \in Cards : InPlace(c) => InPlace(c)'
<1>1. /\ FontBase \in Nat /\ FontBase < ImageBase /\ ImageBase <= DeviceSize /\ ImageBase \in Nat
      /\ FirstFont \in Nat /\ FontBase < FirstFont /\ DeviceSize \in Nat
  BY Areas, HeaderPlaces
<1>2. \A c \in Cards : FirstFont <= ImageBase
  BY <1>1, FontPlaces, CardFacts, NoCardFacts
<1>3. \A c \in Cards : InPlace(c) => InPlace(c)'
  <2> SUFFICES ASSUME NEW c \in Cards, InPlace(c), NEW i \in Font, NEW o \in 1 .. Len(c[i])
               PROVE  flash'[Start[c][i] + o - 1] = c[i][o]
    BY DEF InPlace
  <2>1. /\ Start[c][i] \in Nat /\ Len(c[i]) \in Nat /\ FirstFont <= Start[c][i]
        /\ Start[c][i] + Len(c[i]) <= EndOf(c) /\ EndOf(c) \in Nat /\ EndOf(c) <= ImageBase
    BY CardFacts, FontPlaces
  <2>2. PICK b \in Nat, l \in Nat : Start[c][i] = b /\ Len(c[i]) = l
    BY <2>1
  <2>3. FontBase < b /\ b + l <= ImageBase /\ o \in 1 .. l
    BY <1>1, <2>1, <2>2
  <2>4. b + o - 1 \in Place /\ FontBase <= b + o - 1 /\ b + o - 1 < ImageBase
    BY <1>1, <2>3 DEF Place
  <2>5. flash'[b + o - 1] = flash[b + o - 1]
    BY <1>1, <2>4
  <2>6. flash[Start[c][i] + o - 1] = c[i][o]
    BY DEF InPlace
  <2> QED BY <2>2, <2>5, <2>6
<1>4. \A i \in 0 .. NFonts : FirstFont <= ImageBase => flash'[FontBase + i] = flash[FontBase + i]
  <2>1. FirstFont = FontBase + NFonts + 1 /\ NFonts \in Nat
    BY HeaderPlaces
  <2> QED BY <1>1, <2>1 DEF Place
<1>5. flash'[FontBase] = flash[FontBase]
  BY <1>1 DEF Place
<1>6. \A i \in Font : i \in 0 .. NFonts
  BY HeaderPlaces DEF Font
<1>7. DescriptorTrue => DescriptorTrue'
  <2> SUFFICES ASSUME DescriptorTrue, flash[FontBase] = Valid, ~half
               PROVE  \E c \in Cards : InPlace(c)' /\ \A i \in Font : flash'[FontBase + i] \in {Blank, Field(c, i)}
    BY <1>5 DEF DescriptorTrue, Field
  <2>1. PICK c \in Cards : InPlace(c) /\ \A i \in Font : flash[FontBase + i] \in {Blank, Field(c, i)}
    BY DEF DescriptorTrue
  <2> QED BY <1>2, <1>3, <1>4, <1>6, <2>1
<1> QED BY <1>3, <1>7

\* Somebody else calls nor_write.
LEMMA OtherWriteOK ==
  ASSUME IInv, NEW w \in Writes, OtherWrite(w)
  PROVE  /\ IInv' /\ flash' = flash /\ was' = was /\ nor = "idle"
         /\ \E addr \in Nat, data \in Seq(Unit) :
              /\ addr + Len(data) <= DeviceSize
              /\ (IF checks' THEN rest' ELSE prog') = [addr |-> addr, data |-> data]
<1>0. NorType /\ FontType /\ DriverOK /\ Locals /\ Filled /\ Sealing /\ Store /\ DrawnRight
  BY OfInv
<1>1. /\ at = "idle" /\ at' = "other" /\ nor = "idle" /\ CallWrite(w.addr, w.data)
      /\ UNCHANGED <<ftinfo, card, total, erase, fx, offx, bread, failed, half, faults>>
  BY <1>0 DEF OtherWrite, Locals, Calls
<1>2. /\ w.addr \in Place /\ w.addr \in Nat /\ w.data \in Seq(Unit)
      /\ w.addr + Len(w.data) <= DeviceSize
      /\ w.addr + Len(w.data) <= FontBase \/ w.addr >= ImageBase
  <2>1. \A d \in Seq(Byte) : d \in Seq(Unit)
    BY SeqDef DEF Unit
  <2>2. w \in [addr : Place, data : Seq(Byte)]
    BY WriteAssumption
  <2> QED BY <2>1, <2>2, WriteAssumption DEF Place
<1>3. NorType' /\ DriverOK' /\ nor' = "sector" /\ rest' = [addr |-> w.addr, data |-> w.data]
  BY <1>0, <1>1, <1>2, CallWriteOK
<1>4. flash' = flash /\ was' = was /\ checks' = TRUE
  BY <1>1 DEF CallWrite
<1>5. FontType'
  BY <1>0, <1>1 DEF FontType
<1>6. Locals'
  BY <1>0, <1>1, <1>3, <1>4 DEF Locals, Calls, Busy, Filling
<1>7. Filled' /\ Sealing'
  BY <1>1 DEF Filled, Sealing, Filling
<1>8. DrawnRight'
  BY <1>0, <1>1, <1>4 DEF DrawnRight, InPlace
<1>9. Store'
  <2>1. w.addr + Len(w.data) <= FontBase \/ ImageBase <= w.addr
    BY <1>2, Areas
  <2> QED BY <1>0, <1>1, <1>3, <1>4, <2>1, StoreStays DEF Store, Filling
<1>10. \E addr \in Nat, d \in Seq(Unit) :
              /\ addr + Len(d) <= DeviceSize
              /\ (IF checks' THEN rest' ELSE prog') = [addr |-> addr, data |-> d]
  BY <1>2, <1>3, <1>4
<1> QED BY <1>1, <1>3, <1>4, <1>5, <1>6, <1>7, <1>8, <1>9, <1>10, ToInv

\* A step of the driver on it.
LEMMA OtherStepOK == ASSUME IInv, at = "other", Drive PROVE IInv'
<1>0. NorType /\ FontType /\ DriverOK /\ Locals /\ Filled /\ Sealing /\ Store /\ DrawnRight
  BY OfInv
<1>1. NorStep /\ UNCHANGED fontVars /\ Outside /\ checks
  BY <1>0 DEF Drive, Store, Outside, Locals, Calls
<1>2. NorType' /\ DriverOK' /\ \A p \in Place : flash'[p] = flash[p] \/ Reaches(p)
  BY <1>0, <1>1, NorStepOK
<1>3. \A p \in Place : flash'[p] = flash[p] \/ p < FontBase \/ ImageBase <= p
  BY <1>0, <1>1, <1>2, OtherReaches
<1>4. nor' # "idle" /\ checks' = checks
  BY <1>1 DEF NorStep, LookSector, EraseSector, ProgramPage
<1>5. FontType'
  BY <1>0, <1>1 DEF FontType, fontVars
<1>6. Locals'
  BY <1>0, <1>1, <1>4 DEF Locals, fontVars, Calls, Busy, Filling
<1>7. Filled' /\ Sealing'
  BY <1>1 DEF Filled, Sealing, Filling, fontVars
<1>8. DrawnRight'
  <2>1. \A c \in Cards : InPlace(c) => InPlace(c)'
    BY <1>1, <1>3, StoreKept DEF fontVars
  <2> QED BY <1>0, <1>1, <2>1 DEF DrawnRight, fontVars
<1>9. rest'.addr + Len(rest'.data) <= FontBase \/ ImageBase <= rest'.addr
  <2>1. CASE rest' = rest
    BY <1>1, <2>1 DEF Outside
  <2>2. CASE rest' # rest
    <3>1. rest' = Dropped(rest, Share)
      BY <1>1, <2>2 DEF NorStep, LookSector, EraseSector, ProgramPage
    <3>2. Share \in 0 .. Len(rest.data) /\ Len(rest.data) \in Nat /\ rest.addr \in Nat
          /\ rest.data \in Seq(Unit)
      BY <1>0, SectorFacts, LenProperties DEF NorType
    <3>3. Len(SubSeq(rest.data, Share + 1, Len(rest.data))) = Len(rest.data) - Share
      BY <3>2, Parts
    <3>4. rest'.addr = rest.addr + Share /\ Len(rest'.data) = Len(rest.data) - Share
      BY <3>1, <3>3 DEF Dropped
    <3>5. PICK a \in Nat, l \in Nat, s \in Nat :
            a = rest.addr /\ l = Len(rest.data) /\ s = Share
      BY <3>2
    <3>6. a + l <= FontBase \/ ImageBase <= a
      BY <1>1, <3>5 DEF Outside
    <3>7. (a + s) + (l - s) <= FontBase \/ ImageBase <= a + s
      BY <3>6, Areas
    <3> QED BY <3>4, <3>5, <3>7
  <2> QED BY <2>1, <2>2
<1>10. Store'
  <2>1. DescriptorTrue'
    BY <1>0, <1>1, <1>3, StoreKept DEF Store, Filling, fontVars
  <2> QED BY <1>1, <1>9, <2>1 DEF Store, Filling, fontVars
<1> QED BY <1>2, <1>5, <1>6, <1>7, <1>8, <1>10, ToInv

\* It returns.
LEMMA OtherDoneOK == ASSUME IInv, OtherDone PROVE IInv'
<1>0. NorType /\ FontType /\ DriverOK /\ Locals /\ Filled /\ Sealing /\ Store /\ DrawnRight
  BY OfInv
<1>1. /\ at = "other" /\ nor = "done" /\ Return /\ at' = "idle"
      /\ UNCHANGED <<ftinfo, card, total, erase, fx, offx, bread, failed, half, faults>>
  BY DEF OtherDone
<1>2. NorType' /\ DriverOK' /\ flash' = flash /\ nor' = "idle"
  BY <1>0, <1>1, ReturnOK
<1>3. FontType'
  BY <1>0, <1>1 DEF FontType
<1>4. Locals'
  BY <1>0, <1>1, <1>2 DEF Locals, Calls, Busy, Filling
<1>5. Filled' /\ Sealing'
  BY <1>1 DEF Filled, Sealing, Filling
<1>6. DrawnRight'
  BY <1>0, <1>1, <1>2 DEF DrawnRight, InPlace
<1>7. Store'
  BY <1>0, <1>1, <1>2, StoreStays DEF Store, Filling
<1> QED BY <1>2, <1>3, <1>4, <1>5, <1>6, <1>7, ToInv

\* The bytes of a font end up behind the descriptor and within the area.
LEMMA CopyReaches ==
  ASSUME NorType, FontType, Locals, Filled, DriverOK, at = "copy",
         NEW p \in Place, Reaches(p)
  PROVE  FirstFont <= p /\ p < ImageBase
<1>1. nor = "page" /\ prog.addr <= p /\ p < prog.addr + PageRemain
  BY InCopy DEF Reaches
<1>2. /\ PageRemain \in 0 .. Len(prog.data) /\ Len(prog.data) \in Nat /\ prog.addr \in Nat
  BY <1>1, AfterIs
<1>3. prog.data # << >>
  <2>1. Len(prog.data) # 0
    BY <1>1, <1>2 DEF Place
  <2> QED BY <2>1, EmptySeq
<1>4. FirstFont <= prog.addr /\ prog.addr + Len(prog.data) = Start[card][fx] + offx
  BY <1>3, InCopy DEF Filled, Filling
<1>5. /\ Start[card][fx] \in Nat /\ offx \in Nat /\ offx <= Len(card[fx]) /\ Len(card[fx]) \in Nat
      /\ Start[card][fx] + Len(card[fx]) <= EndOf(card) /\ EndOf(card) <= ImageBase
      /\ EndOf(card) \in Nat /\ ImageBase \in Nat /\ FirstFont \in Nat
  BY AtFont DEF Busy, Filling
<1>6. PICK s \in Nat, l \in Nat, a \in Nat, n \in Nat :
        s = Start[card][fx] /\ l = Len(card[fx]) /\ a = prog.addr /\ n = Len(prog.data)
  BY <1>2, <1>5
<1>7. a <= p /\ p < a + n /\ FirstFont <= a /\ a + n = s + offx /\ offx <= l /\ s + l <= ImageBase
  <2>1. p < a + n
    <3>1. PICK r \in Nat : r = PageRemain
      BY <1>2
    <3>2. r <= n /\ p < a + r
      BY <1>1, <1>2, <1>6, <3>1
    <3> QED BY <3>2 DEF Place
  <2>2. s + l <= ImageBase
    <3>1. PICK e \in Nat : e = EndOf(card)
      BY <1>5
    <3>2. s + l <= e /\ e <= ImageBase
      BY <1>5, <1>6, <3>1
    <3> QED BY <1>5, <3>2
  <2> QED BY <1>1, <1>4, <1>5, <1>6, <2>1, <2>2
<1> QED BY <1>5, <1>7 DEF Place

\* Between calls a descriptor that says so is true; within an update there is none.
LEMMA TrueBetweenCalls ==
  ASSUME IInv, at \notin Calls
  PROVE  DescriptorTrue
<1>0. NorType /\ FontType /\ DriverOK /\ Locals /\ Filled /\ Sealing /\ Store /\ DrawnRight
  BY OfInv
<1>1. ASSUME NEW hi \in Nat, FontBase < hi, BlankFrom(FontBase, hi) PROVE DescriptorTrue
  <2>1. flash[FontBase] = Blank
    BY <1>1, HeaderPlaces DEF BlankFrom
  <2> QED BY <2>1, FontAssumption DEF DescriptorTrue
<1>2. CASE at = "erase"
  <2>1. erase \in FontBase .. ImageBase /\ FontBase \in Nat /\ ImageBase \in Nat
    BY <1>0, <1>2, Areas DEF Locals
  <2>2. BlankFrom(FontBase, erase) /\ (erase = FontBase => DescriptorTrue)
    BY <1>0, <1>2 DEF Store
  <2>3. CASE erase = FontBase
    BY <2>2, <2>3
  <2>4. CASE erase # FontBase
    BY <1>1, <2>1, <2>2, <2>4
  <2> QED BY <2>3, <2>4
<1>3. CASE at \in Filling \cup {"seal"}
  <2>1. BlankFrom(FontBase, FirstFont)
    BY <1>0, <1>3 DEF Filled, Sealing
  <2> QED BY <1>1, <2>1, HeaderPlaces
<1>4. CASE at \notin {"erase", "seal"} \cup Filling
  BY <1>0, <1>4 DEF Store, Calls
<1> QED BY <1>2, <1>3, <1>4

\* The power goes: nothing but the array remains.
LEMMA PowerCutOK == ASSUME IInv, PowerCut PROVE IInv'
<1>0. NorType /\ FontType /\ DriverOK /\ Locals /\ Filled /\ Sealing /\ Store /\ DrawnRight
  BY OfInv
<1>1. /\ NorCut /\ at' = "off" /\ Reset /\ failed' = FALSE /\ half' = half /\ faults' = faults + 1
      /\ faults < MaxFault /\ ftinfo' = [ok |-> FALSE, field |-> [i \in Font |-> Blank]]
  BY DEF PowerCut, Restart
<1>2. NorType' /\ DriverOK' /\ \A p \in Place : flash'[p] = flash[p] \/ Reaches(p)
  BY <1>0, <1>1, NorCutOK
<1>3. FontType'
  <2>1. faults' \in 0 .. MaxFault
    BY <1>0, <1>1, FontAssumption DEF FontType
  <2>2. 0 \in 0 .. Len(NoCard[1]) /\ 1 \in Font /\ 0 \in 0 .. Chunk
    BY NoCardFacts
  <2>3. ftinfo' \in [ok : BOOLEAN, field : [Font -> Unit]]
    BY <1>1, BlankAssumption DEF Unit
  <2>4. half' \in BOOLEAN
    BY <1>0, <1>1 DEF FontType
  <2> QED BY <1>1, <2>1, <2>2, <2>3, <2>4 DEF FontType, Reset
<1>4. Locals'
  BY <1>1 DEF NorCut, Locals, Calls, Busy, Filling, Reset
<1>5. Filled' /\ Sealing' /\ DrawnRight'
  BY <1>1 DEF Filled, Sealing, DrawnRight, Filling
<1>6. DescriptorTrue'
  <2>1. CASE at \notin Calls
    <3>1. nor = "idle"
      BY <1>0, <2>1 DEF Locals
    <3>2. flash' = flash
      BY <1>1, <3>1 DEF NorCut
    <3> QED BY <1>1, <2>1, <3>2, TrueBetweenCalls, StoreStays
  <2>2. CASE at = "copy"
    <3>1. BlankFrom(FontBase, FirstFont)
      BY <1>0, <2>2 DEF Filled, Filling
    <3>2. flash[FontBase] = Blank
      BY <3>1, HeaderPlaces DEF BlankFrom
    <3>3. ~Reaches(FontBase)
      <4>1. FontBase \in Place /\ ~(FirstFont <= FontBase)
        BY HeaderPlaces
      <4> QED BY <1>0, <2>2, <4>1, CopyReaches
    <3>4. flash'[FontBase] = Blank
      BY <1>2, <3>2, <3>3, HeaderPlaces
    <3> QED BY <3>4, FontAssumption DEF DescriptorTrue
  <2>3. CASE at = "sealing"
    <3>1. card \in Cards
      BY <1>0, <2>3 DEF Locals, Busy
    <3>2. /\ \A i \in Font : \A o \in 1 .. Len(card[i]) : flash'[Start[card][i] + o - 1] = card[i][o]
          /\ \A i \in Font : flash'[FontBase + i] \in {Blank, Field(card, i)}
      BY <1>0, <1>2, <2>3, <3>1, SealingReaches
    <3>3. PICK c \in Cards : c = card
      BY <3>1
    <3>4. InPlace(c)' /\ \A i \in Font : flash'[FontBase + i] \in {Blank, Field(c, i)'}
      BY <3>2, <3>3 DEF InPlace, Field
    <3> QED BY <3>4 DEF DescriptorTrue
  <2>4. CASE at = "other"
    <3>1. Outside /\ DescriptorTrue
      BY <1>0, <2>4 DEF Store, Outside, Filling
    <3>2. \A p \in Place : flash'[p] = flash[p] \/ p < FontBase \/ ImageBase <= p
      BY <1>0, <1>2, <2>4, <3>1, OtherReaches
    <3> QED BY <1>1, <3>1, <3>2, StoreKept
  <2> QED BY <2>1, <2>2, <2>3, <2>4 DEF Calls
<1>7. Store'
  BY <1>1, <1>6 DEF Store, Filling
<1> QED BY <1>2, <1>3, <1>4, <1>5, <1>7, ToInv

\* Where the erase loop stands.
LEMMA EraseAt ==
  ASSUME IInv, at = "erase", erase < End
  PROVE  /\ erase \in Nat /\ erase % BlockSize = 0 /\ FontBase <= erase /\ erase < ImageBase
         /\ nor = "idle"
<1>0. NorType /\ FontType /\ Locals
  BY OfInv
<1>1. /\ erase % BlockSize = 0 /\ erase \in FontBase .. ImageBase
      /\ total = EndOf(card) - FirstFont /\ at \in Busy /\ nor = "idle"
  BY <1>0 DEF Locals, Busy, Calls
<1>2. /\ EndOf(card) \in Nat /\ EndOf(card) <= ImageBase /\ FirstFont \in Nat
      /\ ImageBase \in Nat /\ FontBase \in Nat
  BY <1>0, <1>1, AtFont
<1>3. End = EndOf(card)
  BY <1>1, <1>2 DEF End
<1> QED BY <1>1, <1>2, <1>3

\* An erase cut short blanks places of its block, which is in the area, or leaves them.
LEMMA BlockCut ==
  ASSUME IInv, EraseCut
  PROVE  /\ flash' \in [Place -> Unit] /\ erase \in Place /\ erase + BlockSize <= ImageBase
         /\ \A p \in Place : \/ flash'[p] = flash[p]
                             \/ /\ p \div BlockSize = erase \div BlockSize
                                /\ erase <= p /\ p < erase + BlockSize /\ flash'[p] = Blank
<1>0. NorType /\ at = "erase" /\ erase < End
  BY OfInv DEF EraseCut
<1>1. /\ erase \in Nat /\ erase % BlockSize = 0 /\ FontBase <= erase /\ erase < ImageBase
      /\ FontBase \in Nat
  BY <1>0, EraseAt, Areas
<1>2. /\ BlockSize \in Nat \ {0} /\ ImageBase \in Nat /\ ImageBase % BlockSize = 0
      /\ ImageBase <= DeviceSize /\ DeviceSize \in Nat
  BY GeometryAssumption, LayoutAssumption
<1>3. erase + BlockSize <= ImageBase
  <2>1. erase \in Int /\ ImageBase \in Int
    BY <1>1, <1>2
  <2> QED BY <1>1, <1>2, <2>1, NextMultiple
<1>4. PICK S \in Reach :
        flash' = [p \in Place |-> IF p % BlockSize \in S THEN Erased(flash, erase, BlockSize)[p]
                                                        ELSE flash[p]]
  BY DEF EraseCut
<1>5. ASSUME NEW p \in Place
      PROVE  \/ flash'[p] = flash[p]
             \/ /\ p \div BlockSize = erase \div BlockSize
                /\ erase <= p /\ p < erase + BlockSize /\ flash'[p] = Blank
  <2>1. p \in Nat
    BY DEF Place
  <2>2. p \div BlockSize = erase \div BlockSize <=> erase <= p /\ p < erase + BlockSize
    BY <1>1, <1>2, <2>1, SameBlock
  <2>3. \/ flash'[p] = flash[p]
        \/ p \div BlockSize = erase \div BlockSize /\ flash'[p] = Blank
    BY <1>4 DEF Erased
  <2> QED BY <2>2, <2>3
<1>6. flash' \in [Place -> Unit]
  <2>1. \A p \in Place : flash'[p] \in Unit
    BY <1>0, <1>5, BlankAssumption DEF NorType, Unit
  <2>2. flash' = [p \in Place |-> flash'[p]]
    BY <1>4
  <2> QED BY <2>1, <2>2
<1>7. erase \in Place
  BY <1>1, <1>2 DEF Place
<1> QED BY <1>3, <1>5, <1>6, <1>7

\* The power goes during an erase: there is no descriptor, or it is the one that was spared.
LEMMA EraseCutOK == ASSUME IInv, EraseCut PROVE IInv'
<1>0. NorType /\ FontType /\ DriverOK
  BY OfInv
<1>1. /\ at = "erase" /\ erase < End /\ at' = "off" /\ Reset /\ failed' = FALSE
      /\ faults' = faults + 1 /\ faults < MaxFault /\ half' = (flash'[FontBase] = Valid)
      /\ ftinfo' = [ok |-> FALSE, field |-> [i \in Font |-> Blank]] /\ UNCHANGED norVars
  BY DEF EraseCut, Restart
<1>2. nor = "idle"
  BY <1>1, EraseAt
<1>3. NorType' /\ DriverOK'
  BY <1>0, <1>1, <1>2, BlockCut, IdleStays
<1>4. FontType'
  <2>1. faults' \in 0 .. MaxFault
    BY <1>0, <1>1, FontAssumption DEF FontType
  <2>2. 0 \in 0 .. Len(NoCard[1]) /\ 1 \in Font /\ 0 \in 0 .. Chunk
    BY NoCardFacts
  <2>3. ftinfo' \in [ok : BOOLEAN, field : [Font -> Unit]]
    BY <1>1, BlankAssumption DEF Unit
  <2>4. half' \in BOOLEAN
    BY <1>1
  <2> QED BY <1>1, <2>1, <2>2, <2>3, <2>4 DEF FontType, Reset
<1>5. Locals'
  BY <1>1, <1>2 DEF Locals, Calls, Busy, Filling, Reset, norVars
<1>6. Filled' /\ Sealing' /\ DrawnRight'
  BY <1>1 DEF Filled, Sealing, DrawnRight, Filling
<1>7. Store'
  <2>1. DescriptorTrue'
    BY <1>1 DEF DescriptorTrue
  <2> QED BY <1>1, <2>1 DEF Store, Filling
<1> QED BY <1>3, <1>4, <1>5, <1>6, <1>7, ToInv

-----------------------------------------------------------------------------
(* The results.                                                            *)

\* What the chip and the program start with.
LEMMA InitOK == Init => IInv
<1> SUFFICES ASSUME Init PROVE IInv
  OBVIOUS
<1> USE DEF Init, NorInit
<1>1. NorType
  <2>1. rest \in [addr : Nat, data : Seq(Unit)] /\ prog \in [addr : Nat, data : Seq(Unit)]
        /\ Len(rest.data) = 0 /\ Len(prog.data) = 0 /\ rest.addr = 0 /\ prog.addr = 0
    BY EmptySeq DEF NoData
  <2>2. flash \in [Place -> Unit] /\ DeviceSize \in Nat
    BY BlankAssumption, GeometryAssumption DEF Unit
  <2>3. /\ {rest, prog} \subseteq [addr : Nat, data : Seq(Unit)]
        /\ rest.addr + Len(rest.data) <= DeviceSize /\ prog.addr + Len(prog.data) <= DeviceSize
    BY <2>1, <2>2
  <2>4. /\ nor \in {"idle", "sector", "erase", "page", "done"} /\ checks \in BOOLEAN
        /\ buf \in [InSector -> Unit] \cup {Nothing} /\ was \in [Place -> Unit] \cup {Nothing}
    OBVIOUS
  <2> QED BY <2>2, <2>3, <2>4 DEF NorType
<1>2. DriverOK
  BY EmptySeq DEF DriverOK, NoData
<1>3. FontType
  <2>1. 0 \in 0 .. Len(NoCard[1]) /\ 1 \in Font /\ 0 \in 0 .. Chunk
    BY NoCardFacts
  <2>2. ftinfo \in [ok : BOOLEAN, field : [Font -> Unit]]
    BY BlankAssumption DEF Unit
  <2>3. at = "off" /\ card = NoCard /\ total = 0 /\ erase = 0 /\ fx = 1 /\ offx = 0 /\ bread = 0
    OBVIOUS
  <2>4. failed = FALSE /\ half = FALSE /\ faults = 0 /\ 0 \in 0 .. MaxFault
    BY FontAssumption
  <2> QED BY ONLY <2>1, <2>2, <2>3, <2>4 DEF FontType
<1>4. Locals /\ Filled /\ Sealing /\ DrawnRight
  BY DEF Locals, Filled, Sealing, DrawnRight, Calls, Busy, Filling
<1>5. Store
  <2>1. flash[FontBase] # Valid
    BY HeaderPlaces, FontAssumption
  <2> QED BY <2>1 DEF Store, DescriptorTrue, Filling
<1> QED BY <1>1, <1>2, <1>3, <1>4, <1>5 DEF IInv, TypeOK, NorType, FontType

\* Every step keeps the invariant.
LEMMA NextOK == IInv /\ [Next]_vars => IInv'
<1> SUFFICES ASSUME IInv, [Next]_vars PROVE IInv'
  OBVIOUS
<1>1. CASE PowerOn
  BY <1>1, PowerOnOK
<1>2. CASE FontsInit
  BY <1>2, FontsInitOK
<1>3. CASE FontsInitAgain
  BY <1>3, FontsInitAgainOK
<1>4. CASE SizeFile
  BY <1>4, SizeFileOK
<1>5. CASE EraseLoop
  BY <1>5, EraseLoopOK
<1>6. CASE OpenFont
  BY <1>6, OpenFontOK
<1>7. CASE ReadChunk
  BY <1>7, ReadChunkOK
<1>8. CASE Copied
  BY <1>8, CopiedOK
<1>9. CASE Seal
  BY <1>9, SealOK
<1>10. CASE Sealed
  BY <1>10, SealedOK
<1>11. CASE OtherDone
  BY <1>11, OtherDoneOK
<1>12. CASE Drive
  <2>1. at \in Calls
    <3>1. nor # "idle"
      BY <1>12 DEF Drive, NorStep, LookSector, EraseSector, ProgramPage
    <3> QED BY <3>1, OfInv DEF Locals
  <2>2. CASE at = "copy"
    BY <1>12, <2>2, CopyPageOK
  <2>3. CASE at = "sealing"
    BY <1>12, <2>3, SealStepOK
  <2>4. CASE at = "other"
    BY <1>12, <2>4, OtherStepOK
  <2> QED BY <2>1, <2>2, <2>3, <2>4 DEF Calls
<1>13. CASE \E c \in Cards : UpdateFont(c)
  BY <1>13, UpdateFontOK
<1>14. CASE Refresh
  BY <1>14, RefreshOK
<1>15. CASE UpdateFails
  BY <1>15, UpdateFailsOK
<1>16. CASE PowerCut
  BY <1>16, PowerCutOK
<1>17. CASE \E w \in Writes : OtherWrite(w)
  BY <1>17, OtherWriteOK
<1>18. CASE EraseCut
  BY <1>18, EraseCutOK
<1>19. CASE UNCHANGED vars
  <2> USE <1>19 DEF vars, fontVars
  <2>1. NorType' /\ DriverOK'
    BY OfInv, DriverStays
  <2>2. FontType'
    BY OfInv DEF FontType
  <2>3. Locals'
    BY OfInv DEF Locals, EndOf, norVars
  <2>4. Filled'
    BY OfInv DEF Filled, FontAt, BlankFrom, Field, EndOf, Place, FirstFont, norVars
  <2>5. Sealing'
    BY OfInv DEF Sealing, InPlace, FieldsAre, BlankFrom, Field, Place, FirstFont, norVars
  <2>6. Store'
    <3>1. BlankFrom(FontBase, erase)' <=> BlankFrom(FontBase, erase)
      BY DEF BlankFrom, Place
    <3> QED BY <3>1, OfInv, StoreStays DEF Store, norVars
  <2>7. DrawnRight'
    BY OfInv DEF DrawnRight, InPlace
  <2> QED BY <2>1, <2>2, <2>3, <2>4, <2>5, <2>6, <2>7, ToInv
<1> QED BY <1>1, <1>2, <1>3, <1>4, <1>5, <1>6, <1>7, <1>8, <1>9, <1>10, <1>11, <1>12,
           <1>13, <1>14, <1>15, <1>16, <1>17, <1>18, <1>19 DEF Next, Program, Update

\* The invariant holds in every state.
THEOREM InvAlways == Spec => []IInv
<1>1. Init => IInv
  BY InitOK
<1>2. IInv /\ [Next]_vars => IInv'
  BY NextOK
<1> QED BY <1>1, <1>2, PTL DEF Spec

\* Every variable keeps to its type; a write in progress ends on the chip, and a file is
\* not read past its end (fonts_update_fontx, nor_write).
THEOREM TypeCorrect == Spec => []TypeOK
<1>1. IInv => TypeOK
  BY DEF IInv
<1> QED BY <1>1, InvAlways, PTL

\* The descriptor says that the fonts are there only while all of their bytes are
\* (fonts_update_font, through every power cut and every failure).
THEOREM FontsWholeAlways == Spec => []FontsWhole
<1>1. IInv => FontsWhole
  <2> SUFFICES ASSUME IInv, flash[FontBase] = Valid, ~half PROVE \E c \in Cards : InPlace(c)
    BY DEF FontsWhole
  <2>0. Locals /\ Filled /\ Sealing /\ Store
    BY OfInv
  <2>1. CASE at = "sealing"
    BY <2>0, <2>1 DEF Sealing, Locals, Busy
  <2>2. CASE at = "copy"
    <3>1. BlankFrom(FontBase, FirstFont)
      BY <2>0, <2>2 DEF Filled, Filling
    <3> QED BY <3>1, HeaderPlaces, FontAssumption DEF BlankFrom
  <2>3. CASE at = "other"
    BY <2>0, <2>3 DEF Store, DescriptorTrue, Filling
  <2>4. CASE at \notin Calls
    BY <2>4, TrueBetweenCalls DEF DescriptorTrue
  <2> QED BY <2>1, <2>2, <2>3, <2>4 DEF Calls
<1> QED BY <1>1, InvAlways, PTL

\* A program that draws has a descriptor that is true of the fonts it looks at, unless
\* the update it called has just failed (fonts_init, fonts_lvgl_ok).
THEOREM DrawnRightAlways == Spec => []DrawnRight
<1>1. IInv => DrawnRight
  BY DEF IInv
<1> QED BY <1>1, InvAlways, PTL

\* What a call for the fonts may change is in their area.
LEMMA CallWithin ==
  ASSUME IInv, at \in {"copy", "sealing"}, \A p \in Place : flash'[p] = flash[p] \/ Reaches(p)
  PROVE  \A p \in Place \ FontRegion : flash'[p] = flash[p]
<1>0. NorType /\ FontType /\ DriverOK /\ Locals /\ Filled /\ Sealing
  BY OfInv
<1>1. /\ FontBase \in Nat /\ ImageBase \in Nat /\ FirstFont \in Nat /\ FontBase < FirstFont
      /\ card \in Cards /\ FirstFont <= ImageBase
  <2>1. at \in Busy
    BY DEF Busy, Filling
  <2>2. /\ card \in Cards /\ fx \in Font /\ Len(card[fx]) \in Nat /\ Start[card][fx] \in Nat
        /\ EndOf(card) \in Nat /\ FirstFont <= Start[card][fx]
        /\ Start[card][fx] + Len(card[fx]) <= EndOf(card) /\ EndOf(card) <= ImageBase
    BY <1>0, <2>1, AtFont
  <2>3. FirstFont <= EndOf(card)
    BY <2>2, FontPlaces
  <2> QED BY <2>2, <2>3, HeaderPlaces, Areas
<1>2. \A p \in Place \ FontRegion : p \in Place /\ (p < FontBase \/ ImageBase <= p)
  BY <1>1 DEF FontRegion, Place
<1>3. CASE at = "copy"
  <2> SUFFICES ASSUME NEW p \in Place \ FontRegion PROVE ~Reaches(p)
    OBVIOUS
  <2>1. p \in Place /\ ~(FirstFont <= p /\ p < ImageBase)
    BY <1>1, <1>2 DEF Place
  <2> QED BY <1>0, <1>3, <2>1, CopyReaches
<1>4. CASE at = "sealing"
  <2>1. \A p \in Place : p < FontBase \/ FirstFont <= p => flash'[p] = flash[p]
    BY <1>0, <1>1, <1>4, SealingReaches
  <2>2. \A p \in Place \ FontRegion : p < FontBase \/ FirstFont <= p
    BY <1>1, <1>2 DEF Place
  <2> QED BY <1>2, <2>1, <2>2
<1> QED BY <1>3, <1>4

\* What a call of somebody else's may change is not.
LEMMA CallWithout ==
  ASSUME IInv, at = "other", \A p \in Place : flash'[p] = flash[p] \/ Reaches(p)
  PROVE  \A p \in FontRegion : flash'[p] = flash[p]
<1>0. NorType /\ FontType /\ DriverOK /\ Locals /\ Outside
  BY OfInv DEF Store, Outside
<1>1. \A p \in FontRegion : p \in Place /\ ~(p < FontBase \/ ImageBase <= p)
  BY Areas DEF FontRegion, Place
<1> QED BY <1>0, <1>1, OtherReaches

\* An update changes nothing outside the area of the fonts, and nothing else changes
\* anything in it (fonts_update_font; diskio.c and the image store, through nor_write).
THEOREM RegionKeptAlways == Spec => RegionKept
<1> DEFINE Step == IF Updating THEN \A p \in Place \ FontRegion : flash'[p] = flash[p]
                               ELSE \A p \in FontRegion : flash'[p] = flash[p]
<1>1. IInv /\ [Next]_vars => [Step]_vars
  <2> SUFFICES ASSUME IInv, Next PROVE Step
    OBVIOUS
  <2>1. CASE flash' = flash
    BY <2>1
  <2>2. CASE EraseLoop
    <3>1. at = "erase" /\ Updating
      BY <2>2 DEF EraseLoop, Updating
    <3>2. CASE ~(erase < End)
      BY <2>1, <2>2, <3>2 DEF EraseLoop
    <3>3. CASE erase < End
      <4>0. NorType
        BY OfInv
      <4>1. flash' = Erased(flash, erase, BlockSize)
        BY <2>2, <3>3 DEF EraseLoop
      <4>2. /\ erase \in Nat /\ erase % BlockSize = 0 /\ FontBase <= erase /\ erase < ImageBase
            /\ FontBase \in Nat /\ ImageBase \in Nat
        BY <3>1, <3>3, EraseAt, Areas
      <4>4. /\ erase + BlockSize <= ImageBase
            /\ \A p \in Place : flash'[p] = IF erase <= p /\ p < erase + BlockSize
                                             THEN Blank ELSE flash[p]
        BY <4>0, <4>1, <4>2, BlockErased
      <4>5. \A p \in Place \ FontRegion : p \in Place /\ ~(erase <= p /\ p < erase + BlockSize)
        <5>1. BlockSize \in Nat
          BY GeometryAssumption
        <5> QED BY <4>2, <4>4, <5>1 DEF FontRegion, Place
      <4> QED BY <3>1, <4>4, <4>5
    <3> QED BY <3>2, <3>3
  <2>3. CASE Drive \/ PowerCut
    <3>1. \A p \in Place : flash'[p] = flash[p] \/ Reaches(p)
      BY <2>3, OfInv, NorStepOK, NorCutOK DEF Drive, PowerCut
    <3>2. CASE at \in {"copy", "sealing"}
      BY <3>1, <3>2, CallWithin DEF Updating
    <3>3. CASE at = "other"
      BY <3>1, <3>3, CallWithout DEF Updating
    <3>4. CASE at \notin Calls
      <4>1. nor = "idle"
        BY <3>4, OfInv DEF Locals
      <4>2. flash' = flash
        BY <2>3, <4>1 DEF Drive, PowerCut, NorStep, LookSector, EraseSector, ProgramPage, NorCut
      <4> QED BY <2>1, <4>2
    <3> QED BY <3>2, <3>3, <3>4 DEF Calls
  <2>4. CASE EraseCut
    <3>1. at = "erase" /\ Updating /\ erase < End
      BY <2>4 DEF EraseCut, Updating
    <3>2. /\ erase \in Nat /\ FontBase <= erase /\ erase + BlockSize <= ImageBase
          /\ FontBase \in Nat /\ ImageBase \in Nat /\ BlockSize \in Nat
      BY <2>4, <3>1, EraseAt, BlockCut, Areas, GeometryAssumption
    <3>3. \A p \in Place \ FontRegion : p \in Place /\ ~(erase <= p /\ p < erase + BlockSize)
      BY <3>2 DEF FontRegion, Place
    <3> QED BY <2>4, <3>1, <3>3, BlockCut
  <2> QED BY <2>1, <2>2, <2>3, <2>4
          DEF Next, Program, Update, PowerOn, FontsInit, FontsInitAgain, SizeFile, OpenFont, ReadChunk,
              Copied, Seal, Sealed, OtherDone, UpdateFont, Refresh, UpdateFails, OtherWrite,
              CallWrite, CallWriteErased, Return
<1> QED BY <1>1, InvAlways, PTL DEF Spec, RegionKept

\* Steps that leave the driver alone leave the store of bytes alone.
LEMMA StoreStutters ==
  ASSUME UNCHANGED <<flash, norVars>>
  PROVE  UNCHANGED <<Bytes_store, pendingWrite>>
BY DEF norVars, Bytes_store, pendingWrite

\* Every step of the program and the driver is a step of the store of bytes, or none.
LEMMA NextRefines ==
  ASSUME IInv, [Next]_vars
  PROVE  [Bytes!Next]_<<Bytes_store, pendingWrite>>
<1>0. NorType /\ DriverOK /\ FontType /\ Locals /\ IInv'
  BY OfInv, NextOK
<1>1. NorType'
  BY <1>0 DEF IInv, TypeOK, NorType
<1>2. CASE UNCHANGED <<flash, norVars>>
  BY <1>2, StoreStutters
<1>3. CASE ReadChunk \/ Seal \/ \E w \in Writes : OtherWrite(w)
  <2>1. /\ flash' = flash /\ was' = was /\ nor = "idle"
        /\ \E addr \in Nat, data \in Seq(Unit) :
              /\ addr + Len(data) <= DeviceSize
              /\ (IF checks' THEN rest' ELSE prog') = [addr |-> addr, data |-> data]
    BY <1>3, ReadChunkOK, SealOK, OtherWriteOK
  <2>2. Bytes!Begin
    BY <1>0, <1>1, <2>1, CallRefines
  <2> QED BY <2>2 DEF Bytes!Next
<1>4. CASE Copied \/ Sealed \/ OtherDone
  <2>1. nor = "done" /\ Return
    BY <1>4 DEF Copied, Sealed, OtherDone
  <2>2. flash' = flash /\ was' = Nothing /\ rest' = NoData /\ prog' = NoData
    BY <1>0, <2>1 DEF Return, DriverOK
  <2>3. Bytes!Progress
    BY <1>0, <1>1, <2>1, <2>2, EndRefines
  <2> QED BY <2>3 DEF Bytes!Next
<1>5. CASE EraseLoop
  <2>1. at = "erase" /\ nor = "idle" /\ UNCHANGED norVars
    BY <1>0, <1>5 DEF EraseLoop, Locals, Calls
  <2>2. CASE ~(erase < End)
    BY <1>2, <1>5, <2>1, <2>2 DEF EraseLoop
  <2>3. CASE erase < End
    <3>1. flash' = Erased(flash, erase, BlockSize)
      BY <1>5, <2>3 DEF EraseLoop
    <3>2. erase \in Place
      BY <1>0, <2>1, <2>3, <3>1, EraseAt, BlockErased
    <3>3. Bytes!EraseBlock
      BY <1>0, <1>1, <2>1, <3>1, <3>2, EraseBlockRefines
    <3> QED BY <3>3 DEF Bytes!Next
  <2> QED BY <2>2, <2>3
<1>6. CASE Drive
  BY <1>0, <1>6, NorStepRefines DEF Drive
<1>7. CASE PowerCut
  BY <1>0, <1>7, NorCutRefines DEF PowerCut
<1>8. CASE PowerOn \/ FontsInit \/ FontsInitAgain \/ SizeFile \/ OpenFont \/ Refresh \/ UpdateFails
           \/ \E c \in Cards : UpdateFont(c)
  <2>1. UNCHANGED <<flash, norVars>>
    BY <1>8 DEF PowerOn, FontsInit, FontsInitAgain, SizeFile, OpenFont, Refresh, UpdateFails, UpdateFont
  <2> QED BY <1>2, <2>1
<1>9. CASE UNCHANGED vars
  BY <1>2, <1>9 DEF vars
<1>10. CASE EraseCut
  <2>1. at = "erase" /\ erase < End /\ UNCHANGED norVars
    BY <1>10 DEF EraseCut
  <2>2. nor = "idle" /\ erase \in Place
    BY <1>10, <2>1, EraseAt, BlockCut
  <2>3. Bytes!CutErase
    <3>1. \A p \in Place : \/ flash'[p] = flash[p]
                           \/ p \div BlockSize = erase \div BlockSize /\ flash'[p] = Blank
      <4>1. \A p \in Place : \/ flash'[p] = flash[p]
                             \/ /\ p \div BlockSize = erase \div BlockSize
                                /\ erase <= p /\ p < erase + BlockSize /\ flash'[p] = Blank
        BY <1>10, BlockCut
      <4> SUFFICES ASSUME NEW p \in Place
                   PROVE  \/ flash'[p] = flash[p]
                          \/ p \div BlockSize = erase \div BlockSize /\ flash'[p] = Blank
        OBVIOUS
      <4> QED BY <4>1
    <3> QED BY <1>0, <1>1, <2>1, <2>2, <3>1, CutEraseRefines
  <2> QED BY <2>3 DEF Bytes!Next
<1> QED BY <1>3, <1>4, <1>5, <1>6, <1>7, <1>8, <1>9, <1>10 DEF Next, Program, Update

\* nor.c is a store of bytes: a write changes the bytes it names and nothing else, in
\* whatever state the sectors are, and a power cut spoils no more than one sector of it.
THEOREM ImplementsByteStore == Spec => StoreSpec
<1>1. Init => Bytes!Init
  <2> SUFFICES ASSUME Init PROVE Bytes!Init
    OBVIOUS
  <2>1. NorType /\ DriverOK /\ nor = "idle"
    BY InitOK, OfInv DEF Init, NorInit
  <2>2. pendingWrite = << >> /\ Bytes_store = flash
    BY <2>1, NothingPending
  <2>3. DOMAIN Bytes_store = Place
    BY <2>2 DEF Init, NorInit
  <2> QED BY <2>2, <2>3 DEF Bytes!Init, Bytes!None, Bytes_store
<1>2. IInv /\ [Next]_vars => [Bytes!Next]_(Bytes!vars)
  BY NextRefines DEF Bytes!vars, Bytes_store
<1> QED BY <1>1, <1>2, InvAlways, PTL DEF Spec, StoreSpec, Bytes!Spec
=============================================================================
