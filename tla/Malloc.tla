------------------------------- MODULE Malloc -------------------------------
(***************************************************************************)
(* lib/malloc/malloc.c: the heap of one memory bank.                       *)
(*                                                                         *)
(* A map has an entry per block: zero for a free block, and for a block in *)
(* use the length, in blocks, of the allocation it is in.  malloc looks    *)
(* for a long enough run of free blocks from the top, one block per turn   *)
(* of its loop; the turns are steps here.  free and realloc find the       *)
(* length again in the map.  The programs have one thread that allocates,  *)
(* and no lock is taken: a call ends before the next one begins.           *)
(*                                                                         *)
(* A pointer is an offset into the bank.  Each program variable that holds *)
(* one fills its memory with its own mark; every other byte is junk, which *)
(* nothing depends on: one that was freed, or that was never written.      *)
(***************************************************************************)
EXTENDS Integers, FiniteSets

CONSTANTS
  Blocks,       \* memtblsize[memx]
  BlockSize,    \* memblksize[memx]
  Pointers,     \* the program's variables that hold pointers
  Null, Junk,   \* NULL, and the value of a byte that matters to nobody
  MaxSize       \* bound: the largest size asked for

ASSUME SizeAssumption ==
  Blocks \in Nat \ {0} /\ BlockSize \in Nat \ {0} /\ MaxSize \in Nat
ASSUME ValueAssumption == Junk \notin Pointers /\ Null \notin Nat

VARIABLES
  rdy,      \* memrdy[memx]
  map,      \* memmap[memx]
  mem,      \* the bytes of the bank
  ptr,      \* what each variable of the program holds
  pc,       \* where the call in progress stands
  who, size,   \* the variable the result is for, and the argument
  copies,   \* the call is a myrealloc
  offset, cmemb,   \* the locals of my_mem_malloc
  asked,    \* ghost: the size each pointer was allocated with
  kept      \* ghost: how many of its bytes hold what its owner wrote

callVars == <<pc, who, size, copies, offset, cmemb>>
vars     == <<rdy, map, mem, ptr, callVars, asked, kept>>

Block == 0 .. Blocks - 1
Place == 0 .. Blocks * BlockSize - 1

\* nmemb: the blocks for a size, rounded up.
Need(s) == (s \div BlockSize) + (IF s % BlockSize # 0 THEN 1 ELSE 0)

Blank == [b \in Block |-> 0]

\* The bank holds anything at power on, the map included.
Init ==
  /\ rdy = FALSE
  /\ map \in [Block -> {0, 1}] /\ mem = [i \in Place |-> Junk]
  /\ ptr = [p \in Pointers |-> Null]
  /\ pc = "idle" /\ who = Null /\ size = 0 /\ copies = FALSE
  /\ offset = -1 /\ cmemb = 0
  /\ asked = [p \in Pointers |-> 0] /\ kept = [p \in Pointers |-> 0]

\* my_mem_init, which the programs call before they allocate.
MemInit ==
  /\ pc = "idle" /\ \A p \in Pointers : ptr[p] = Null
  /\ rdy' = TRUE /\ map' = Blank
  /\ UNCHANGED <<mem, ptr, callVars, asked, kept>>

\* A slip in Begin: the loop starts one block too low.
BeginLow(p, s, re) ==
  /\ pc = "idle" /\ (re \/ ptr[p] = Null)
  /\ rdy' = TRUE /\ map' = IF rdy THEN map ELSE Blank
  /\ IF s = 0 THEN UNCHANGED callVars
              ELSE /\ pc' = "scan" /\ who' = p /\ size' = s /\ copies' = re
                   /\ offset' = Blocks - 2 /\ cmemb' = 0
  /\ UNCHANGED <<mem, ptr, asked, kept>>

\* my_mem_malloc up to its loop, for mymalloc (into a variable that holds nothing) and
\* for myrealloc.  A size of zero is refused at once.
Begin(p, s, re) ==
  /\ pc = "idle" /\ (re \/ ptr[p] = Null)
  /\ rdy' = TRUE /\ map' = IF rdy THEN map ELSE Blank
  /\ IF s = 0 THEN UNCHANGED callVars
              ELSE /\ pc' = "scan" /\ who' = p /\ size' = s /\ copies' = re
                   /\ offset' = Blocks - 1 /\ cmemb' = 0
  /\ UNCHANGED <<mem, ptr, asked, kept>>

\* A slip in Scan: the count is not reset at a block in use.
ScanOn ==
  /\ pc = "scan" /\ offset >= 0
  /\ cmemb' = IF map[offset] = 0 THEN cmemb + 1 ELSE cmemb
  /\ cmemb' # Need(size)
  /\ offset' = offset - 1
  /\ UNCHANGED <<rdy, map, mem, ptr, pc, who, size, copies, asked, kept>>

\* One turn of the loop that does not find enough.
Scan ==
  /\ pc = "scan" /\ offset >= 0
  /\ cmemb' = IF map[offset] = 0 THEN cmemb + 1 ELSE 0
  /\ cmemb' # Need(size)
  /\ offset' = offset - 1
  /\ UNCHANGED <<rdy, map, mem, ptr, pc, who, size, copies, asked, kept>>

Return ==
  /\ pc' = "idle" /\ who' = Null /\ size' = 0 /\ copies' = FALSE
  /\ offset' = -1 /\ cmemb' = 0

ScanNone ==
  /\ pc = "scan" /\ offset = -1
  /\ Return
  /\ UNCHANGED <<rdy, map, mem, ptr, asked, kept>>

\* A slip in Marked: the map gets the size in bytes.
MarkedSize == [b \in Block |-> IF b \in offset .. offset + Need(size) - 1 THEN size ELSE map[b]]

\* The turn that does: the blocks are marked, and mymalloc returns.
Marked == [b \in Block |-> IF b \in offset .. offset + Need(size) - 1 THEN Need(size) ELSE map[b]]

ScanFound ==
  /\ pc = "scan" /\ offset >= 0
  /\ map[offset] = 0 /\ cmemb + 1 = Need(size)
  /\ map' = Marked
  /\ IF copies
     THEN pc' = "copy" /\ UNCHANGED <<who, size, copies, offset, cmemb, ptr, asked, kept>>
     ELSE /\ ptr' = [ptr EXCEPT ![who] = offset * BlockSize]
          /\ asked' = [asked EXCEPT ![who] = size] /\ kept' = [kept EXCEPT ![who] = 0]
          /\ Return
  /\ UNCHANGED <<rdy, mem>>

\* A slip in Freed: the length is read again in the loop, after its first turn cleared it.
FreedOne(o) == [map EXCEPT ![o \div BlockSize] = 0]

\* my_mem_free: the length is in the map.
Freed(o) ==
  LET index == o \div BlockSize
      nmemb == map[index]
  IN [b \in Block |-> IF b \in index .. index + nmemb - 1 THEN 0 ELSE map[b]]

Bytes(o, n) == o .. o + n - 1

\* A slip in Move: whole blocks are copied, rounded down.
MoveBlocks ==
  /\ pc = "copy"
  /\ LET old == ptr[who]
         new == offset * BlockSize
         n   == IF kept[who] < size THEN kept[who] ELSE size
         m   == (size \div BlockSize) * BlockSize
     IN /\ mem' = [i \in Place |-> IF i \in Bytes(new, n) \cap Bytes(new, m) THEN mem[old + (i - new)]
                                   ELSE IF i \in Bytes(new, size) THEN Junk
                                   ELSE IF old # Null /\ i \in Bytes(old, asked[who]) THEN Junk
                                   ELSE mem[i]]
        /\ map' = IF old = Null THEN map ELSE Freed(old)
        /\ ptr' = [ptr EXCEPT ![who] = new]
        /\ kept' = [kept EXCEPT ![who] = n]
  /\ asked' = [asked EXCEPT ![who] = size]
  /\ Return
  /\ UNCHANGED rdy

\* The rest of myrealloc: size bytes are copied, and the old block is freed.  Of the bytes
\* copied, those the owner wrote matter: it may not have written all, and the old block
\* may have had fewer.
Move ==
  /\ pc = "copy"
  /\ LET old == ptr[who]
         new == offset * BlockSize
         n   == IF kept[who] < size THEN kept[who] ELSE size
     IN /\ mem' = [i \in Place |-> IF i \in Bytes(new, n) THEN mem[old + (i - new)]
                                   ELSE IF i \in Bytes(new, size) THEN Junk
                                   ELSE IF old # Null /\ i \in Bytes(old, asked[who]) THEN Junk
                                   ELSE mem[i]]
        /\ map' = IF old = Null THEN map ELSE Freed(old)
        /\ ptr' = [ptr EXCEPT ![who] = new]
        /\ kept' = [kept EXCEPT ![who] = n]
  /\ asked' = [asked EXCEPT ![who] = size]
  /\ Return
  /\ UNCHANGED rdy

\* myfree, after which the program forgets the pointer.
Free(p) ==
  /\ pc = "idle" /\ ptr[p] # Null
  /\ map' = Freed(ptr[p])
  /\ mem' = [i \in Place |-> IF i \in Bytes(ptr[p], asked[p]) THEN Junk ELSE mem[i]]
  /\ ptr' = [ptr EXCEPT ![p] = Null]
  /\ asked' = [asked EXCEPT ![p] = 0] /\ kept' = [kept EXCEPT ![p] = 0]
  /\ UNCHANGED <<rdy, callVars>>

\* The program uses all of what it asked for.
Fill(p) ==
  /\ pc = "idle" /\ ptr[p] # Null
  /\ mem' = [i \in Place |-> IF i \in Bytes(ptr[p], asked[p]) THEN p ELSE mem[i]]
  /\ kept' = [kept EXCEPT ![p] = asked[p]]
  /\ UNCHANGED <<rdy, map, ptr, callVars, asked>>

Next ==
  \/ MemInit
  \/ \E p \in Pointers : \/ \E s \in 0 .. MaxSize, re \in BOOLEAN : Begin(p, s, re)
                         \/ Free(p) \/ Fill(p)
  \/ Scan \/ ScanNone \/ ScanFound \/ Move

Spec == Init /\ [][Next]_vars

-----------------------------------------------------------------------------
TypeOK ==
  /\ rdy \in BOOLEAN
  /\ map \in [Block -> 0 .. Blocks]
  /\ mem \in [Place -> Pointers \cup {Junk}]
  /\ ptr \in [Pointers -> Place \cup {Null}]
  /\ pc \in {"idle", "scan", "copy"} /\ who \in Pointers \cup {Null} /\ size \in 0 .. MaxSize
  /\ copies \in BOOLEAN /\ offset \in -1 .. Blocks - 1 /\ cmemb \in 0 .. Blocks
  /\ asked \in [Pointers -> 0 .. MaxSize] /\ kept \in [Pointers -> 0 .. MaxSize]

\* The blocks of a pointer, and of the call in progress.
Span(p) ==
  IF ptr[p] = Null THEN {}
  ELSE (ptr[p] \div BlockSize) .. (ptr[p] \div BlockSize) + Need(asked[p]) - 1
NewSpan == IF pc = "copy" THEN offset .. offset + Need(size) - 1 ELSE {}

\* Allocations lie inside the bank and apart from each other, ...
Disjoint ==
  /\ \A p \in Pointers : Span(p) \subseteq Block /\ Span(p) \cap NewSpan = {}
  /\ \A p, q \in Pointers : p # q => Span(p) \cap Span(q) = {}

\* ... and the map says exactly which blocks are in use, and how long each allocation
\* is: free gives back what malloc took, no block leaks and none is freed under its owner.
MapExact ==
  rdy => \A b \in Block :
    /\ \A p \in Pointers : b \in Span(p) => map[b] = Need(asked[p])
    /\ b \in NewSpan => map[b] = Need(size)
    /\ b \notin NewSpan \cup UNION {Span(p) : p \in Pointers} => map[b] = 0

\* What an owner wrote stays, whatever the others do, and moves along with a realloc.
DataKept ==
  \A p \in Pointers : ptr[p] # Null =>
    \A i \in 0 .. kept[p] - 1 : mem[ptr[p] + i] = p

\* A request is refused only if there is no run of free blocks long enough.
Run(o, n) == o + n <= Blocks /\ \A b \in o .. o + n - 1 : map[b] = 0

RefusedOnlyIfFull ==
  [][pc = "scan" /\ pc' = "idle" /\ ptr' = ptr => \A o \in Block : ~Run(o, Need(size))]_vars
=============================================================================
