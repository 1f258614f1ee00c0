----------------------------- MODULE MallocProof -----------------------------
(***************************************************************************)
(* Proofs about Malloc, for every size of the bank and of its blocks.      *)
(***************************************************************************)
EXTENDS Malloc, TLAPS

-----------------------------------------------------------------------------
\* Blocks and bytes.  A size fits into its blocks, and needs at least one.
LEMMA NeedBound ==
  ASSUME NEW s \in Nat
  PROVE  /\ Need(s) \in Nat /\ s <= Need(s) * BlockSize
         /\ s > 0 => Need(s) > 0
<1> DEFINE d == s \div BlockSize
           r == s % BlockSize
<1>1. BlockSize \in Nat /\ BlockSize > 0
  BY SizeAssumption
<1>2. d \in Nat /\ r \in 0 .. BlockSize - 1 /\ s = BlockSize * d + r
  BY <1>1
<1>3. Need(s) = d + (IF r # 0 THEN 1 ELSE 0)
  BY DEF Need
<1> HIDE DEF d, r
<1>4. CASE r = 0
  BY <1>1, <1>2, <1>3, <1>4
<1>5. CASE r # 0
  <2>1. Need(s) = d + 1 /\ Need(s) * BlockSize = BlockSize * d + BlockSize
    BY <1>1, <1>2, <1>3, <1>5
  <2> QED BY <2>1, <1>1, <1>2, <1>5
<1> QED BY <1>4, <1>5

\* The first byte of a block leads back to the block.
LEMMA BlockOf ==
  ASSUME NEW o \in Nat
  PROVE  o * BlockSize \in Nat /\ (o * BlockSize) \div BlockSize = o
<1>1. BlockSize \in Nat /\ BlockSize > 0
  BY SizeAssumption
<1> DEFINE x == o * BlockSize
           d == x \div BlockSize
           r == x % BlockSize
<1>2. x \in Nat
  BY <1>1
<1>3. d \in Nat /\ r \in 0 .. BlockSize - 1 /\ x = BlockSize * d + r
  BY <1>1, <1>2
<1>4. BlockSize * (o - d) = r
  BY <1>1, <1>3
<1>5. o = d
  <2> HIDE DEF d, r
  <2>1. CASE o - d > 0
    <3>1. BlockSize * (o - d) >= BlockSize
      BY <2>1, <1>1, <1>3
    <3> QED BY <3>1, <1>4, <1>3, <1>1
  <2>2. CASE o - d < 0
    <3>1. BlockSize * (o - d) <= -BlockSize
      BY <2>2, <1>1, <1>3
    <3> QED BY <3>1, <1>4, <1>3, <1>1
  <2> QED BY <2>1, <2>2, <1>3
<1> QED BY <1>2, <1>5

\* Blocks in order have their bytes in order.
LEMMA BytesInOrder ==
  ASSUME NEW a \in Nat, NEW b \in Nat, a <= b
  PROVE  a * BlockSize <= b * BlockSize
<1>1. BlockSize \in Nat
  BY SizeAssumption
<1>2. b * BlockSize = a * BlockSize + (b - a) * BlockSize /\ (b - a) * BlockSize >= 0
  BY <1>1
<1> QED BY <1>1, <1>2

\* Runs of blocks that are apart have their bytes apart.
LEMMA BytesApart ==
  ASSUME NEW a \in Nat, NEW m \in Nat, NEW s \in Nat, s <= m * BlockSize,
         NEW b \in Nat, NEW n \in Nat, NEW t \in Nat, t <= n * BlockSize,
         a + m <= b \/ b + n <= a,
         NEW i \in 0 .. s - 1, NEW j \in 0 .. t - 1
  PROVE  a * BlockSize + i # b * BlockSize + j
<1>1. BlockSize \in Nat
  BY SizeAssumption
<1>2. (a + m) * BlockSize = a * BlockSize + m * BlockSize
      /\ (b + n) * BlockSize = b * BlockSize + n * BlockSize
  BY <1>1
<1>3. a * BlockSize \in Nat /\ b * BlockSize \in Nat /\ m * BlockSize \in Nat
      /\ n * BlockSize \in Nat
  BY <1>1
<1>4. CASE a + m <= b
  <2>1. (a + m) * BlockSize <= b * BlockSize
    BY <1>4, BytesInOrder
  <2> QED BY <2>1, <1>2, <1>3
<1>5. CASE b + n <= a
  <2>1. (b + n) * BlockSize <= a * BlockSize
    BY <1>5, BytesInOrder
  <2> QED BY <2>1, <1>2, <1>3
<1> QED BY <1>4, <1>5

\* The bytes of a run inside the bank are places of the bank.
LEMMA BytesInside ==
  ASSUME NEW a \in Nat, NEW m \in Nat, NEW s \in Nat, s <= m * BlockSize, a + m <= Blocks,
         NEW i \in 0 .. s - 1
  PROVE  a * BlockSize + i \in Place
<1>1. BlockSize \in Nat /\ Blocks \in Nat
  BY SizeAssumption
<1>2. (a + m) * BlockSize = a * BlockSize + m * BlockSize
  BY <1>1
<1>3. (a + m) * BlockSize <= Blocks * BlockSize
  BY <1>1, BytesInOrder
<1>4. a * BlockSize \in Nat /\ m * BlockSize \in Nat /\ Blocks * BlockSize \in Nat
  BY <1>1
<1> QED BY <1>2, <1>3, <1>4 DEF Place

-----------------------------------------------------------------------------
(***************************************************************************)
(* The invariant.  A pointer is the first byte of a run inside the bank;   *)
(* the loop has passed no run that is long enough, and the last cmemb      *)
(* blocks it has passed are free, but not one more.                        *)
(***************************************************************************)
StartsAt(p, o) == ptr[p] = o * BlockSize /\ o + Need(asked[p]) <= Blocks

PointerView ==
  \A p \in Pointers :
    /\ ptr[p] # Null => rdy /\ asked[p] > 0 /\ \E o \in Block : StartsAt(p, o)
    /\ ptr[p] = Null => asked[p] = 0
    /\ kept[p] <= asked[p]

ScanView ==
  pc = "scan" =>
    /\ ~copies => ptr[who] = Null
    /\ cmemb < Need(size) /\ offset + cmemb < Blocks
    /\ \A b \in Block : offset < b /\ b <= offset + cmemb => map[b] = 0
    /\ \A b \in Block : b = offset + cmemb + 1 => map[b] # 0
    /\ \A o \in Block : offset < o => ~Run(o, Need(size))

CallView ==
  /\ pc # "idle" => rdy /\ who \in Pointers /\ size > 0
  /\ pc = "copy" => offset \in Block /\ offset + Need(size) <= Blocks

IInv == TypeOK /\ PointerView /\ CallView /\ ScanView /\ Disjoint /\ MapExact /\ DataKept

\* The blocks of a pointer that starts at o.
LEMMA SpanIs ==
  ASSUME TypeOK, NEW p \in Pointers, NEW o \in Block, StartsAt(p, o)
  PROVE  /\ ptr[p] # Null /\ ptr[p] \div BlockSize = o
         /\ Span(p) = o .. o + Need(asked[p]) - 1
<1>1. o \in Nat
  BY SizeAssumption DEF Block
<1>2. o * BlockSize \in Nat /\ (o * BlockSize) \div BlockSize = o
  BY <1>1, BlockOf
<1> QED BY <1>2, ValueAssumption DEF Span, StartsAt

\* my_mem_free clears the blocks of the pointer and no other.
LEMMA FreedIs ==
  ASSUME IInv, NEW p \in Pointers, ptr[p] # Null
  PROVE  Freed(ptr[p]) = [b \in Block |-> IF b \in Span(p) THEN 0 ELSE map[b]]
<1>1. PICK o \in Block : StartsAt(p, o)
  BY DEF IInv, PointerView
<1>2. ptr[p] \div BlockSize = o /\ Span(p) = o .. o + Need(asked[p]) - 1
  BY <1>1, SpanIs DEF IInv
<1>3. asked[p] \in Nat /\ asked[p] > 0 /\ rdy
  BY DEF IInv, PointerView, TypeOK
<1>4. Need(asked[p]) \in Nat /\ Need(asked[p]) > 0
  BY <1>3, NeedBound
<1>5. o \in Span(p)
  BY <1>2, <1>4, SizeAssumption DEF Block
<1>6. map[o] = Need(asked[p])
  BY <1>3, <1>5 DEF IInv, MapExact
<1> QED BY <1>2, <1>6 DEF Freed

\* The bytes of a pointer are places of the bank.
LEMMA PointerInside ==
  ASSUME IInv, NEW p \in Pointers, ptr[p] # Null, NEW i \in 0 .. asked[p] - 1
  PROVE  ptr[p] + i \in Place
<1>1. PICK o \in Block : StartsAt(p, o)
  BY DEF IInv, PointerView
<1>2. o \in Nat /\ asked[p] \in Nat
  BY SizeAssumption DEF IInv, TypeOK, Block
<1>3. Need(asked[p]) \in Nat /\ asked[p] <= Need(asked[p]) * BlockSize
  BY <1>2, NeedBound
<1>4. o * BlockSize + i \in Place
  BY <1>1, <1>2, <1>3, BytesInside DEF StartsAt
<1> QED BY <1>1, <1>4 DEF StartsAt

\* Two pointers have no byte in common.
LEMMA PointersApart ==
  ASSUME IInv, NEW p \in Pointers, NEW q \in Pointers, p # q, ptr[p] # Null, ptr[q] # Null,
         NEW i \in 0 .. asked[p] - 1, NEW j \in 0 .. asked[q] - 1
  PROVE  ptr[p] + i # ptr[q] + j
<1>1. PICK a \in Block : StartsAt(p, a)
  BY DEF IInv, PointerView
<1>2. PICK b \in Block : StartsAt(q, b)
  BY DEF IInv, PointerView
<1>3. a \in Nat /\ b \in Nat /\ asked[p] \in Nat /\ asked[q] \in Nat
  BY SizeAssumption DEF IInv, TypeOK, Block
<1> DEFINE m == Need(asked[p])
           n == Need(asked[q])
<1>4. /\ m \in Nat /\ asked[p] <= m * BlockSize /\ m > 0
      /\ n \in Nat /\ asked[q] <= n * BlockSize /\ n > 0
  BY <1>3, NeedBound DEF IInv, PointerView
<1>5. (a .. a + m - 1) \cap (b .. b + n - 1) = {}
  BY <1>1, <1>2, SpanIs DEF IInv, Disjoint
<1> HIDE DEF m, n
<1>6. a + m <= b \/ b + n <= a
  <2>1. a \in a .. a + m - 1 /\ b \in b .. b + n - 1
    BY <1>3, <1>4
  <2>2. a \notin b .. b + n - 1 /\ b \notin a .. a + m - 1
    BY <2>1, <1>5
  <2> QED BY <2>2, <1>3, <1>4
<1>7. a * BlockSize + i # b * BlockSize + j
  BY <1>3, <1>4, <1>6, BytesApart
<1> QED BY <1>1, <1>2, <1>7 DEF StartsAt

\* So a byte of the one is not among the bytes of the other.
LEMMA NotInBytes ==
  ASSUME IInv, NEW p \in Pointers, NEW q \in Pointers, p # q, ptr[p] # Null, ptr[q] # Null,
         NEW i \in 0 .. asked[p] - 1
  PROVE  ptr[p] + i \notin Bytes(ptr[q], asked[q])
<1> SUFFICES ASSUME ptr[p] + i \in Bytes(ptr[q], asked[q]) PROVE FALSE
  OBVIOUS
<1> DEFINE j == ptr[p] + i - ptr[q]
<1>1. ptr[p] \in Int /\ ptr[q] \in Int /\ asked[p] \in Nat /\ asked[q] \in Nat
  BY SizeAssumption DEF IInv, TypeOK, Place
<1>2. j \in 0 .. asked[q] - 1 /\ ptr[p] + i = ptr[q] + j
  BY <1>1 DEF Bytes
<1> QED BY <1>2, PointersApart

-----------------------------------------------------------------------------
LEMMA InitInv == Init => IInv
<1> SUFFICES ASSUME Init PROVE IInv
  OBVIOUS
<1> USE SizeAssumption, ValueAssumption DEF Init
<1>1. 1 \in 0 .. Blocks /\ -1 \in -1 .. Blocks - 1
  OBVIOUS
<1>2. map \in [Block -> 0 .. Blocks]
  BY <1>1
<1>3. TypeOK
  <2>1. rdy \in BOOLEAN /\ copies \in BOOLEAN
    OBVIOUS
  <2>2. /\ mem \in [Place -> Pointers \cup {Junk}] /\ ptr \in [Pointers -> Place \cup {Null}]
        /\ asked \in [Pointers -> 0 .. MaxSize] /\ kept \in [Pointers -> 0 .. MaxSize]
    OBVIOUS
  <2>3. /\ pc \in {"idle", "scan", "copy"} /\ who \in Pointers \cup {Null}
        /\ size \in 0 .. MaxSize /\ offset \in -1 .. Blocks - 1 /\ cmemb \in 0 .. Blocks
    BY <1>1
  <2> QED BY <2>1, <2>2, <2>3, <1>2 DEF TypeOK
<1>4. PointerView /\ CallView /\ ScanView
  BY DEF PointerView, CallView, ScanView
<1>5. \A p \in Pointers : Span(p) = {}
  BY DEF Span
<1>6. NewSpan = {}
  BY DEF NewSpan
<1>7. Disjoint
  BY <1>5, <1>6 DEF Disjoint
<1>8. MapExact /\ DataKept
  BY DEF MapExact, DataKept
<1> QED BY <1>3, <1>4, <1>7, <1>8 DEF IInv

LEMMA MemInitKeeps == IInv /\ MemInit => IInv'
<1> SUFFICES ASSUME IInv, MemInit PROVE IInv'
  OBVIOUS
<1> USE DEF MemInit, callVars
<1>1. map' \in [Block -> 0 .. Blocks]
  BY SizeAssumption DEF Blank
<1>2. TypeOK'
  BY <1>1 DEF IInv, TypeOK
<1>3. PointerView' /\ CallView' /\ ScanView' /\ DataKept'
  <2>1. PointerView'
    BY DEF IInv, PointerView
  <2>2. CallView' /\ ScanView'
    BY DEF CallView, ScanView
  <2>3. DataKept'
    BY DEF DataKept
  <2> QED BY <2>1, <2>2, <2>3
<1>4. \A p \in Pointers : Span(p)' = {}
  BY DEF Span
<1>5. NewSpan' = {}
  BY DEF NewSpan
<1>6. Disjoint' /\ MapExact'
  BY <1>4, <1>5 DEF Disjoint, MapExact, Blank
<1> QED BY <1>2, <1>3, <1>6 DEF IInv

\* The loop starts above every block.
LEMMA BeginKeeps ==
  ASSUME IInv, NEW p \in Pointers, NEW s \in 0 .. MaxSize, NEW re \in BOOLEAN, Begin(p, s, re)
  PROVE  IInv'
<1> USE DEF Begin, callVars
<1>1. map' \in [Block -> 0 .. Blocks]
  BY SizeAssumption DEF IInv, TypeOK, Blank
<1>2. rdy => map' = map
  OBVIOUS
<1>3. Need(size') \in Nat /\ (size' > 0 => Need(size') > 0)
  BY NeedBound, SizeAssumption DEF IInv, TypeOK
<1>4. TypeOK'
  <2>1. CASE s = 0
    BY <2>1, <1>1 DEF IInv, TypeOK
  <2>2. CASE s # 0
    BY <2>2, <1>1, SizeAssumption DEF IInv, TypeOK
  <2> QED BY <2>1, <2>2
<1>5. /\ \A q \in Pointers : Span(q)' = Span(q)
      /\ NewSpan' = {} /\ NewSpan = {}
  BY DEF Span, NewSpan
<1>6. PointerView'
  BY DEF IInv, PointerView, StartsAt
<1>7. CallView' /\ ScanView'
  <2>1. CASE s = 0
    BY <2>1 DEF CallView, ScanView
  <2>2. CASE s # 0
    BY <2>2, <1>3, SizeAssumption DEF CallView, ScanView, Block
  <2> QED BY <2>1, <2>2
<1>8. Disjoint' /\ DataKept'
  BY <1>5 DEF IInv, Disjoint, DataKept
<1>9. MapExact'
  <2>1. CASE rdy
    BY <2>1, <1>2, <1>5 DEF IInv, MapExact
  <2>2. CASE ~rdy
    <3>1. \A q \in Pointers : Span(q) = {}
      BY <2>2 DEF IInv, PointerView, Span
    <3> QED BY <2>2, <3>1, <1>5 DEF MapExact, Blank
  <2> QED BY <2>1, <2>2
<1> QED BY <1>4, <1>6, <1>7, <1>8, <1>9 DEF IInv

\* A turn of the loop: the blocks that are free from here on are as many as the count says,
\* and that is not enough.
LEMMA ScanKeeps == IInv /\ Scan => IInv'
<1> SUFFICES ASSUME IInv, Scan PROVE IInv'
  OBVIOUS
<1> USE DEF Scan
<1>1. /\ offset \in Block /\ cmemb \in Nat /\ Blocks \in Nat
      /\ cmemb < Need(size) /\ offset + cmemb < Blocks
      /\ size \in Nat /\ size > 0
  BY SizeAssumption DEF IInv, TypeOK, ScanView, CallView, Block
<1>2. Need(size) \in Nat /\ Need(size) > 0
  BY <1>1, NeedBound
<1>3. cmemb' < Need(size) /\ cmemb' \in Nat /\ offset' + cmemb' < Blocks
      /\ offset' \in -1 .. Blocks - 1 /\ cmemb' \in 0 .. Blocks
  BY <1>1, <1>2 DEF Block
<1>4. TypeOK'
  BY <1>3 DEF IInv, TypeOK
<1>5. \A b \in Block : offset' < b /\ b <= offset' + cmemb' => map[b] = 0
  BY <1>1 DEF IInv, ScanView, Block
<1>6. \A b \in Block : b = offset' + cmemb' + 1 => map[b] # 0
  BY <1>1 DEF IInv, ScanView, Block
<1>7. ~Run(offset, Need(size))
  <2> SUFFICES ASSUME Run(offset, Need(size)) PROVE FALSE
    OBVIOUS
  <2> DEFINE b == offset' + cmemb' + 1
  <2>1. b \in offset .. offset + Need(size) - 1 /\ b \in Block
    BY <1>1, <1>2, <1>3 DEF Block, Run
  <2> QED BY <2>1, <1>6 DEF Run
<1>8. \A o \in Block : offset' < o => ~Run(o, Need(size))
  BY <1>1, <1>7 DEF IInv, ScanView, Block
<1>9. ScanView'
  <2>1. /\ ~copies => ptr[who] = Null
    BY DEF IInv, ScanView
  <2>2. \A o \in Block : Run(o, Need(size))' <=> Run(o, Need(size))
    BY DEF Run, Need
  <2>3. Need(size)' = Need(size)
    BY DEF Need
  <2> QED BY <2>1, <2>2, <2>3, <1>3, <1>5, <1>6, <1>8 DEF ScanView
<1>10. PointerView' /\ CallView'
  BY DEF IInv, PointerView, CallView, StartsAt
<1>11. /\ \A q \in Pointers : Span(q)' = Span(q)
       /\ NewSpan' = {} /\ NewSpan = {}
  BY DEF Span, NewSpan
<1>12. Disjoint' /\ MapExact' /\ DataKept'
  BY <1>11 DEF IInv, Disjoint, MapExact, DataKept
<1> QED BY <1>4, <1>9, <1>10, <1>12 DEF IInv

LEMMA ScanNoneKeeps == IInv /\ ScanNone => IInv'
<1> SUFFICES ASSUME IInv, ScanNone PROVE IInv'
  OBVIOUS
<1> USE DEF ScanNone, Return
<1>1. 0 \in 0 .. MaxSize /\ -1 \in -1 .. Blocks - 1 /\ 0 \in 0 .. Blocks
  BY SizeAssumption
<1>2. TypeOK'
  BY <1>1 DEF IInv, TypeOK
<1>3. PointerView' /\ CallView' /\ ScanView'
  BY DEF IInv, PointerView, CallView, ScanView, StartsAt
<1>4. /\ \A q \in Pointers : Span(q)' = Span(q)
      /\ NewSpan' = {} /\ NewSpan = {}
  BY DEF Span, NewSpan
<1>5. Disjoint' /\ MapExact' /\ DataKept'
  BY <1>4 DEF IInv, Disjoint, MapExact, DataKept
<1> QED BY <1>2, <1>3, <1>5 DEF IInv

\* A pointer's blocks are in use: the map says more than zero for them.
LEMMA InUse ==
  ASSUME IInv, NEW p \in Pointers, NEW b \in Span(p)
  PROVE  b \in Block /\ map[b] # 0 /\ ptr[p] # Null
<1>1. ptr[p] # Null
  BY DEF Span
<1>2. rdy /\ asked[p] \in Nat /\ asked[p] > 0
  BY <1>1 DEF IInv, PointerView, TypeOK
<1>3. Need(asked[p]) > 0
  BY <1>2, NeedBound
<1>4. b \in Block
  BY DEF IInv, Disjoint
<1>5. map[b] = Need(asked[p])
  BY <1>2, <1>4 DEF IInv, MapExact
<1>6. Need(asked[p]) \in Nat
  BY <1>2, NeedBound
<1> QED BY <1>1, <1>3, <1>4, <1>5, <1>6

\* The run that is found is inside the bank and apart from every pointer.
LEMMA FoundIsFree ==
  ASSUME IInv, ScanFound
  PROVE  /\ offset \in Block /\ Need(size) \in 1 .. Blocks /\ offset + Need(size) <= Blocks
         /\ offset .. offset + Need(size) - 1 \subseteq Block
         /\ \A p \in Pointers : Span(p) \cap (offset .. offset + Need(size) - 1) = {}
<1> USE DEF ScanFound
<1>1. /\ offset \in Block /\ cmemb \in Nat /\ Blocks \in Nat
      /\ cmemb + 1 = Need(size) /\ offset + cmemb < Blocks /\ map[offset] = 0
  BY SizeAssumption DEF IInv, TypeOK, ScanView, Block
<1> DEFINE New == offset .. offset + Need(size) - 1
<1>2. Need(size) \in 1 .. Blocks /\ offset + Need(size) <= Blocks /\ New \subseteq Block
  BY <1>1 DEF Block
<1>3. \A b \in New : map[b] = 0
  BY <1>1, <1>2 DEF IInv, ScanView, Block
<1>4. \A p \in Pointers : Span(p) \cap New = {}
  BY <1>3, InUse
<1> QED BY <1>1, <1>2, <1>4

\* The map after the run is marked.
LEMMA MarkedIs ==
  ASSUME IInv, ScanFound
  PROVE  /\ Marked \in [Block -> 0 .. Blocks]
         /\ \A b \in offset .. offset + Need(size) - 1 : b \in Block => Marked[b] = Need(size)
         /\ \A b \in Block : b \notin offset .. offset + Need(size) - 1 => Marked[b] = map[b]
<1>1. Need(size) \in 0 .. Blocks
  BY FoundIsFree, SizeAssumption
<1> QED BY <1>1 DEF IInv, TypeOK, Marked

\* mymalloc returns the run.
LEMMA MallocKeeps ==
  ASSUME IInv, ScanFound, ~copies
  PROVE  IInv'
<1>0. PICK w, f, z : w = who /\ f = offset /\ z = size
  OBVIOUS
<1> DEFINE New == f .. f + Need(z) - 1
<1> USE DEF ScanFound, Return
<1>1. /\ w \in Pointers /\ rdy /\ z \in 0 .. MaxSize /\ z > 0 /\ ptr[w] = Null
      /\ Blocks \in Nat /\ BlockSize \in Nat /\ MaxSize \in Nat
  BY <1>0, SizeAssumption DEF IInv, TypeOK, CallView, ScanView
<1>2. /\ f \in Block /\ f + Need(z) <= Blocks /\ New \subseteq Block
      /\ \A p \in Pointers : Span(p) \cap New = {}
  BY <1>0, FoundIsFree
<1>3. /\ ptr' = [ptr EXCEPT ![w] = f * BlockSize]
      /\ asked' = [asked EXCEPT ![w] = z] /\ kept' = [kept EXCEPT ![w] = 0]
      /\ map' = Marked /\ rdy' = rdy /\ mem' = mem /\ pc' = "idle" /\ copies' = FALSE
  BY <1>0
<1>4. ptr' \in [Pointers -> Place \cup {Null}] /\ asked' \in [Pointers -> 0 .. MaxSize]
      /\ kept' \in [Pointers -> 0 .. MaxSize]
  <2>1. f \in Nat /\ 0 \in 0 .. z - 1 /\ z <= Need(z) * BlockSize /\ Need(z) \in Nat
    BY <1>1, <1>2, NeedBound DEF Block
  <2>2. f * BlockSize + 0 \in Place
    <3> HIDE DEF New
    <3> DEFINE m == Need(z)
    <3>1. m \in Nat /\ z \in Nat /\ z <= m * BlockSize /\ f + m <= Blocks
      BY <1>1, <1>2, <2>1
    <3> HIDE DEF m
    <3> QED BY <2>1, <3>1, BytesInside
  <2>3. f * BlockSize \in Place
    BY <2>1, <2>2, <1>1
  <2> QED BY <2>3, <1>1, <1>3 DEF IInv, TypeOK
<1>5. TypeOK'
  <2>1. 0 \in 0 .. MaxSize /\ -1 \in -1 .. Blocks - 1 /\ 0 \in 0 .. Blocks
    BY <1>1
  <2>2. copies' \in BOOLEAN /\ rdy' \in BOOLEAN
    BY <1>3 DEF IInv, TypeOK
  <2> QED BY <1>0, <2>1, <2>2, <1>4, MarkedIs DEF IInv, TypeOK
<1>6. CallView' /\ ScanView'
  BY DEF CallView, ScanView
<1>7. PointerView'
  <2> SUFFICES ASSUME NEW p \in Pointers
               PROVE  /\ ptr'[p] # Null => rdy' /\ asked'[p] > 0 /\ \E o \in Block : StartsAt(p, o)'
                      /\ ptr'[p] = Null => asked'[p] = 0
                      /\ kept'[p] <= asked'[p]
    BY DEF PointerView
  <2>1. CASE p = w
    <3>1. ptr'[p] = f * BlockSize /\ asked'[p] = z /\ kept'[p] = 0
      BY <2>1, <1>1, <1>3 DEF IInv, TypeOK
    <3>2. ptr'[p] # Null
      BY <3>1, <1>1, <1>2, BlockOf, ValueAssumption DEF Block
    <3>3. StartsAt(p, f)'
      BY <3>1, <1>2 DEF StartsAt, Need
    <3> QED BY <3>1, <3>2, <3>3, <1>1, <1>2, <1>3
  <2>2. CASE p # w
    <3>1. ptr'[p] = ptr[p] /\ asked'[p] = asked[p] /\ kept'[p] = kept[p]
      BY <2>2, <1>3 DEF IInv, TypeOK
    <3>2. \A o \in Block : StartsAt(p, o)' <=> StartsAt(p, o)
      BY <3>1 DEF StartsAt, Need
    <3> QED BY <3>1, <3>2, <1>1, <1>3 DEF IInv, PointerView
  <2> QED BY <2>1, <2>2
<1>8. Span(w)' = New /\ NewSpan' = {}
  <2>1. ptr'[w] = f * BlockSize /\ asked'[w] = z
    BY <1>1, <1>3 DEF IInv, TypeOK
  <2>2. f * BlockSize \in Nat /\ (f * BlockSize) \div BlockSize = f
    BY <1>1, <1>2, BlockOf DEF Block
  <2>3. Span(w)' = New
    BY <2>1, <2>2, ValueAssumption DEF Span, Need
  <2> QED BY <2>3 DEF NewSpan
<1>9. \A p \in Pointers : p # w => Span(p)' = Span(p)
  BY <1>3 DEF IInv, TypeOK, Span, Need
<1>10. NewSpan = {} /\ Span(w) = {}
  BY <1>1 DEF NewSpan, Span
<1>11. Disjoint'
  <2>1. \A p \in Pointers : Span(p)' \subseteq Block
    BY <1>2, <1>8, <1>9 DEF IInv, Disjoint
  <2>2. \A p, q \in Pointers : p # q => Span(p)' \cap Span(q)' = {}
    <3> SUFFICES ASSUME NEW p \in Pointers, NEW q \in Pointers, p # q
                 PROVE  Span(p)' \cap Span(q)' = {}
      OBVIOUS
    <3> HIDE DEF New
    <3>1. Span(p) \cap Span(q) = {}
      BY DEF IInv, Disjoint
    <3>2. CASE p = w
      BY <3>2, <1>2, <1>8, <1>9
    <3>3. CASE q = w
      BY <3>3, <1>2, <1>8, <1>9
    <3>4. CASE p # w /\ q # w
      BY <3>1, <3>4, <1>9
    <3> QED BY <3>2, <3>3, <3>4
  <2> QED BY <2>1, <2>2, <1>8 DEF Disjoint
<1>12. MapExact'
  <2> SUFFICES ASSUME NEW b \in Block
               PROVE  /\ \A p \in Pointers : b \in Span(p)' => map'[b] = Need(asked[p])'
                      /\ b \notin UNION {Span(p)' : p \in Pointers} => map'[b] = 0
    BY <1>8 DEF MapExact
  <2>1. CASE b \in New
    <3>1. map'[b] = Need(z)
      BY <2>1, <1>3, <1>0, MarkedIs
    <3>2. \A p \in Pointers : p # w => b \notin Span(p)'
      BY <2>1, <1>2, <1>9
    <3>3. Need(asked[w])' = Need(z)
      BY <1>1, <1>3 DEF Need, IInv, TypeOK
    <3> QED BY <2>1, <3>1, <3>2, <3>3, <1>1, <1>8
  <2>2. CASE b \notin New
    <3>1. map'[b] = map[b]
      BY <2>2, <1>3, <1>0, MarkedIs
    <3>2. \A p \in Pointers : b \in Span(p)' => p # w /\ b \in Span(p)
      BY <2>2, <1>8, <1>9
    <3>3. \A p \in Pointers : b \in Span(p) => b \in Span(p)'
      BY <1>9, <1>10
    <3>4. \A p \in Pointers : p # w => Need(asked[p])' = Need(asked[p])
      BY <1>3 DEF Need, IInv, TypeOK
    <3> QED BY <3>1, <3>2, <3>3, <3>4, <1>1, <1>10 DEF IInv, MapExact
  <2> QED BY <2>1, <2>2
<1>13. DataKept'
  <2> SUFFICES ASSUME NEW p \in Pointers, ptr'[p] # Null, NEW i \in 0 .. kept'[p] - 1
               PROVE  mem'[ptr'[p] + i] = p
    BY DEF DataKept
  <2>1. p # w
    BY <1>3, <1>1 DEF IInv, TypeOK
  <2>2. ptr'[p] = ptr[p] /\ kept'[p] = kept[p]
    BY <2>1, <1>3 DEF IInv, TypeOK
  <2> QED BY <2>2, <1>3 DEF IInv, DataKept
<1> QED BY <1>5, <1>6, <1>7, <1>11, <1>12, <1>13 DEF IInv

\* myrealloc has its new run, and still its old one.
LEMMA ReallocKeeps ==
  ASSUME IInv, ScanFound, copies
  PROVE  IInv'
<1> DEFINE New == offset .. offset + Need(size) - 1
<1> USE DEF ScanFound
<1>1. rdy /\ who \in Pointers /\ size > 0
  BY DEF IInv, CallView
<1>2. /\ offset \in Block /\ offset + Need(size) <= Blocks /\ New \subseteq Block
      /\ \A p \in Pointers : Span(p) \cap New = {}
  BY FoundIsFree
<1>3. TypeOK'
  BY MarkedIs DEF IInv, TypeOK
<1>4. PointerView' /\ CallView' /\ ScanView'
  BY <1>1, <1>2 DEF IInv, PointerView, CallView, ScanView, StartsAt, Need
<1>5. /\ \A q \in Pointers : Span(q)' = Span(q)
      /\ NewSpan' = New /\ NewSpan = {}
  BY DEF Span, NewSpan, Need
<1>6. Disjoint' /\ DataKept'
  BY <1>2, <1>5 DEF IInv, Disjoint, DataKept
<1>7. MapExact'
  <2> SUFFICES ASSUME NEW b \in Block
               PROVE  /\ \A p \in Pointers : b \in Span(p)' => map'[b] = Need(asked[p])'
                      /\ b \in New => map'[b] = Need(size)'
                      /\ b \notin New \cup UNION {Span(p)' : p \in Pointers} => map'[b] = 0
    BY <1>5 DEF MapExact
  <2>1. Need(size)' = Need(size) /\ \A p \in Pointers : Need(asked[p])' = Need(asked[p])
    BY DEF Need
  <2>2. CASE b \in New
    BY <2>1, <2>2, <1>2, <1>5, MarkedIs
  <2>3. CASE b \notin New
    BY <2>1, <2>3, <1>1, <1>5, MarkedIs DEF IInv, MapExact
  <2> QED BY <2>2, <2>3
<1> QED BY <1>3, <1>4, <1>6, <1>7 DEF IInv

\* The new run of a realloc has no byte of any pointer, and its bytes are in the bank.
LEMMA NewApart ==
  ASSUME IInv, pc = "copy", NEW j \in 0 .. size - 1
  PROVE  /\ offset * BlockSize + j \in Place
         /\ \A p \in Pointers : ptr[p] # Null =>
              \A i \in 0 .. asked[p] - 1 : ptr[p] + i # offset * BlockSize + j
<1> DEFINE n == Need(size)
<1>1. /\ offset \in Nat /\ Blocks \in Nat /\ offset + n <= Blocks /\ size \in Nat /\ size > 0
      /\ NewSpan = offset .. offset + n - 1
  BY SizeAssumption DEF IInv, TypeOK, CallView, Block, NewSpan
<1>2. n \in Nat /\ size <= n * BlockSize /\ n > 0
  BY <1>1, NeedBound
<1> HIDE DEF n
<1>3. offset * BlockSize + j \in Place
  BY <1>1, <1>2, BytesInside
<1>4. ASSUME NEW p \in Pointers, ptr[p] # Null, NEW i \in 0 .. asked[p] - 1
      PROVE  ptr[p] + i # offset * BlockSize + j
  <2>1. PICK a \in Block : StartsAt(p, a)
    BY <1>4 DEF IInv, PointerView
  <2> DEFINE m == Need(asked[p])
  <2>2. a \in Nat /\ asked[p] \in Nat /\ asked[p] > 0
    BY <1>4, SizeAssumption DEF IInv, TypeOK, Block, PointerView
  <2>3. m \in Nat /\ asked[p] <= m * BlockSize /\ m > 0
    BY <2>2, NeedBound
  <2>4. (a .. a + m - 1) \cap (offset .. offset + n - 1) = {}
    BY <2>1, <1>1, SpanIs DEF IInv, Disjoint
  <2> HIDE DEF m
  <2>5. a \in a .. a + m - 1 /\ offset \in offset .. offset + n - 1
    BY <1>1, <1>2, <2>2, <2>3
  <2>6. a \notin offset .. offset + n - 1 /\ offset \notin a .. a + m - 1
    BY <2>4, <2>5
  <2>7. a + m <= offset \/ offset + n <= a
    BY <2>6, <1>1, <1>2, <2>2, <2>3
  <2>8. a * BlockSize + i # offset * BlockSize + j
    BY <1>1, <1>2, <2>2, <2>3, <2>7, BytesApart
  <2> QED BY <2>1, <2>8 DEF StartsAt
<1> QED BY <1>3, <1>4

\* my_mem_free of a pointer.
LEMMA FreeKeeps ==
  ASSUME IInv, NEW w \in Pointers, Free(w)
  PROVE  IInv'
<1> USE DEF Free, callVars
<1>1. /\ map' = [b \in Block |-> IF b \in Span(w) THEN 0 ELSE map[b]]
      /\ ptr[w] # Null /\ pc = "idle" /\ pc' = "idle" /\ rdy' = rdy
  BY FreedIs
<1>2. /\ ptr' = [ptr EXCEPT ![w] = Null]
      /\ asked' = [asked EXCEPT ![w] = 0] /\ kept' = [kept EXCEPT ![w] = 0]
      /\ mem' = [i \in Place |-> IF i \in Bytes(ptr[w], asked[w]) THEN Junk ELSE mem[i]]
  OBVIOUS
<1>3. TypeOK'
  <2>1. 0 \in 0 .. MaxSize /\ 0 \in 0 .. Blocks
    BY SizeAssumption
  <2>2. map' \in [Block -> 0 .. Blocks] /\ mem' \in [Place -> Pointers \cup {Junk}]
    BY <2>1, <1>1, <1>2 DEF IInv, TypeOK
  <2>3. /\ ptr' \in [Pointers -> Place \cup {Null}]
        /\ asked' \in [Pointers -> 0 .. MaxSize] /\ kept' \in [Pointers -> 0 .. MaxSize]
    BY <2>1, <1>2 DEF IInv, TypeOK
  <2> QED BY <2>2, <2>3 DEF IInv, TypeOK
<1>4. CallView' /\ ScanView'
  BY DEF CallView, ScanView
<1>5. PointerView'
  <2> SUFFICES ASSUME NEW p \in Pointers
               PROVE  /\ ptr'[p] # Null => rdy' /\ asked'[p] > 0 /\ \E o \in Block : StartsAt(p, o)'
                      /\ ptr'[p] = Null => asked'[p] = 0
                      /\ kept'[p] <= asked'[p]
    BY DEF PointerView
  <2>1. CASE p = w
    BY <2>1, <1>2 DEF IInv, TypeOK
  <2>2. CASE p # w
    <3>1. ptr'[p] = ptr[p] /\ asked'[p] = asked[p] /\ kept'[p] = kept[p]
      BY <2>2, <1>2 DEF IInv, TypeOK
    <3>2. \A o \in Block : StartsAt(p, o)' <=> StartsAt(p, o)
      BY <3>1 DEF StartsAt, Need
    <3> QED BY <3>1, <3>2, <1>1 DEF IInv, PointerView
  <2> QED BY <2>1, <2>2
<1>6. Span(w)' = {} /\ NewSpan' = {} /\ NewSpan = {}
  BY <1>1, <1>2 DEF IInv, TypeOK, Span, NewSpan
<1>7. \A p \in Pointers : p # w => Span(p)' = Span(p) /\ Need(asked[p])' = Need(asked[p])
  BY <1>2 DEF IInv, TypeOK, Span, Need
<1>8. Disjoint'
  <2>1. \A p \in Pointers : Span(p)' \subseteq Span(p)
    BY <1>6, <1>7
  <2> QED BY <2>1, <1>6 DEF IInv, Disjoint
<1>9. MapExact'
  <2> SUFFICES ASSUME rdy, NEW b \in Block
               PROVE  /\ \A p \in Pointers : b \in Span(p)' => map'[b] = Need(asked[p])'
                      /\ b \notin UNION {Span(p)' : p \in Pointers} => map'[b] = 0
    BY <1>1, <1>6 DEF MapExact
  <2>1. CASE b \in Span(w)
    <3>1. \A p \in Pointers : p # w => b \notin Span(p)'
      BY <2>1, <1>7 DEF IInv, Disjoint
    <3> QED BY <2>1, <3>1, <1>1, <1>6
  <2>2. CASE b \notin Span(w)
    <3>1. map'[b] = map[b]
      BY <2>2, <1>1
    <3>2. \A p \in Pointers : b \in Span(p)' <=> p # w /\ b \in Span(p)
      BY <1>6, <1>7
    <3> QED BY <2>2, <3>1, <3>2, <1>6, <1>7 DEF IInv, MapExact
  <2> QED BY <2>1, <2>2
<1>10. DataKept'
  <2> SUFFICES ASSUME NEW p \in Pointers, ptr'[p] # Null, NEW i \in 0 .. kept'[p] - 1
               PROVE  mem'[ptr'[p] + i] = p
    BY DEF DataKept
  <2>1. p # w
    BY <1>2 DEF IInv, TypeOK
  <2>2. ptr'[p] = ptr[p] /\ kept'[p] = kept[p]
    BY <2>1, <1>2 DEF IInv, TypeOK
  <2>3. i \in 0 .. asked[p] - 1 /\ asked[p] \in Nat /\ asked[w] \in Nat
    BY <2>2 DEF IInv, TypeOK, PointerView
  <2>4. ptr[p] + i \in Place
    BY <2>2, <2>3, PointerInside
  <2>5. ptr[p] + i \notin Bytes(ptr[w], asked[w])
    BY <1>1, <2>1, <2>2, <2>3, <2>4, NotInBytes
  <2> QED BY <2>2, <2>4, <2>5, <1>2 DEF IInv, DataKept
<1> QED BY <1>3, <1>4, <1>5, <1>8, <1>9, <1>10 DEF IInv

\* The program fills the memory of a pointer.
LEMMA FillKeeps ==
  ASSUME IInv, NEW w \in Pointers, Fill(w)
  PROVE  IInv'
<1> USE DEF Fill, callVars
<1>1. /\ mem' = [i \in Place |-> IF i \in Bytes(ptr[w], asked[w]) THEN w ELSE mem[i]]
      /\ kept' = [kept EXCEPT ![w] = asked[w]] /\ ptr[w] # Null
      /\ ptr' = ptr /\ asked' = asked /\ map' = map /\ rdy' = rdy
  OBVIOUS
<1>2. TypeOK'
  BY <1>1 DEF IInv, TypeOK
<1>3. CallView' /\ ScanView'
  BY DEF CallView, ScanView
<1>4. PointerView'
  BY <1>1 DEF IInv, TypeOK, PointerView, StartsAt, Need
<1>5. /\ \A p \in Pointers : Span(p)' = Span(p)
      /\ NewSpan' = {} /\ NewSpan = {}
  BY DEF Span, NewSpan
<1>6. Disjoint' /\ MapExact'
  BY <1>5 DEF IInv, Disjoint, MapExact, Need
<1>7. DataKept'
  <2> SUFFICES ASSUME NEW p \in Pointers, ptr[p] # Null, NEW i \in 0 .. kept'[p] - 1
               PROVE  mem'[ptr[p] + i] = p
    BY <1>1 DEF DataKept
  <2>1. i \in 0 .. asked[p] - 1 /\ asked[p] \in Nat /\ asked[w] \in Nat
    BY <1>1 DEF IInv, TypeOK, PointerView
  <2>2. ptr[p] + i \in Place
    BY <2>1, PointerInside
  <2>3. CASE p = w
    <3>1. ptr[p] + i \in Bytes(ptr[w], asked[w])
      BY <2>1, <2>3, SizeAssumption DEF Bytes, IInv, TypeOK, Place
    <3> QED BY <2>2, <2>3, <3>1, <1>1
  <2>4. CASE p # w
    <3>1. ptr[p] + i \notin Bytes(ptr[w], asked[w])
      BY <1>1, <2>1, <2>2, <2>4, NotInBytes
    <3> QED BY <2>2, <2>4, <3>1, <1>1 DEF IInv, TypeOK, DataKept
  <2> QED BY <2>3, <2>4
<1> QED BY <1>2, <1>3, <1>4, <1>6, <1>7 DEF IInv

\* The rest of a realloc: the bytes move to the new run, and the old one is given back.
LEMMA MoveKeeps == IInv /\ Move => IInv'
<1> SUFFICES ASSUME IInv, Move PROVE IInv'
  OBVIOUS
<1>0. PICK w, f, z : w = who /\ f = offset /\ z = size
  OBVIOUS
<1> DEFINE old  == ptr[w]
           new  == f * BlockSize
           n    == IF kept[w] < z THEN kept[w] ELSE z
           New  == f .. f + Need(z) - 1
<1> USE DEF Move, Return
<1>1. /\ w \in Pointers /\ rdy /\ z \in 0 .. MaxSize /\ z > 0
      /\ f \in Block /\ f \in Nat /\ f + Need(z) <= Blocks /\ NewSpan = New
      /\ Blocks \in Nat /\ BlockSize \in Nat /\ MaxSize \in Nat
  BY <1>0, SizeAssumption DEF IInv, TypeOK, CallView, NewSpan, Block
<1>2. /\ mem' = [i \in Place |-> IF i \in Bytes(new, n) THEN mem[old + (i - new)]
                                 ELSE IF i \in Bytes(new, z) THEN Junk
                                 ELSE IF old # Null /\ i \in Bytes(old, asked[w]) THEN Junk
                                 ELSE mem[i]]
      /\ ptr' = [ptr EXCEPT ![w] = new] /\ kept' = [kept EXCEPT ![w] = n]
      /\ asked' = [asked EXCEPT ![w] = z]
      /\ rdy' = rdy /\ pc' = "idle" /\ copies' = FALSE
  BY <1>0
<1>3. map' = [b \in Block |-> IF b \in Span(w) THEN 0 ELSE map[b]]
  <2>1. CASE old = Null
    <3>1. Span(w) = {} /\ map' = map
      BY <2>1, <1>0 DEF Span
    <3> QED BY <3>1 DEF IInv, TypeOK
  <2>2. CASE old # Null
    BY <2>2, <1>0, <1>1, FreedIs
  <2> QED BY <2>1, <2>2
<1>4. /\ new \in Nat /\ new \div BlockSize = f
      /\ \A j \in 0 .. z - 1 : new + j \in Place
      /\ \A j \in 0 .. z - 1 : \A p \in Pointers : ptr[p] # Null =>
           \A i \in 0 .. asked[p] - 1 : ptr[p] + i # new + j
  BY <1>0, <1>1, BlockOf, NewApart
<1>5. /\ kept[w] \in Nat /\ n \in 0 .. z /\ n <= kept[w] /\ kept[w] <= asked[w]
      /\ asked[w] \in Nat /\ (n > 0 => old # Null)
      /\ \A j \in 0 .. n - 1 : j \in 0 .. kept[w] - 1 /\ j \in 0 .. asked[w] - 1
  BY <1>1 DEF IInv, TypeOK, PointerView
<1> HIDE DEF n
<1>6. new \in Place
  <2>1. 0 \in 0 .. z - 1 /\ new + 0 = new
    BY <1>1, <1>4
  <2> QED BY <2>1, <1>4
<1>7. \A j \in 0 .. n - 1 : old + j \in Place /\ mem[old + j] = w
  BY <1>1, <1>5, PointerInside DEF IInv, DataKept
<1>8. \A i \in Bytes(new, n) : i - new \in 0 .. n - 1
  BY <1>4, <1>5 DEF Bytes
<1> HIDE DEF new, old, New
<1>9. TypeOK'
  <2>1. 0 \in 0 .. MaxSize /\ -1 \in -1 .. Blocks - 1 /\ 0 \in 0 .. Blocks /\ n \in 0 .. MaxSize
    BY <1>1, <1>5
  <2>2. map' \in [Block -> 0 .. Blocks]
    BY <2>1, <1>3 DEF IInv, TypeOK
  <2>3. mem' \in [Place -> Pointers \cup {Junk}]
    <3>1. \A i \in Bytes(new, n) : mem[old + (i - new)] \in Pointers
      BY <1>1, <1>7, <1>8
    <3> QED BY <3>1, <1>2 DEF IInv, TypeOK
  <2>4. /\ ptr' \in [Pointers -> Place \cup {Null}]
        /\ asked' \in [Pointers -> 0 .. MaxSize] /\ kept' \in [Pointers -> 0 .. MaxSize]
    <3>1. ptr' \in [Pointers -> Place \cup {Null}]
      BY <1>2, <1>6 DEF IInv, TypeOK
    <3>2. asked' \in [Pointers -> 0 .. MaxSize]
      BY <1>1, <1>2 DEF IInv, TypeOK
    <3>3. kept' \in [Pointers -> 0 .. MaxSize]
      BY <2>1, <1>2 DEF IInv, TypeOK
    <3> QED BY <3>1, <3>2, <3>3
  <2>5. copies' \in BOOLEAN /\ rdy' \in BOOLEAN
    BY <1>2 DEF IInv, TypeOK
  <2> QED BY <2>1, <2>2, <2>3, <2>4, <2>5 DEF IInv, TypeOK
<1>10. CallView' /\ ScanView'
  BY DEF CallView, ScanView
<1>11. PointerView'
  <2> SUFFICES ASSUME NEW p \in Pointers
               PROVE  /\ ptr'[p] # Null => rdy' /\ asked'[p] > 0 /\ \E o \in Block : StartsAt(p, o)'
                      /\ ptr'[p] = Null => asked'[p] = 0
                      /\ kept'[p] <= asked'[p]
    BY DEF PointerView
  <2>1. CASE p = w
    <3>1. ptr'[p] = new /\ asked'[p] = z /\ kept'[p] = n
      BY <2>1, <1>1, <1>2 DEF IInv, TypeOK
    <3>2. ptr'[p] # Null
      BY <3>1, <1>4, ValueAssumption
    <3>3. StartsAt(p, f)'
      BY <3>1, <1>1 DEF StartsAt, Need, new
    <3> QED BY <3>1, <3>2, <3>3, <1>1, <1>2, <1>5
  <2>2. CASE p # w
    <3>1. ptr'[p] = ptr[p] /\ asked'[p] = asked[p] /\ kept'[p] = kept[p]
      BY <2>2, <1>2 DEF IInv, TypeOK
    <3>2. \A o \in Block : StartsAt(p, o)' <=> StartsAt(p, o)
      BY <3>1 DEF StartsAt, Need
    <3> QED BY <3>1, <3>2, <1>1, <1>2 DEF IInv, PointerView
  <2> QED BY <2>1, <2>2
<1>12. Span(w)' = New /\ NewSpan' = {}
  <2>1. ptr'[w] = new /\ asked'[w] = z
    BY <1>1, <1>2 DEF IInv, TypeOK
  <2>2. Span(w)' = New
    BY <2>1, <1>4, ValueAssumption DEF Span, Need, New
  <2> QED BY <2>2, <1>2 DEF NewSpan
<1>13. \A p \in Pointers : p # w => Span(p)' = Span(p) /\ Need(asked[p])' = Need(asked[p])
  BY <1>2 DEF IInv, TypeOK, Span, Need
<1>14. \A p \in Pointers : Span(p) \subseteq Block /\ Span(p) \cap New = {}
  BY <1>1 DEF IInv, Disjoint
<1>15. New \subseteq Block /\ \A b \in New : map[b] = Need(z)
  <2>1. New \subseteq Block
    BY <1>1, NeedBound DEF New, Block
  <2> QED BY <2>1, <1>0, <1>1 DEF IInv, MapExact
<1>16. Disjoint'
  <2>1. \A p \in Pointers : Span(p)' \subseteq Block
    BY <1>12, <1>13, <1>14, <1>15
  <2>2. \A p, q \in Pointers : p # q => Span(p)' \cap Span(q)' = {}
    <3> SUFFICES ASSUME NEW p \in Pointers, NEW q \in Pointers, p # q
                 PROVE  Span(p)' \cap Span(q)' = {}
      OBVIOUS
    <3>1. Span(p) \cap Span(q) = {}
      BY DEF IInv, Disjoint
    <3>2. CASE p = w
      BY <3>2, <1>12, <1>13, <1>14
    <3>3. CASE q = w
      BY <3>3, <1>12, <1>13, <1>14
    <3>4. CASE p # w /\ q # w
      BY <3>1, <3>4, <1>13
    <3> QED BY <3>2, <3>3, <3>4
  <2> QED BY <2>1, <2>2, <1>12 DEF Disjoint
<1>17. MapExact'
  <2> SUFFICES ASSUME NEW b \in Block
               PROVE  /\ \A p \in Pointers : b \in Span(p)' => map'[b] = Need(asked[p])'
                      /\ b \notin UNION {Span(p)' : p \in Pointers} => map'[b] = 0
    BY <1>12 DEF MapExact
  <2>1. CASE b \in New
    <3>1. b \notin Span(w) /\ map'[b] = Need(z)
      BY <2>1, <1>1, <1>3, <1>14, <1>15
    <3>2. \A p \in Pointers : p # w => b \notin Span(p)'
      BY <2>1, <1>13, <1>14
    <3>3. Need(asked[w])' = Need(z)
      BY <1>1, <1>2 DEF Need, IInv, TypeOK
    <3> QED BY <2>1, <3>1, <3>2, <3>3, <1>1, <1>12
  <2>2. CASE b \in Span(w)
    <3>1. \A p \in Pointers : b \notin Span(p)'
      BY <2>2, <1>1, <1>12, <1>13, <1>14 DEF IInv, Disjoint
    <3> QED BY <2>2, <3>1, <1>3
  <2>3. CASE b \notin New /\ b \notin Span(w)
    <3>1. map'[b] = map[b]
      BY <2>3, <1>3
    <3>2. \A p \in Pointers : b \in Span(p)' <=> b \in Span(p)
      BY <2>3, <1>12, <1>13
    <3> QED BY <2>3, <3>1, <3>2, <1>1, <1>13 DEF IInv, MapExact
  <2> QED BY <2>1, <2>2, <2>3
<1>18. DataKept'
  <2> SUFFICES ASSUME NEW p \in Pointers, ptr'[p] # Null, NEW i \in 0 .. kept'[p] - 1
               PROVE  mem'[ptr'[p] + i] = p
    BY DEF DataKept
  <2>1. CASE p = w
    <3>1. ptr'[p] = new /\ kept'[p] = n
      BY <2>1, <1>1, <1>2 DEF IInv, TypeOK
    <3>2. i \in 0 .. n - 1 /\ i \in 0 .. z - 1 /\ i \in Int
      BY <3>1, <1>1, <1>5
    <3>3. new + i \in Place /\ new + i \in Bytes(new, n) /\ (new + i) - new = i
      BY <3>2, <1>1, <1>4, <1>5 DEF Bytes
    <3>4. mem'[new + i] = mem[old + ((new + i) - new)]
      BY <3>3, <1>2
    <3> QED BY <2>1, <3>1, <3>2, <3>3, <3>4, <1>7
  <2>2. CASE p # w
    <3>1. ptr'[p] = ptr[p] /\ kept'[p] = kept[p]
      BY <2>2, <1>2 DEF IInv, TypeOK
    <3>2. i \in 0 .. asked[p] - 1
      BY <3>1 DEF IInv, TypeOK, PointerView
    <3> DEFINE k == ptr[p] + i
    <3>3. k \in Place
      BY <3>1, <3>2, PointerInside
    <3>4. \A j \in 0 .. z - 1 : k # new + j
      BY <3>1, <3>2, <1>4
    <3>5. k \notin Bytes(new, z)
      <4> HIDE DEF k
      <4> SUFFICES ASSUME k \in Bytes(new, z) PROVE FALSE
        OBVIOUS
      <4>1. k - new \in 0 .. z - 1 /\ k = new + (k - new)
        BY <1>1, <1>4 DEF Bytes
      <4> QED BY <4>1, <3>4
    <3>6. k \notin Bytes(new, n)
      BY <3>5, <1>1, <1>4, <1>5 DEF Bytes
    <3>7. old # Null => k \notin Bytes(old, asked[w])
      BY <2>2, <3>1, <3>2, <1>1, NotInBytes DEF old
    <3>8. mem'[k] = mem[k]
      <4> HIDE DEF k
      <4> QED BY <3>3, <3>5, <3>6, <3>7, <1>2
    <3> QED BY <3>1, <3>8 DEF IInv, DataKept
  <2> QED BY <2>1, <2>2
<1> QED BY <1>9, <1>10, <1>11, <1>16, <1>17, <1>18 DEF IInv

-----------------------------------------------------------------------------
LEMMA StepInv == IInv /\ [Next]_vars => IInv'
<1> SUFFICES ASSUME IInv, [Next]_vars PROVE IInv'
  OBVIOUS
<1>1. CASE MemInit
  BY <1>1, MemInitKeeps
<1>2. ASSUME NEW p \in Pointers, NEW s \in 0 .. MaxSize, NEW re \in BOOLEAN, Begin(p, s, re)
      PROVE  IInv'
  BY <1>2, BeginKeeps
<1>3. ASSUME NEW p \in Pointers, Free(p) PROVE IInv'
  BY <1>3, FreeKeeps
<1>4. ASSUME NEW p \in Pointers, Fill(p) PROVE IInv'
  BY <1>4, FillKeeps
<1>5. CASE Scan
  BY <1>5, ScanKeeps
<1>6. CASE ScanNone
  BY <1>6, ScanNoneKeeps
<1>7. CASE ScanFound
  BY <1>7, MallocKeeps, ReallocKeeps
<1>8. CASE Move
  BY <1>8, MoveKeeps
<1>9. CASE UNCHANGED vars
  BY <1>9 DEF vars, callVars, IInv, TypeOK, PointerView, CallView, ScanView, Disjoint, MapExact,
              DataKept, StartsAt, Span, NewSpan, Need, Run
<1> QED BY <1>1, <1>2, <1>3, <1>4, <1>5, <1>6, <1>7, <1>8, <1>9 DEF Next

LEMMA Invariant == Spec => []IInv
<1>1. Init => IInv
  BY InitInv
<1>2. IInv /\ [Next]_vars => IInv'
  BY StepInv
<1> QED BY <1>1, <1>2, PTL DEF Spec

\* Every variable keeps its type; the map never holds a length beyond the bank.
THEOREM Typed == Spec => []TypeOK
<1>1. IInv => TypeOK
  BY DEF IInv
<1> QED BY <1>1, Invariant, PTL

\* my_mem_malloc and myrealloc never give out a block that is in use, nor one outside the bank.
THEOREM Apart == Spec => []Disjoint
<1>1. IInv => Disjoint
  BY DEF IInv
<1> QED BY <1>1, Invariant, PTL

\* The map of my_mem_malloc and my_mem_free says which blocks are in use: none leaks, and none
\* that is in use is taken for free.
THEOREM Exact == Spec => []MapExact
<1>1. IInv => MapExact
  BY DEF IInv
<1> QED BY <1>1, Invariant, PTL

\* What an owner wrote is there as long as it holds the pointer, through myrealloc too.
THEOREM Kept == Spec => []DataKept
<1>1. IInv => DataKept
  BY DEF IInv
<1> QED BY <1>1, Invariant, PTL

\* The loop of my_mem_malloc gives up only when no run of free blocks is long enough.
THEOREM Refused == Spec => RefusedOnlyIfFull
<1> DEFINE A == pc = "scan" /\ pc' = "idle" /\ ptr' = ptr
                => \A o \in Block : ~Run(o, Need(size))
<1>1. IInv /\ [Next]_vars => [A]_vars
  <2> SUFFICES ASSUME IInv, [Next]_vars, pc = "scan", pc' = "idle", ptr' = ptr
               PROVE  \A o \in Block : ~Run(o, Need(size))
    OBVIOUS
  <2>1. CASE ScanNone
    BY <2>1, SizeAssumption DEF ScanNone, IInv, ScanView, Block
  <2>2. CASE ScanFound
    <3>1. ~copies
      BY <2>2 DEF ScanFound
    <3>2. who \in Pointers /\ ptr[who] = Null /\ ptr'[who] = offset * BlockSize
      BY <2>2, <3>1 DEF ScanFound, IInv, TypeOK, CallView, ScanView
    <3>3. offset * BlockSize \in Nat
      BY <2>2, FoundIsFree, BlockOf, SizeAssumption DEF Block
    <3> QED BY <3>2, <3>3, ValueAssumption
  <2>3. ScanNone \/ ScanFound
    BY DEF Next, vars, callVars, MemInit, Begin, Scan, Move, Free, Fill
  <2> QED BY <2>1, <2>2, <2>3
<1> QED BY <1>1, Invariant, PTL DEF Spec, RefusedOnlyIfFull
=============================================================================
