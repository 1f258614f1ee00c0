------------------------------ MODULE ByteStore ------------------------------
(***************************************************************************)
(* What nor.c promises over the NOR chip: an array of bytes.  A write      *)
(* changes the bytes it names, in any order, and nothing else; once it has *)
(* returned all of them are there.  A power cut during a write may spoil   *)
(* one sector the write was to change, and no other.  That bytes can only  *)
(* be cleared, that pages wrap and that a sector is erased and programmed  *)
(* again around the few bytes that change cannot be seen.                  *)
(***************************************************************************)
EXTENDS Integers

CONSTANTS Place, SectorSize, BlockSize, Blank

VARIABLES
  store,     \* the bytes
  pending    \* the write in progress: a value for each place it changes

vars == <<store, pending>>

None == << >>

Init == DOMAIN store = Place /\ pending = None

Begin ==
  /\ pending = None
  /\ DOMAIN pending' \subseteq Place
  /\ UNCHANGED store

\* Some of the pending bytes reach their places, and of those that have, some are no
\* longer pending; when none is, the write returns.
Progress ==
  /\ DOMAIN store' = Place /\ DOMAIN pending' \subseteq DOMAIN pending
  /\ \A p \in Place : \/ store'[p] = store[p]
                      \/ p \in DOMAIN pending /\ store'[p] = pending[p]
  /\ \A p \in DOMAIN pending : IF p \in DOMAIN pending' THEN pending'[p] = pending[p]
                                                        ELSE store'[p] = pending[p]

\* nor_erase_block64.
EraseBlock ==
  /\ pending = None
  /\ \E b \in {p \div BlockSize : p \in Place} :
       store' = [p \in Place |-> IF p \div BlockSize = b THEN Blank ELSE store[p]]
  /\ UNCHANGED pending

\* The power goes during one, which has reached some of the block.
CutErase ==
  /\ pending = None
  /\ DOMAIN store' = Place
  /\ \E b \in {p \div BlockSize : p \in Place} :
       \A p \in Place : \/ store'[p] = store[p]
                        \/ p \div BlockSize = b /\ store'[p] = Blank
  /\ UNCHANGED pending

\* The power goes during a write.
Cut ==
  /\ \E s \in {p \div SectorSize : p \in DOMAIN pending} :
       /\ DOMAIN store' = Place
       /\ \A p \in Place : store'[p] = store[p] \/ p \div SectorSize = s
  /\ pending' = None

Next == Begin \/ Progress \/ EraseBlock \/ CutErase \/ Cut

Spec == Init /\ [][Next]_vars
=============================================================================
