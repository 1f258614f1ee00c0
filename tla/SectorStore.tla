----------------------------- MODULE SectorStore -----------------------------
(***************************************************************************)
(* What the translation layer of ftl.c promises: an array of sectors that  *)
(* nothing but a write changes.  A write may land sector by sector, or     *)
(* many at once, in any order; when it is acknowledged all of it has       *)
(* landed, and when it fails, or is cut off, any part of it may have.      *)
(* One that does not lie within the array is never acknowledged.           *)
(* Starts, moves of blocks, refreshes and bad blocks cannot be seen.       *)
(***************************************************************************)
EXTENDS Integers, Sequences

CONSTANTS Sector, Datum, Blank, MaxLen

VARIABLES
  store,      \* the contents
  pending,    \* the write in progress, first sector and data; << >> if none
  answer      \* how the last request ended

vars == <<store, pending, answer>>

Init == store = [s \in Sector |-> Blank] /\ pending = << >> /\ answer = "none"

\* The sectors of the pending write, and what it puts on each.
Target  == pending[1] .. pending[1] + Len(pending[2]) - 1
Data(s) == pending[2][s - pending[1] + 1]

BeginWrite ==
  /\ pending = << >>
  /\ pending' \in Nat \X UNION {[1 .. n -> Datum] : n \in 1 .. MaxLen}
  /\ answer' = "none"
  /\ UNCHANGED store

\* Any part of the pending write reaches its sectors.
Land ==
  /\ pending # << >>
  /\ store' \in [Sector -> {Blank} \cup Datum]
  /\ \A s \in Sector : store'[s] = store[s] \/ (s \in Target /\ store'[s] = Data(s))
  /\ UNCHANGED <<pending, answer>>

Acknowledge ==
  /\ pending # << >>
  /\ \A s \in Target : s \in Sector /\ store[s] = Data(s)
  /\ pending' = << >> /\ answer' = "ok"
  /\ UNCHANGED store

\* The write gives up, or the power goes.
Fail ==
  /\ pending # << >>
  /\ pending' = << >> /\ answer' \in {"error", "none"}
  /\ UNCHANGED store

\* Reads and starts: they end somehow and leave the contents alone.
Other ==
  /\ pending = << >>
  /\ answer' \in {"ok", "error", "none"}
  /\ UNCHANGED <<store, pending>>

Next == BeginWrite \/ Land \/ Acknowledge \/ Fail \/ Other

Spec == Init /\ [][Next]_vars
=============================================================================
