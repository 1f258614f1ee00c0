-------------------------------- MODULE MCFtl --------------------------------
(***************************************************************************)
(* The translation layer for TLC.  The data are interchangeable.           *)
(***************************************************************************)
EXTENDS FtlInv, TLC

Symmetry == Permutations(Datum)

\* Commands may time out without end.
Unbounded == -1
=============================================================================
