------------------------------ MODULE MCMalloc ------------------------------
EXTENDS Malloc, TLC

\* The program's variables are alike.
Alike == Permutations(Pointers)
=============================================================================
