------------------------------- MODULE MCFonts -------------------------------
(***************************************************************************)
(* The font store for TLC: pages of 4 bytes, sectors of 8, blocks of 16.   *)
(***************************************************************************)
EXTENDS Fonts

CONSTANTS b1, b2, b3

AllBytes == {Blank, Mixed, Valid, b1, b2, b3}

\* Three values in turn, so that a byte in the wrong place shows.
File(size, first) == [o \in 1 .. size |-> <<b1, b2, b3>>[((first + o) % 3) + 1]]

\* Fonts that fill the region to its end, the first of just one chunk, and smaller ones.
TwoCards == {<<File(8, 0), File(21, 1)>>, <<File(5, 1), File(9, 0)>>}

StartOf == [c \in TwoCards |->
              <<FontBase + NFonts + 1, FontBase + NFonts + 1 + Len(c[1])>>]

\* All but the descriptor's mark, a sector, a page at the end, and a stretch in the middle.
FourParts == {1 .. 15, 0 .. 7, 12 .. 15, 3 .. 7}

\* Bytes on two pages, in one and in two sectors, and bytes of an image.
ThreeWrites == {[addr |-> 6, data |-> <<b1, b2, b1, b2>>], [addr |-> 3, data |-> <<b2, Blank, b2>>],
                [addr |-> 50, data |-> <<b1, b3, b2>>]}
=============================================================================
