----------------------------- MODULE MCKhiWrite -----------------------------
(* Values of the constants of KhiWrite for TLC.                            *)
EXTENDS KhiWrite

\* Three positions one Epsilon apart: a command can creep from one to the next and
\* jump over it.
ThreePositions == 0..2

\* Two positions that differ by more than an Epsilon of 1.
TwoPositions == {0, 2}
=============================================================================
