------------------------------- MODULE MCFifo -------------------------------
(***************************************************************************)
(* Small instances of Fifo for TLC.                                        *)
(***************************************************************************)
EXTENDS Fifo, TLC

CONSTANTS w1, w2, r1, c1

TwoWriters == {w1, w2}
OneReader == {r1}
OneCloser == {c1}

\* Two values show the order of the bytes.
TwoBytes == {0, 1}

Symmetry == Permutations(TwoWriters)
=============================================================================
