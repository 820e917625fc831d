------------------------------- MODULE MCWire -------------------------------
(***************************************************************************)
(* Small instances of Wire for TLC.                                        *)
(***************************************************************************)
EXTENDS Wire

\* Lengths wrap at 8: a SETEX of three cells just fits, one of six does not, and
\* its cells look like a frame when the decoder gets out of step.  So do those of
\* the names, which make the same payload in either order, but for its first
\* length, and do not fit when both are long.
MCNames == {<<>>, <<3>>, <<3, 3, 3, 3>>}
MCKeys == {<<1>>}
MCValues == {<<3, 0, 1>>, <<3, 3, 1, 3, 0, 2>>}
=============================================================================
