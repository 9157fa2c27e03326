---------------------------- MODULE MCStellarApp ----------------------------
(* The instances of StellarApp that TLC checks.                            *)
EXTENDS StellarApp

CONSTANTS path1, path2, noPath, chunk1, chunk2, hash1

OnePath   == {path1}
TwoPaths  == {path1, path2}
OneChunk  == {chunk1}
TwoChunks == {chunk1, chunk2}
NoHash    == {}
OneHash   == {hash1}

\* One chunk of one byte, the other of two.
Lengths   == [c \in Chunks |-> IF c = chunk1 THEN 1 ELSE 2]
=============================================================================
