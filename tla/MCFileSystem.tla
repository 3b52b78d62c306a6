---------------------------- MODULE MCFileSystem ----------------------------
(* Instances of the file system small enough for TLC. *)
EXTENDS FsProperties, TLC

CONSTANTS byteA, byteB

Chunk(byte, n) == [k \in 1 .. n |-> byte]

(* Shorter than a block, as the shell's 1000-byte chunks are; the second    *)
(* one written to a file crosses a block boundary.                          *)
OneChunk == {Chunk(byteA, 5)}

(* The second one needs two blocks in one call. *)
LongChunks == {Chunk(byteA, 5), Chunk(byteA, 10)}

(* Bytes that tell the order of the copies apart, also when a later write *)
(* overlaps an earlier one.                                                *)
MixedChunks == {<<byteA, byteB, byteB, byteA>>}

NameSymmetry == Permutations(Names)
=============================================================================
