--------------------------- MODULE MCControlFile ---------------------------
(* Two callers that write versions of one and of two parts, so that an old    *)
(* temporary file may be longer than the new one, and read while they do.     *)
(* Every name and every caller may have an inode of its own, and one is left. *)
EXTENDS ControlFile, TLC

CONSTANTS c1, c2, short, long, i1, i2, i3, i4

MCParts == short :> 1 @@ long :> 2
MCSymmetry == Permutations({c1, c2}) \cup Permutations(Inodes)
=============================================================================
