---------------------------- MODULE MCFileSystem ----------------------------
(* FileSystem with what TLC needs to explore it.                           *)
EXTENDS FileSystem, TLC

Symmetry == Permutations(Caller)

(* The properties speak of disks on which no block was written back that   *)
(* had changed in the meantime.                                            *)
UntilRaced == ~raced
=============================================================================
