------------------------------ MODULE MCPaging ------------------------------
(***************************************************************************)
(* Paging for TLC.  Threads are interchangeable.  Nothing is claimed of    *)
(* the states that follow the first misfiled page, so they are not         *)
(* explored.                                                               *)
(***************************************************************************)
EXTENDS Paging, TLC

Symmetry == Permutations(Thread)
UntilMisfiled == ~misfiled
=============================================================================
