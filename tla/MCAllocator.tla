----------------------------- MODULE MCAllocator -----------------------------
(***************************************************************************)
(* Allocator for TLC.  Nothing is claimed of what follows a stray prev, so *)
(* it is not explored.                                                     *)
(***************************************************************************)
EXTENDS Allocator

UntilStray == ~stray
=============================================================================
