-------------------------- MODULE MC_PageAllocator --------------------------
(* Small instances of PageAllocator.                                       *)
EXTENDS PageAllocator
=============================================================================
