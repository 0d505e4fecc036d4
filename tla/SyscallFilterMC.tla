--------------------------- MODULE SyscallFilterMC ---------------------------
(* A catalogue of five calls in two overlapping classes. *)
EXTENDS SyscallFilter

SmallClasses == [file |-> {0, 2}, process |-> {2, 5}]
=============================================================================
