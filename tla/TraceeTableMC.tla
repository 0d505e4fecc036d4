--------------------------- MODULE TraceeTableMC ---------------------------
(* A small table: 1 and 2 collide, 3 starts at the last slot and wraps.    *)
EXTENDS TraceeTable

MCTids == {1, 2, 3}
MCHash == [t \in MCTids |-> IF t = 3 THEN 3 ELSE 0]
=============================================================================
