--------------------------- MODULE SyscallCatalog ---------------------------
(***************************************************************************)
(* The table of system calls and the search for a number in it             *)
(* (src/src/syscall_catalog.c).  The table itself is generated and stays a *)
(* constant.                                                               *)
(***************************************************************************)
EXTENDS Integers

CONSTANTS Count,    \* entries of syscalls[]
          Numbers,  \* their numbers, by position
          Limit,    \* SG_SYSCALL_LIMIT
          Asked     \* numbers looked up

ASSUME CatalogAssumption ==
  /\ Count \in Nat /\ Limit \in Nat /\ Asked \subseteq Int
  /\ Numbers \in [0..(Count - 1) -> 0..(Limit - 1)]
  /\ \A i, j \in 0..(Count - 1) : i < j => Numbers[i] < Numbers[j]

VARIABLE lookup  \* the search in progress, or the last one

Missing == -1    \* a NULL descriptor

CatalogInit == lookup = [at |-> "idle", number |-> 0, left |-> 0, right |-> 0, found |-> Missing]

(* sg_syscall_by_number *)
BeginLookup(n) ==
  /\ lookup.at # "search"
  /\ lookup' = IF n < 0 \/ n >= Limit
                 THEN [lookup EXCEPT !.at = "done", !.number = n, !.found = Missing]
                 ELSE [at |-> "search", number |-> n, left |-> 0, right |-> Count,
                       found |-> Missing]

Middle == lookup.left + (lookup.right - lookup.left) \div 2

(* A bug: the entry in the middle is dropped on either side. *)
NarrowedBoth(m) ==
  IF Numbers[m] < lookup.number THEN [lookup EXCEPT !.left = m + 1]
  ELSE [lookup EXCEPT !.right = IF m = lookup.left THEN m ELSE m - 1]

Narrowed(m) ==
  IF Numbers[m] < lookup.number THEN [lookup EXCEPT !.left = m + 1]
  ELSE [lookup EXCEPT !.right = m]

Narrow ==
  /\ lookup.at = "search" /\ lookup.left < lookup.right
  /\ lookup' = Narrowed(Middle)

EndLookup ==
  /\ lookup.at = "search" /\ lookup.left >= lookup.right
  /\ lookup' = [lookup EXCEPT !.at = "done",
                  !.found = IF lookup.left < Count /\ Numbers[lookup.left] = lookup.number
                            THEN lookup.left ELSE Missing]

CatalogNext == Narrow \/ EndLookup \/ \E n \in Asked : BeginLookup(n)

CatalogSpec == CatalogInit /\ [][CatalogNext]_lookup

(* Whatever is asked for, the binary search reads inside the table, and    *)
(* finds the entry with the number if and only if there is one.            *)
LookupExact ==
  /\ lookup.at = "search" => 0 <= lookup.left /\ lookup.left <= lookup.right
                             /\ lookup.right <= Count
  /\ lookup.at = "done" =>
       IF lookup.found = Missing
         THEN \A i \in 0..(Count - 1) : Numbers[i] # lookup.number
         ELSE lookup.found \in 0..(Count - 1) /\ Numbers[lookup.found] = lookup.number
=============================================================================
