------------------------------ MODULE TraceeMap ------------------------------
(***************************************************************************)
(* What the tracee table promises its callers in trace.c: a finite map     *)
(* from thread ids to tracee records, whose only surprise is that an       *)
(* insertion may fail for want of memory and then changes nothing.         *)
(***************************************************************************)
CONSTANTS Tids,      \* thread ids the kernel can hand out (all positive)
          NoTid,     \* stands for every tid <= 0
          Data,      \* contents of a struct sg_tracee
          NewData,   \* the record an insertion creates
          Absent     \* no record

VARIABLES map,       \* map[t] is t's record, or Absent
          ret        \* what the last completed call returned

mapVars == <<map, ret>>

(* Replies: ok is the function's bool (or "not NULL"); rec is the record   *)
(* get returns, remove hands over, or Absent.                              *)
Reply(ok, rec) == [ok |-> ok, rec |-> rec]

MapInit == /\ map = [t \in Tids |-> Absent]
           /\ ret = Reply(TRUE, Absent)

MapGet(t) == /\ ret' = IF t \in Tids /\ map[t] # Absent
                         THEN Reply(TRUE, map[t]) ELSE Reply(FALSE, Absent)
             /\ UNCHANGED map

MapInsert(t) == /\ t \in Tids
                /\ ret' = Reply(TRUE, Absent)
                /\ map' = IF map[t] = Absent
                            THEN [map EXCEPT ![t] = NewData] ELSE map

MapInsertFails == ret' = Reply(FALSE, Absent) /\ UNCHANGED map

MapUpdate(t, d) == /\ map[t] # Absent
                   /\ map' = [map EXCEPT ![t] = d]
                   /\ UNCHANGED ret

MapRemove(t) == /\ ret' = IF t \in Tids /\ map[t] # Absent
                            THEN Reply(TRUE, map[t]) ELSE Reply(FALSE, Absent)
                /\ map' = IF t \in Tids THEN [map EXCEPT ![t] = Absent] ELSE map

MapDestroy == /\ map' = [t \in Tids |-> Absent]
              /\ UNCHANGED ret

MapNext == \/ \E t \in Tids \cup {NoTid} : MapGet(t) \/ MapInsert(t) \/ MapRemove(t)
           \/ \E t \in Tids, d \in Data : MapUpdate(t, d)
           \/ MapInsertFails
           \/ MapDestroy

MapSpec == MapInit /\ [][MapNext]_mapVars
=============================================================================
