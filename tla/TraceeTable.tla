----------------------------- MODULE TraceeTable -----------------------------
(***************************************************************************)
(* The open-addressed hash table of tracees (src/src/tracee_table.c).      *)
(*                                                                         *)
(* Linear probing from Hash[tid] & mask; a removal leaves a TOMBSTONE; an  *)
(* insertion first makes room by rehashing into a table twice as large.    *)
(* Each call is one step, except that an insertion which resizes takes one *)
(* step per old slot (the loop of resize_table), so that the rehash can be *)
(* reasoned about step by step; nothing else runs in between.              *)
(***************************************************************************)
EXTENDS Integers, FiniteSets

CONSTANTS Tids, NoTid, Data, NewData, Absent,
          Hash,             \* hash_tid: any function will do
          InitialCapacity,  \* SG_TRACEE_INITIAL_CAPACITY
          MaxCapacity       \* SIZE_MAX, or what calloc can provide

ASSUME TableAssumption == /\ NoTid \notin Tids
                          /\ NewData \in Data
                          /\ Absent \notin Data
                          /\ Hash \in [Tids -> Nat]
                          /\ InitialCapacity \in Nat /\ InitialCapacity > 1
                          /\ MaxCapacity \in Nat

VARIABLES slots,        \* table->slots
          capacity, count, tombstones,
          pc,           \* "idle", or "rehash" inside resize_table
          old, next,    \* old_slots and the loop's index
          arg,          \* the tid being inserted while pc = "rehash"
          ret           \* the last completed call's result

vars == <<slots, capacity, count, tombstones, pc, old, next, arg, ret>>

EMPTY     == [state |-> "EMPTY", tid |-> NoTid, data |-> Absent]
TOMBSTONE == [state |-> "TOMBSTONE", tid |-> NoTid, data |-> Absent]
Occupied(t, d) == [state |-> "OCCUPIED", tid |-> t, data |-> d]

Slot == {EMPTY, TOMBSTONE} \cup {Occupied(t, d) : t \in Tids, d \in Data}

Reply(ok, rec) == [ok |-> ok, rec |-> rec]

-----------------------------------------------------------------------------
(* The k-th index probed; (index + 1) & mask wraps at the capacity.        *)
Probe(cap, t, k) == LET i == (Hash[t] % cap) + k
                    IN  IF i < cap THEN i ELSE i - cap

Holds(s, i, t) == s[i].state = "OCCUPIED" /\ s[i].tid = t

(* A bug: a tombstone ends the probe as an EMPTY slot does. *)
StopsAtTombstone(s, cap, t, k) == \/ s[Probe(cap, t, k)].state # "OCCUPIED"
                                  \/ Holds(s, Probe(cap, t, k), t)

(* The probe loop returns at offset k. *)
Stops(s, cap, t, k) == \/ s[Probe(cap, t, k)].state = "EMPTY"
                       \/ Holds(s, Probe(cap, t, k), t)

Terminates(s, cap, t) == \E k \in 0..cap-1 : Stops(s, cap, t, k)

StopsFirst(s, cap, t, k) == /\ Stops(s, cap, t, k)
                            /\ \A j \in 0..k-1 : ~Stops(s, cap, t, j)

ProbeLength(s, cap, t) == CHOOSE k \in 0..cap-1 : StopsFirst(s, cap, t, k)

Found(s, cap, t) == Holds(s, Probe(cap, t, ProbeLength(s, cap, t)), t)

TombstoneAt(s, cap, t, k) == s[Probe(cap, t, k)].state = "TOMBSTONE"

(* The offset of the slot find_slot returns: the key's, or for an absent   *)
(* key the first tombstone passed, or else the EMPTY slot.                 *)
SlotOffset(s, cap, t) ==
  LET n    == ProbeLength(s, cap, t)
      Tomb == {k \in 0..n-1 : TombstoneAt(s, cap, t, k)}
  IN  IF Found(s, cap, t) \/ Tomb = {} THEN n
      ELSE CHOOSE k \in Tomb : \A j \in Tomb : k <= j

find_slot(s, cap, t) == Probe(cap, t, SlotOffset(s, cap, t))

(* A bug: tombstones are forgotten when the load is computed. *)
HasRoomIgnoringTombstones(cap, cnt, tmb) == (cnt + 1) * 10 < cap * 7

HasRoom(cap, cnt, tmb) == (cnt + tmb + 1) * 10 < cap * 7

-----------------------------------------------------------------------------
Init == /\ slots = [i \in 0..-1 |-> EMPTY]
        /\ capacity = 0 /\ count = 0 /\ tombstones = 0
        /\ pc = "idle"
        /\ old = slots /\ next = 0 /\ arg = NoTid
        /\ ret = Reply(TRUE, Absent)

(* sg_tracee_table_get *)
Get(t) ==
  /\ pc = "idle"
  /\ ret' = IF capacity = 0 \/ t = NoTid \/ ~Found(slots, capacity, t)
              THEN Reply(FALSE, Absent)
              ELSE Reply(TRUE, slots[find_slot(slots, capacity, t)].data)
  /\ UNCHANGED <<slots, capacity, count, tombstones, pc, old, next, arg>>

(* A caller writes through the pointer get returned. *)
Update(t, d) ==
  /\ pc = "idle"
  /\ capacity # 0 /\ Found(slots, capacity, t)
  /\ slots' = [slots EXCEPT ![find_slot(slots, capacity, t)] = Occupied(t, d)]
  /\ UNCHANGED <<capacity, count, tombstones, pc, old, next, arg, ret>>

(* A bug: reusing a tombstone does not take it off the count. *)
PlaceKeepingTombstone(t) ==
  LET i == find_slot(slots, capacity, t)
  IN  /\ IF Found(slots, capacity, t)
           THEN UNCHANGED <<slots, count>>
           ELSE /\ slots' = [slots EXCEPT ![i] = Occupied(t, NewData)]
                /\ count' = count + 1
      /\ ret' = Reply(TRUE, Absent)
      /\ UNCHANGED tombstones

(* A bug: every insertion takes a tombstone off the count. *)
PlaceAlwaysReusing(t) ==
  LET i == find_slot(slots, capacity, t)
  IN  /\ IF Found(slots, capacity, t)
           THEN UNCHANGED <<slots, count, tombstones>>
           ELSE /\ slots' = [slots EXCEPT ![i] = Occupied(t, NewData)]
                /\ count' = count + 1
                /\ tombstones' = tombstones - 1
      /\ ret' = Reply(TRUE, Absent)

(* The tail of sg_tracee_table_insert, once ensure_capacity has succeeded. *)
Place(t) ==
  LET i == find_slot(slots, capacity, t)
  IN  /\ IF Found(slots, capacity, t)
           THEN UNCHANGED <<slots, count, tombstones>>
           ELSE /\ slots' = [slots EXCEPT ![i] = Occupied(t, NewData)]
                /\ count' = count + 1
                /\ tombstones' = IF slots[i].state = "TOMBSTONE"
                                   THEN tombstones - 1 ELSE tombstones
      /\ ret' = Reply(TRUE, Absent)

Insert(t) ==
  /\ pc = "idle" /\ t # NoTid
  /\ capacity # 0 /\ HasRoom(capacity, count, tombstones)
  /\ Place(t)
  /\ UNCHANGED <<capacity, pc, old, next, arg>>

(* ensure_capacity calls resize_table, which allocates the new slots. *)
NewCapacity == IF capacity = 0 THEN InitialCapacity ELSE 2 * capacity

StartResize(t) ==
  /\ pc = "idle" /\ t # NoTid
  /\ capacity = 0 \/ ~HasRoom(capacity, count, tombstones)
  /\ NewCapacity <= MaxCapacity
  /\ slots' = [i \in 0..NewCapacity-1 |-> EMPTY]
  /\ capacity' = NewCapacity
  /\ count' = 0 /\ tombstones' = 0
  /\ pc' = "rehash"
  /\ old' = slots /\ next' = 0 /\ arg' = t
  /\ UNCHANGED ret

(* A tid or tgid <= 0, a capacity past SIZE_MAX / 2, or calloc failing.    *)
InsertFails(t) ==
  /\ pc = "idle"
  /\ t = NoTid \/ capacity = 0 \/ ~HasRoom(capacity, count, tombstones)
  /\ ret' = Reply(FALSE, Absent)
  /\ UNCHANGED <<slots, capacity, count, tombstones, pc, old, next, arg>>

(* One turn of resize_table's loop. *)
Rehash ==
  /\ pc = "rehash" /\ next \in DOMAIN old
  /\ IF old[next].state = "OCCUPIED"
       THEN /\ slots' = [slots EXCEPT ![find_slot(slots, capacity, old[next].tid)]
                                        = old[next]]
            /\ count' = count + 1
       ELSE UNCHANGED <<slots, count>>
  /\ next' = next + 1
  /\ UNCHANGED <<capacity, tombstones, pc, old, arg, ret>>

FinishInsert ==
  /\ pc = "rehash" /\ next \notin DOMAIN old
  /\ Place(arg)
  /\ pc' = "idle"
  /\ old' = [i \in 0..-1 |-> EMPTY] /\ next' = 0 /\ arg' = NoTid
  /\ UNCHANGED capacity

(* A bug: the slot becomes EMPTY, which cuts the probe sequences through it. *)
RemoveLeavingEmpty(t) ==
  LET i == find_slot(slots, capacity, t)
  IN  /\ pc = "idle"
      /\ IF capacity = 0 \/ t = NoTid \/ ~Found(slots, capacity, t)
           THEN /\ ret' = Reply(FALSE, Absent)
                /\ UNCHANGED <<slots, count>>
           ELSE /\ ret' = Reply(TRUE, slots[i].data)
                /\ slots' = [slots EXCEPT ![i] = EMPTY]
                /\ count' = count - 1
      /\ UNCHANGED <<capacity, tombstones, pc, old, next, arg>>

(* sg_tracee_table_remove *)
Remove(t) ==
  LET i == find_slot(slots, capacity, t)
  IN  /\ pc = "idle"
      /\ IF capacity = 0 \/ t = NoTid \/ ~Found(slots, capacity, t)
           THEN /\ ret' = Reply(FALSE, Absent)
                /\ UNCHANGED <<slots, count, tombstones>>
           ELSE /\ ret' = Reply(TRUE, slots[i].data)
                /\ slots' = [slots EXCEPT ![i] = TOMBSTONE]
                /\ count' = count - 1
                /\ tombstones' = tombstones + 1
      /\ UNCHANGED <<capacity, pc, old, next, arg>>

(* sg_tracee_table_destroy *)
Destroy ==
  /\ pc = "idle"
  /\ slots' = [i \in 0..-1 |-> EMPTY]
  /\ capacity' = 0 /\ count' = 0 /\ tombstones' = 0
  /\ UNCHANGED <<pc, old, next, arg, ret>>

Next == \/ \E t \in Tids \cup {NoTid} :
             Get(t) \/ Insert(t) \/ StartResize(t) \/ InsertFails(t) \/ Remove(t)
        \/ \E t \in Tids, d \in Data : Update(t, d)
        \/ Rehash \/ FinishInsert \/ Destroy

Spec == Init /\ [][Next]_vars

-----------------------------------------------------------------------------
(* Every field of the table keeps its type; in particular neither counter  *)
(* wraps below zero (they are size_t in the code).                         *)
TypeOK == /\ capacity \in Nat /\ count \in Nat /\ tombstones \in Nat
          /\ slots \in [0..capacity-1 -> Slot]
          /\ pc \in {"idle", "rehash"}
          /\ \E n \in 0..capacity : old \in [0..n-1 -> Slot] /\ next \in 0..n
          /\ arg \in Tids \cup {NoTid}
          /\ ret \in [ok : BOOLEAN, rec : Data \cup {Absent}]

(* find_slot's for (;;) ends for every tid, stored or not: the probe       *)
(* sequence always meets an EMPTY slot or the key, however many insertions *)
(* and removals went before, during a rehash too.                          *)
ProbeTerminates == capacity # 0 => \A t \in Tids : Terminates(slots, capacity, t)

(* No record is ever lost behind the probe sequence: find_slot finds a tid *)
(* exactly when some slot holds it, and at most one slot does.             *)
FindsStored ==
  /\ capacity # 0 => \A t \in Tids :
       Found(slots, capacity, t) <=> \E i \in 0..capacity-1 : Holds(slots, i, t)
  /\ \A i, j \in 0..capacity-1 : \A t \in Tids :
       Holds(slots, i, t) /\ Holds(slots, j, t) => i = j

(* table->count and table->tombstones, from which ensure_capacity decides, *)
(* are the numbers of OCCUPIED and TOMBSTONE slots.                        *)
CountsExact ==
  /\ count = Cardinality({i \in 0..capacity-1 : slots[i].state = "OCCUPIED"})
  /\ tombstones = Cardinality({i \in 0..capacity-1 : slots[i].state = "TOMBSTONE"})

(* The map the table stands for: a tid's record is in the table or, during *)
(* a rehash, in an old slot not yet moved.                                 *)
InTable(t) == \E i \in 0..capacity-1 : Holds(slots, i, t)
InOld(t)   == \E i \in DOMAIN old : i >= next /\ Holds(old, i, t)

Content ==
  [t \in Tids |->
     IF InTable(t)
       THEN slots[CHOOSE i \in 0..capacity-1 : Holds(slots, i, t)].data
     ELSE IF InOld(t)
       THEN old[CHOOSE i \in DOMAIN old : i >= next /\ Holds(old, i, t)].data
     ELSE Absent]

Map == INSTANCE TraceeMap WITH map <- Content

(* The table implements the map: every call returns what the map returns   *)
(* and changes only its own key, and a rehash moves records without the    *)
(* callers noticing.                                                       *)
RefinesMap == Map!MapSpec
=============================================================================
