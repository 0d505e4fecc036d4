-------------------------- MODULE TraceeTableProofs --------------------------
(***************************************************************************)
(* Proofs about the tracee table for every hash function, every set of     *)
(* thread ids and every capacity.                                          *)
(***************************************************************************)
EXTENDS TraceeTable, WellFoundedInduction, FiniteSetTheorems, TLAPS

Indices(cap) == 0..cap-1

(* No EMPTY slot comes before a record on its own probe sequence. *)
WellPlaced(s, cap) ==
  \A t \in Tids : \A k \in Indices(cap) :
    Holds(s, Probe(cap, t, k), t) =>
      \A j \in 0..k-1 : s[Probe(cap, t, j)].state # "EMPTY"

Unique(s, cap) ==
  \A i, j \in Indices(cap) : \A t \in Tids : Holds(s, i, t) /\ Holds(s, j, t) => i = j

HasEmpty(s, cap) == \E i \in Indices(cap) : s[i].state = "EMPTY"

InState(s, cap, st) == {i \in Indices(cap) : s[i].state = st}

(* What makes a slot array a table. *)
Table(s, cap) == /\ s \in [Indices(cap) -> Slot]
                 /\ WellPlaced(s, cap)
                 /\ Unique(s, cap)

Stored(s, cap, t) == \E i \in Indices(cap) : Holds(s, i, t)

-----------------------------------------------------------------------------
(* Every non-empty set of naturals has a least element. *)
LEMMA LeastElement ==
  ASSUME NEW K \in SUBSET Nat, K # {}
  PROVE  \E m \in K : \A j \in K : m <= j
<1> DEFINE R == OpToRel(<, Nat)
<1>1. IsWellFoundedOn(R, Nat)
  BY NatLessThanWellFounded
<1>2. PICK m \in K : \A j \in K : <<j, m>> \notin R
  <2> HIDE DEF R
  <2> QED BY <1>1, WFMin
<1>3. \A j \in K : ~(j < m)
  BY <1>2 DEF OpToRel
<1> QED BY <1>3

(* What a slot can be. *)
LEMMA SlotKinds ==
  ASSUME NEW x \in Slot
  PROVE  /\ x.state \in {"EMPTY", "TOMBSTONE", "OCCUPIED"}
         /\ x.state = "OCCUPIED" => /\ x.tid \in Tids /\ x.data \in Data
                                    /\ x = Occupied(x.tid, x.data)
BY DEF Slot, EMPTY, TOMBSTONE, Occupied

(* ... and what its fields are. *)
LEMMA OccupiedIsSlot ==
  ASSUME NEW t \in Tids, NEW d \in Data
  PROVE  /\ Occupied(t, d) \in Slot /\ EMPTY \in Slot /\ TOMBSTONE \in Slot
         /\ Occupied(t, d).state = "OCCUPIED"
         /\ Occupied(t, d).tid = t
         /\ Occupied(t, d).data = d
         /\ EMPTY.state = "EMPTY" /\ TOMBSTONE.state = "TOMBSTONE"
BY DEF Slot, EMPTY, TOMBSTONE, Occupied

(* A probe sequence visits, wherever it starts, only slots of the table, ... *)
LEMMA ProbeIndex ==
  ASSUME NEW cap \in Nat, NEW t \in Tids, NEW k \in Indices(cap)
  PROVE  Probe(cap, t, k) \in Indices(cap)
<1>1. Hash[t] \in Nat /\ cap > 0
  BY TableAssumption DEF Indices
<1>2. Hash[t] % cap \in 0..cap-1
  BY <1>1
<1> QED BY <1>2 DEF Probe, Indices

(* ... every slot ... *)
LEMMA ProbeOnto ==
  ASSUME NEW cap \in Nat, NEW t \in Tids, NEW i \in Indices(cap)
  PROVE  \E k \in Indices(cap) : Probe(cap, t, k) = i
<1>1. Hash[t] \in Nat /\ cap > 0
  BY TableAssumption DEF Indices
<1> DEFINE h == Hash[t] % cap
<1>2. h \in 0..cap-1
  BY <1>1
<1>3. Probe(cap, t, IF h <= i THEN i - h ELSE i - h + cap) = i
  BY <1>2 DEF Probe, Indices
<1>4. (IF h <= i THEN i - h ELSE i - h + cap) \in Indices(cap)
  BY <1>2 DEF Indices
<1> QED BY <1>3, <1>4

(* ... exactly once. *)
LEMMA ProbeOnce ==
  ASSUME NEW cap \in Nat, NEW t \in Tids, NEW j \in Indices(cap), NEW k \in Indices(cap),
         Probe(cap, t, j) = Probe(cap, t, k)
  PROVE  j = k
<1>1. Hash[t] \in Nat /\ cap > 0
  BY TableAssumption DEF Indices
<1>2. Hash[t] % cap \in 0..cap-1
  BY <1>1
<1> QED BY <1>2 DEF Probe, Indices

-----------------------------------------------------------------------------
(* find_slot *)

(* One EMPTY slot anywhere ends the for (;;) of find_slot for every tid. *)
LEMMA EmptyTerminates ==
  ASSUME NEW cap \in Nat, NEW s, NEW t \in Tids, HasEmpty(s, cap)
  PROVE  Terminates(s, cap, t)
BY ProbeOnto DEF HasEmpty, Terminates, Stops, Indices

(* ProbeLength, a CHOOSE, is the first offset at which the loop returns. *)
LEMMA ProbeLengthFirst ==
  ASSUME NEW cap \in Nat, NEW s, NEW t \in Tids, HasEmpty(s, cap)
  PROVE  /\ ProbeLength(s, cap, t) \in Indices(cap)
         /\ StopsFirst(s, cap, t, ProbeLength(s, cap, t))
<1> DEFINE K == {k \in Indices(cap) : Stops(s, cap, t, k)}
<1>1. K # {} /\ K \subseteq Nat
  BY EmptyTerminates DEF Terminates, Indices
<1>2. PICK m \in K : \A j \in K : m <= j
  BY <1>1, LeastElement
<1>3. m \in Indices(cap) /\ StopsFirst(s, cap, t, m)
  BY <1>2 DEF StopsFirst, Indices
<1> QED BY <1>3 DEF ProbeLength, Indices

(* find_slot finds a tid exactly when it is stored. *)
LEMMA FoundIffStored ==
  ASSUME NEW cap \in Nat, NEW s, NEW t \in Tids, HasEmpty(s, cap), WellPlaced(s, cap)
  PROVE  Found(s, cap, t) <=> Stored(s, cap, t)
<1> DEFINE n == ProbeLength(s, cap, t)
<1>1. n \in Indices(cap) /\ StopsFirst(s, cap, t, n)
  BY ProbeLengthFirst
<1>2. Found(s, cap, t) => Stored(s, cap, t)
  BY <1>1, ProbeIndex DEF Found, Stored
<1>3. ASSUME NEW i \in Indices(cap), Holds(s, i, t), ~Found(s, cap, t)
      PROVE  FALSE
  <2>1. PICK k \in Indices(cap) : Probe(cap, t, k) = i
    BY ProbeOnto
  <2>2. s[Probe(cap, t, n)].state = "EMPTY"
    BY <1>1, <1>3 DEF StopsFirst, Stops, Found
  <2>3. Stops(s, cap, t, k)
    BY <1>3, <2>1 DEF Stops
  <2>4. n <= k
    BY <1>1, <2>3 DEF StopsFirst, Indices
  <2>5. n # k
    BY <2>1, <2>2, <1>3 DEF Holds
  <2>6. n \in 0..k-1
    BY <2>4, <2>5, <1>1 DEF Indices
  <2> QED BY <1>3, <2>1, <2>2, <2>6 DEF WellPlaced
<1> QED BY <1>2, <1>3 DEF Stored

(* The slot find_slot returns holds the tid if it is stored; otherwise it  *)
(* is free, and no EMPTY slot comes before it on the probe sequence.       *)
LEMMA SlotFound ==
  ASSUME NEW cap \in Nat, NEW s \in [Indices(cap) -> Slot], NEW t \in Tids, HasEmpty(s, cap)
  PROVE  /\ SlotOffset(s, cap, t) \in Indices(cap)
         /\ find_slot(s, cap, t) \in Indices(cap)
         /\ Found(s, cap, t) => Holds(s, find_slot(s, cap, t), t)
         /\ ~Found(s, cap, t) =>
              /\ s[find_slot(s, cap, t)].state # "OCCUPIED"
              /\ \A j \in 0..SlotOffset(s, cap, t)-1 : s[Probe(cap, t, j)].state # "EMPTY"
<1> DEFINE n == ProbeLength(s, cap, t)
           Tomb == {k \in 0..n-1 : TombstoneAt(s, cap, t, k)}
           o == SlotOffset(s, cap, t)
<1>1. n \in Indices(cap) /\ StopsFirst(s, cap, t, n)
  BY ProbeLengthFirst
<1>2. CASE Found(s, cap, t) \/ Tomb = {}
  <2>1. o = n
    BY <1>2 DEF SlotOffset
  <2>2. Found(s, cap, t) \/ s[Probe(cap, t, n)].state = "EMPTY"
    BY <1>1 DEF StopsFirst, Stops, Found
  <2>3. \A j \in 0..n-1 : s[Probe(cap, t, j)].state # "EMPTY"
    BY <1>1 DEF StopsFirst, Stops
  <2>4. find_slot(s, cap, t) = Probe(cap, t, n)
    BY <2>1 DEF find_slot
  <2>5. Probe(cap, t, n) \in Indices(cap)
    BY <1>1, ProbeIndex
  <2> QED BY <1>1, <2>1, <2>2, <2>3, <2>4, <2>5 DEF Found
<1>3. CASE ~(Found(s, cap, t) \/ Tomb = {})
  <2>1. Tomb \subseteq Nat /\ Tomb # {}
    BY <1>1, <1>3 DEF Indices
  <2>2. \E m \in Tomb : \A j \in Tomb : m <= j
    BY <2>1, LeastElement
  <2>3. o = CHOOSE k \in Tomb : \A j \in Tomb : k <= j
    BY <1>3 DEF SlotOffset
  <2>4. o \in Tomb
    BY <2>2, <2>3
  <2>5. o \in 0..n-1 /\ s[Probe(cap, t, o)].state = "TOMBSTONE"
    BY <2>4 DEF TombstoneAt
  <2>6. o \in Indices(cap)
    BY <1>1, <2>5 DEF Indices
  <2>7. Probe(cap, t, o) \in Indices(cap)
    BY <2>6, ProbeIndex
  <2>8. \A j \in 0..o-1 : s[Probe(cap, t, j)].state # "EMPTY"
    BY <1>1, <2>5 DEF StopsFirst, Stops, Indices
  <2> QED BY <1>3, <2>5, <2>6, <2>7, <2>8 DEF find_slot
<1> QED BY <1>2, <1>3

-----------------------------------------------------------------------------
(* What the three ways to write a slot do to a table. *)

(* Storing an absent tid in the slot find_slot returned. *)
LEMMA StoreKeepsTable ==
  ASSUME NEW cap \in Nat, NEW s, NEW t \in Tids, NEW d \in Data,
         Table(s, cap), HasEmpty(s, cap), ~Stored(s, cap, t)
  PROVE  LET i == find_slot(s, cap, t)
             z == [s EXCEPT ![i] = Occupied(t, d)]
         IN  /\ i \in Indices(cap) /\ s[i].state # "OCCUPIED"
             /\ Table(z, cap)
<1> DEFINE i == find_slot(s, cap, t)
           o == SlotOffset(s, cap, t)
           z == [s EXCEPT ![i] = Occupied(t, d)]
<1>1. s \in [Indices(cap) -> Slot] /\ WellPlaced(s, cap) /\ Unique(s, cap)
  BY DEF Table
<1>2. ~Found(s, cap, t)
  BY <1>1, FoundIffStored
<1>3. /\ o \in Indices(cap) /\ i \in Indices(cap) /\ i = Probe(cap, t, o)
      /\ s[i].state # "OCCUPIED"
      /\ \A j \in 0..o-1 : s[Probe(cap, t, j)].state # "EMPTY"
  BY <1>1, <1>2, SlotFound DEF find_slot
<1>4. /\ z \in [Indices(cap) -> Slot]
      /\ z[i] = Occupied(t, d)
      /\ \A j \in Indices(cap) : j # i => z[j] = s[j]
  BY <1>1, <1>3, OccupiedIsSlot
<1>5. \A j \in Indices(cap) : s[j].state # "EMPTY" => z[j].state # "EMPTY"
  BY <1>4, OccupiedIsSlot
<1>6. \A u \in Tids : \A j \in Indices(cap) :
         Holds(z, j, u) <=> IF u = t THEN j = i ELSE Holds(s, j, u)
  <2> TAKE u \in Tids
  <2> TAKE j \in Indices(cap)
  <2>1. CASE j = i
    BY <2>1, <1>3, <1>4, OccupiedIsSlot DEF Holds
  <2>2. CASE j # i
    BY <2>2, <1>4 DEF Holds, Stored
  <2> QED BY <2>1, <2>2
<1>7. WellPlaced(z, cap)
  <2> SUFFICES ASSUME NEW u \in Tids, NEW k \in Indices(cap),
                      Holds(z, Probe(cap, u, k), u), NEW j \in 0..k-1
               PROVE  z[Probe(cap, u, j)].state # "EMPTY"
    BY DEF WellPlaced
  <2>1. j \in Indices(cap)
    BY DEF Indices
  <2>2. Probe(cap, u, k) \in Indices(cap) /\ Probe(cap, u, j) \in Indices(cap)
    BY <2>1, ProbeIndex
  <2>3. CASE u = t
    <3>1. k = o
      BY <2>2, <2>3, <1>3, <1>6, ProbeOnce
    <3> QED BY <3>1, <2>2, <2>3, <1>3, <1>5
  <2>4. CASE u # t
    <3>1. Holds(s, Probe(cap, u, k), u)
      BY <2>2, <2>4, <1>6
    <3>2. s[Probe(cap, u, j)].state # "EMPTY"
      BY <3>1, <1>1 DEF WellPlaced
    <3> QED BY <3>2, <2>2, <1>5
  <2> QED BY <2>3, <2>4
<1>8. Unique(z, cap)
  BY <1>1, <1>6 DEF Unique
<1> QED BY <1>3, <1>4, <1>7, <1>8 DEF Table

(* Removing a tid: the slot becomes a TOMBSTONE, which no probe stops at. *)
LEMMA RemoveKeepsTable ==
  ASSUME NEW cap \in Nat, NEW s, NEW i \in Indices(cap), Table(s, cap)
  PROVE  Table([s EXCEPT ![i] = TOMBSTONE], cap)
<1> DEFINE z == [s EXCEPT ![i] = TOMBSTONE]
<1>1. s \in [Indices(cap) -> Slot] /\ WellPlaced(s, cap) /\ Unique(s, cap)
  BY DEF Table
<1>2. /\ z \in [Indices(cap) -> Slot] /\ z[i].state = "TOMBSTONE"
      /\ \A j \in Indices(cap) : j # i => z[j] = s[j]
  BY <1>1 DEF Slot, TOMBSTONE
<1>3. \A j \in Indices(cap) : s[j].state # "EMPTY" => z[j].state # "EMPTY"
  BY <1>2
<1>4. \A u \in Tids : \A j \in Indices(cap) : Holds(z, j, u) => Holds(s, j, u)
  BY <1>2 DEF Holds
<1>5. WellPlaced(z, cap)
  <2> SUFFICES ASSUME NEW u \in Tids, NEW k \in Indices(cap),
                      Holds(z, Probe(cap, u, k), u), NEW j \in 0..k-1
               PROVE  z[Probe(cap, u, j)].state # "EMPTY"
    BY DEF WellPlaced
  <2>1. Probe(cap, u, k) \in Indices(cap) /\ Probe(cap, u, j) \in Indices(cap)
    <3>1. j \in Indices(cap)
      BY DEF Indices
    <3> QED BY <3>1, ProbeIndex
  <2>2. Holds(s, Probe(cap, u, k), u)
    BY <2>1, <1>4
  <2> QED BY <2>1, <2>2, <1>1, <1>3 DEF WellPlaced
<1>6. Unique(z, cap)
  BY <1>1, <1>4 DEF Unique
<1> QED BY <1>2, <1>5, <1>6 DEF Table

(* Writing through the pointer get returned leaves every key in place. *)
LEMMA UpdateKeepsTable ==
  ASSUME NEW cap \in Nat, NEW s, NEW i \in Indices(cap), NEW t \in Tids, NEW d \in Data,
         Table(s, cap), Holds(s, i, t)
  PROVE  Table([s EXCEPT ![i] = Occupied(t, d)], cap)
<1> DEFINE z == [s EXCEPT ![i] = Occupied(t, d)]
<1>1. s \in [Indices(cap) -> Slot] /\ WellPlaced(s, cap) /\ Unique(s, cap)
  BY DEF Table
<1>2. /\ z \in [Indices(cap) -> Slot]
      /\ z[i] = Occupied(t, d)
      /\ \A j \in Indices(cap) : j # i => z[j] = s[j]
  BY <1>1, OccupiedIsSlot
<1>3. \A j \in Indices(cap) : z[j].state = s[j].state
  BY <1>2, OccupiedIsSlot DEF Holds
<1>4. \A u \in Tids : \A j \in Indices(cap) : Holds(z, j, u) <=> Holds(s, j, u)
  <2> TAKE u \in Tids
  <2> TAKE j \in Indices(cap)
  <2>1. CASE j = i
    BY <2>1, <1>2, OccupiedIsSlot DEF Holds
  <2>2. CASE j # i
    BY <2>2, <1>2 DEF Holds
  <2> QED BY <2>1, <2>2
<1>5. WellPlaced(z, cap)
  <2> SUFFICES ASSUME NEW u \in Tids, NEW k \in Indices(cap),
                      Holds(z, Probe(cap, u, k), u), NEW j \in 0..k-1
               PROVE  z[Probe(cap, u, j)].state # "EMPTY"
    BY DEF WellPlaced
  <2>1. Probe(cap, u, k) \in Indices(cap) /\ Probe(cap, u, j) \in Indices(cap)
    <3>1. j \in Indices(cap)
      BY DEF Indices
    <3> QED BY <3>1, ProbeIndex
  <2> QED BY <2>1, <1>1, <1>3, <1>4 DEF WellPlaced
<1>6. Unique(z, cap)
  BY <1>1, <1>4 DEF Unique
<1> QED BY <1>2, <1>3, <1>5, <1>6 DEF Table

-----------------------------------------------------------------------------
(* Counting *)

Counted(s, cap, cnt, tmb) == /\ cnt = Cardinality(InState(s, cap, "OCCUPIED"))
                             /\ tmb = Cardinality(InState(s, cap, "TOMBSTONE"))

(* The slots of one kind can be counted. *)
LEMMA InStateFinite ==
  ASSUME NEW cap \in Nat, NEW s, NEW st
  PROVE  /\ IsFiniteSet(InState(s, cap, st))
         /\ Cardinality(InState(s, cap, st)) \in Nat
<1>1. IsFiniteSet(Indices(cap))
  BY FS_Interval DEF Indices
<1>2. InState(s, cap, st) \in SUBSET Indices(cap)
  BY DEF InState
<1> QED BY <1>1, <1>2, FS_Subset, FS_CardinalityType

(* A table whose counters leave room has an EMPTY slot. *)
LEMMA RoomLeavesEmpty ==
  ASSUME NEW cap \in Nat, NEW s \in [Indices(cap) -> Slot], NEW cnt, NEW tmb,
         Counted(s, cap, cnt, tmb), cnt + tmb < cap
  PROVE  HasEmpty(s, cap)
<1> DEFINE O == InState(s, cap, "OCCUPIED")
           T == InState(s, cap, "TOMBSTONE")
<1>1. SUFFICES ASSUME ~HasEmpty(s, cap) PROVE FALSE
  OBVIOUS
<1>2. O \cup T = Indices(cap)
  BY <1>1, SlotKinds DEF HasEmpty, InState
<1>3. O \cap T = {}
  BY DEF InState
<1>4. Cardinality(O \cup T) = Cardinality(O) + Cardinality(T) - Cardinality(O \cap T)
  BY InStateFinite, FS_Union
<1>5. Cardinality(O \cap T) = 0
  BY <1>3, FS_EmptySet
<1>6. Cardinality(Indices(cap)) = cap
  BY FS_Interval DEF Indices
<1>7. /\ cnt = Cardinality(O) /\ tmb = Cardinality(T)
      /\ Cardinality(O) \in Nat /\ Cardinality(T) \in Nat
  BY InStateFinite DEF Counted
<1>8. Cardinality(O \cup T) = cap
  BY <1>2, <1>6
<1>9. Cardinality(O) + Cardinality(T) = cap
  BY <1>4, <1>5, <1>7, <1>8
<1> QED BY <1>7, <1>9

(* Storing in a free slot. *)
LEMMA StoreCounts ==
  ASSUME NEW cap \in Nat, NEW s \in [Indices(cap) -> Slot], NEW i \in Indices(cap),
         NEW t \in Tids, NEW d \in Data, NEW cnt, NEW tmb,
         Counted(s, cap, cnt, tmb), s[i].state # "OCCUPIED"
  PROVE  LET z == [s EXCEPT ![i] = Occupied(t, d)]
         IN  /\ Counted(z, cap, cnt + 1,
                        IF s[i].state = "TOMBSTONE" THEN tmb - 1 ELSE tmb)
             /\ s[i].state = "TOMBSTONE" => tmb > 0
<1> DEFINE z == [s EXCEPT ![i] = Occupied(t, d)]
           O == InState(s, cap, "OCCUPIED")
           T == InState(s, cap, "TOMBSTONE")
<1>1. z[i].state = "OCCUPIED" /\ \A j \in Indices(cap) : j # i => z[j] = s[j]
  BY OccupiedIsSlot
<1>2. InState(z, cap, "OCCUPIED") = O \cup {i}
  BY <1>1 DEF InState
<1>3. InState(z, cap, "TOMBSTONE") = T \ {i}
  BY <1>1 DEF InState
<1>4. i \notin O /\ (i \in T <=> s[i].state = "TOMBSTONE")
  BY DEF InState
<1>5. Cardinality(O \cup {i}) = Cardinality(O) + 1
  BY <1>4, InStateFinite, FS_AddElement
<1>6. Cardinality(T \ {i}) = IF i \in T THEN Cardinality(T) - 1 ELSE Cardinality(T)
  BY InStateFinite, FS_RemoveElement
<1>7. i \in T => Cardinality(T) > 0
  <2>1. i \in T => T # {}
    OBVIOUS
  <2> QED BY <2>1, InStateFinite, FS_EmptySet
<1> QED BY <1>2, <1>3, <1>4, <1>5, <1>6, <1>7 DEF Counted

(* Removing a record. *)
LEMMA RemoveCounts ==
  ASSUME NEW cap \in Nat, NEW s \in [Indices(cap) -> Slot], NEW i \in Indices(cap),
         NEW cnt, NEW tmb, Counted(s, cap, cnt, tmb), s[i].state = "OCCUPIED"
  PROVE  /\ Counted([s EXCEPT ![i] = TOMBSTONE], cap, cnt - 1, tmb + 1)
         /\ cnt > 0
<1> DEFINE z == [s EXCEPT ![i] = TOMBSTONE]
           O == InState(s, cap, "OCCUPIED")
           T == InState(s, cap, "TOMBSTONE")
<1>1. z[i].state = "TOMBSTONE" /\ \A j \in Indices(cap) : j # i => z[j] = s[j]
  BY DEF TOMBSTONE
<1>2. InState(z, cap, "OCCUPIED") = O \ {i}
  BY <1>1 DEF InState
<1>3. InState(z, cap, "TOMBSTONE") = T \cup {i}
  BY <1>1 DEF InState
<1>4. i \in O /\ i \notin T
  BY DEF InState
<1>5. Cardinality(T \cup {i}) = Cardinality(T) + 1
  BY <1>4, InStateFinite, FS_AddElement
<1>6. Cardinality(O \ {i}) = Cardinality(O) - 1
  BY <1>4, InStateFinite, FS_RemoveElement
<1>7. Cardinality(O) > 0
  <2>1. O # {}
    BY <1>4
  <2> QED BY <2>1, InStateFinite, FS_EmptySet
<1> QED BY <1>2, <1>3, <1>5, <1>6, <1>7 DEF Counted

(* A table just allocated. *)
LEMMA EmptyTable ==
  ASSUME NEW cap \in Nat
  PROVE  LET z == [i \in Indices(cap) |-> EMPTY]
         IN  /\ Table(z, cap) /\ Counted(z, cap, 0, 0)
             /\ \A t \in Tids : ~Stored(z, cap, t)
<1> DEFINE z == [i \in Indices(cap) |-> EMPTY]
<1>1. z \in [Indices(cap) -> Slot] /\ \A i \in Indices(cap) : z[i].state = "EMPTY"
  BY DEF Slot, EMPTY
<1>2. \A i \in Indices(cap) : \A t \in Tids : ~Holds(z, i, t)
  BY <1>1 DEF Holds
<1>3. WellPlaced(z, cap)
  BY <1>2, ProbeIndex DEF WellPlaced
<1>4. Unique(z, cap)
  BY <1>2 DEF Unique
<1>5. InState(z, cap, "OCCUPIED") = {} /\ InState(z, cap, "TOMBSTONE") = {}
  BY <1>1 DEF InState
<1>6. Counted(z, cap, 0, 0)
  BY <1>5, FS_EmptySet DEF Counted
<1> QED BY <1>1, <1>2, <1>3, <1>4, <1>6 DEF Table, Stored

-----------------------------------------------------------------------------
(* The inductive invariant.  ProbeTerminates needs an EMPTY slot, hence a  *)
(* bound on the counters, hence exact counters; exact counters need that   *)
(* find_slot finds what is stored, hence well-placed records.  During a    *)
(* rehash the new table holds no more records than slots were visited, and *)
(* none that an old slot still holds.                                      *)

Rehashing(n) ==
  /\ old \in [Indices(n) -> Slot] /\ Unique(old, n)
  /\ next \in 0..n
  /\ count <= next /\ tombstones = 0
  /\ n = 0 \/ n >= 2
  /\ 2 * n <= capacity /\ capacity >= 2
  /\ arg \in Tids
  /\ \A i \in next..n-1 : \A t \in Tids : Holds(old, i, t) => ~Stored(slots, capacity, t)

IInv ==
  /\ capacity \in Nat /\ count \in Nat /\ tombstones \in Nat
  /\ capacity = 0 \/ capacity >= 2
  /\ Table(slots, capacity) /\ Counted(slots, capacity, count, tombstones)
  /\ pc \in {"idle", "rehash"}
  /\ ret \in [ok : BOOLEAN, rec : Data \cup {Absent}]
  /\ pc = "idle" => /\ capacity # 0 => count + tombstones < capacity
                    /\ old = [i \in Indices(0) |-> EMPTY] /\ next = 0 /\ arg = NoTid
  /\ pc = "rehash" => \E n \in Nat : Rehashing(n)

(* The invariant leaves an EMPTY slot, during a rehash too. *)
LEMMA InvHasEmpty ==
  ASSUME IInv, capacity # 0
  PROVE  HasEmpty(slots, capacity)
<1>1. count + tombstones < capacity
  <2>1. CASE pc = "idle"
    BY <2>1 DEF IInv
  <2>2. CASE pc = "rehash"
    <3>1. PICK n \in Nat : Rehashing(n)
      BY <2>2 DEF IInv
    <3> QED BY <3>1 DEF Rehashing, IInv
  <2> QED BY <2>1, <2>2 DEF IInv
<1> QED BY <1>1, RoomLeavesEmpty DEF IInv, Table

(* The properties the runs check follow from the invariant. *)
LEMMA InvImplies ==
  ASSUME IInv
  PROVE  TypeOK /\ ProbeTerminates /\ FindsStored /\ CountsExact
<1>1. TypeOK
  <2>1. \E n \in 0..capacity : old \in [0..n-1 -> Slot] /\ next \in 0..n
    <3>1. CASE pc = "idle"
      <4>1. old \in [0..0-1 -> Slot] /\ next \in 0..0
        BY <3>1 DEF IInv, Indices, Slot
      <4> QED BY <4>1 DEF IInv
    <3>2. CASE pc = "rehash"
      <4>1. PICK n \in Nat : Rehashing(n)
        BY <3>2 DEF IInv
      <4>2. n \in 0..capacity
        BY <4>1 DEF Rehashing, IInv
      <4> QED BY <4>1, <4>2 DEF Rehashing, Indices
    <3> QED BY <3>1, <3>2 DEF IInv
  <2>2. arg \in Tids \cup {NoTid}
    BY DEF IInv, Rehashing
  <2> QED BY <2>1, <2>2 DEF IInv, Table, TypeOK, Indices
<1>2. ProbeTerminates
  BY InvHasEmpty, EmptyTerminates DEF ProbeTerminates, IInv
<1>3. FindsStored
  <2>1. ASSUME capacity # 0, NEW t \in Tids
        PROVE  Found(slots, capacity, t) <=> \E i \in 0..capacity-1 : Holds(slots, i, t)
    BY <2>1, InvHasEmpty, FoundIffStored DEF IInv, Table, Stored, Indices
  <2> QED BY <2>1 DEF FindsStored, IInv, Table, Unique, Indices
<1>4. CountsExact
  BY DEF CountsExact, IInv, Counted, InState, Indices
<1> QED BY <1>1, <1>2, <1>3, <1>4

(* The invariant holds of an empty table. *)
LEMMA InitInv ==
  ASSUME Init
  PROVE  IInv
<1>1. slots = [i \in Indices(0) |-> EMPTY] /\ old = [i \in Indices(0) |-> EMPTY]
  BY DEF Init, Indices
<1>2. Table(slots, 0) /\ Counted(slots, 0, 0, 0)
  BY <1>1, EmptyTable
<1>3. ret \in [ok : BOOLEAN, rec : Data \cup {Absent}]
  BY DEF Init, Reply
<1> QED BY <1>1, <1>2, <1>3 DEF Init, IInv

(* The tail of an insertion. *)
LEMMA PlaceInv ==
  ASSUME IInv, NEW t \in Tids, capacity # 0, Place(t), UNCHANGED capacity
  PROVE  /\ count' \in Nat /\ tombstones' \in Nat
         /\ count' + tombstones' <= count + tombstones + 1
         /\ Table(slots', capacity) /\ Counted(slots', capacity, count', tombstones')
         /\ ret' \in [ok : BOOLEAN, rec : Data \cup {Absent}]
<1> DEFINE i == find_slot(slots, capacity, t)
<1>1. capacity \in Nat /\ count \in Nat /\ tombstones \in Nat
      /\ Table(slots, capacity) /\ Counted(slots, capacity, count, tombstones)
  BY DEF IInv
<1>2. HasEmpty(slots, capacity)
  BY InvHasEmpty
<1>3. Found(slots, capacity, t) <=> Stored(slots, capacity, t)
  BY <1>1, <1>2, FoundIffStored DEF Table
<1>4. ret' \in [ok : BOOLEAN, rec : Data \cup {Absent}]
  BY DEF Place, Reply
<1>5. CASE Found(slots, capacity, t)
  <2>1. slots' = slots /\ count' = count /\ tombstones' = tombstones
    BY <1>5 DEF Place
  <2> QED BY <2>1, <1>1, <1>4
<1>6. CASE ~Found(slots, capacity, t)
  <2>1. /\ slots' = [slots EXCEPT ![i] = Occupied(t, NewData)]
        /\ count' = count + 1
        /\ tombstones' = IF slots[i].state = "TOMBSTONE" THEN tombstones - 1 ELSE tombstones
    BY <1>6 DEF Place
  <2>2. i \in Indices(capacity) /\ slots[i].state # "OCCUPIED" /\ Table(slots', capacity)
    BY <2>1, <1>1, <1>2, <1>3, <1>6, StoreKeepsTable, TableAssumption
  <2>3. /\ Counted(slots', capacity, count', tombstones')
        /\ slots[i].state = "TOMBSTONE" => tombstones > 0
    BY <2>1, <2>2, <1>1, StoreCounts, TableAssumption DEF Table
  <2> QED BY <2>1, <2>2, <2>3, <1>1, <1>4
<1> QED BY <1>5, <1>6

(* The arithmetic of ensure_capacity: one more key still leaves room. *)
LEMMA RoomKept ==
  ASSUME NEW a \in Nat, NEW b \in Nat, NEW c \in Nat, NEW x \in Nat, NEW y \in Nat,
         x + y <= a + b + 1, a + b + 1 < c
  PROVE  x + y < c
OBVIOUS

(* Results have their type. *)
LEMMA ReplyType ==
  ASSUME NEW b \in BOOLEAN, NEW r \in Data \cup {Absent}
  PROVE  Reply(b, r) \in [ok : BOOLEAN, rec : Data \cup {Absent}]
BY DEF Reply

(* Every step preserves the invariant. *)
LEMMA NextInv ==
  ASSUME IInv, [Next]_vars
  PROVE  IInv'
<1> USE DEF IInv
<1>1. ASSUME NEW t \in Tids \cup {NoTid}, Get(t)
      PROVE  IInv'
  <2>1. ret' \in [ok : BOOLEAN, rec : Data \cup {Absent}]
    <3>1. CASE capacity = 0 \/ t = NoTid \/ ~Found(slots, capacity, t)
      BY <1>1, <3>1, ReplyType DEF Get
    <3>2. CASE ~(capacity = 0 \/ t = NoTid \/ ~Found(slots, capacity, t))
      <4>1. t \in Tids /\ Holds(slots, find_slot(slots, capacity, t), t)
            /\ find_slot(slots, capacity, t) \in Indices(capacity)
        BY <3>2, InvHasEmpty, SlotFound DEF Table
      <4>2. slots[find_slot(slots, capacity, t)].data \in Data
        BY <4>1, SlotKinds DEF Table, Holds
      <4> QED BY <1>1, <3>2, <4>2, ReplyType DEF Get
    <3> QED BY <3>1, <3>2
  <2>2. UNCHANGED <<slots, capacity, count, tombstones, pc, old, next, arg>>
    BY <1>1 DEF Get
  <2> QED BY <2>1, <2>2 DEF Rehashing
<1>2. ASSUME NEW t \in Tids \cup {NoTid}, Insert(t)
      PROVE  IInv'
  <2>1. t \in Tids /\ pc = "idle" /\ capacity # 0 /\ HasRoom(capacity, count, tombstones)
        /\ Place(t) /\ UNCHANGED <<capacity, pc, old, next, arg>>
    BY <1>2 DEF Insert
  <2>2. /\ count' \in Nat /\ tombstones' \in Nat
        /\ count' + tombstones' <= count + tombstones + 1
        /\ Table(slots', capacity) /\ Counted(slots', capacity, count', tombstones')
        /\ ret' \in [ok : BOOLEAN, rec : Data \cup {Absent}]
    <3> HIDE DEF IInv
    <3> QED BY <2>1, PlaceInv
  <2>3. count + tombstones + 1 < capacity
    BY <2>1 DEF HasRoom
  <2>4. count' + tombstones' < capacity'
    <3>1. capacity' = capacity
      BY <2>1
    <3>2. /\ count' \in Nat /\ tombstones' \in Nat
          /\ count' + tombstones' <= count + tombstones + 1
      BY <2>2
    <3>3. count \in Nat /\ tombstones \in Nat /\ capacity \in Nat
      OBVIOUS
    <3> HIDE DEF IInv
    <3>4. count' + tombstones' < capacity
      BY <2>3, <3>2, <3>3, RoomKept
    <3> QED BY <3>1, <3>4
  <2> QED BY <2>1, <2>2, <2>4
<1>3. ASSUME NEW t \in Tids \cup {NoTid}, StartResize(t)
      PROVE  IInv'
  <2>1. /\ pc = "idle" /\ t \in Tids /\ pc' = "rehash"
        /\ capacity' = NewCapacity /\ slots' = [i \in Indices(NewCapacity) |-> EMPTY]
        /\ count' = 0 /\ tombstones' = 0 /\ old' = slots /\ next' = 0 /\ arg' = t
        /\ ret' = ret
    BY <1>3 DEF StartResize, Indices
  <2>2. NewCapacity \in Nat /\ NewCapacity >= 2 /\ 2 * capacity <= NewCapacity
    BY TableAssumption DEF NewCapacity
  <2>3. /\ Table(slots', capacity') /\ Counted(slots', capacity', 0, 0)
        /\ \A u \in Tids : ~Stored(slots', capacity', u)
    BY <2>1, <2>2, EmptyTable
  <2>4. PICK n \in Nat : n = capacity
    OBVIOUS
  <2>5. old' \in [Indices(n) -> Slot] /\ Unique(old', n)
    BY <2>1, <2>4 DEF Table
  <2>6. n = 0 \/ n >= 2
    BY <2>4
  <2>7. \A i \in next'..n-1 : \A u \in Tids : Holds(old', i, u) => ~Stored(slots', capacity', u)
    BY <2>3
  <2>8. count' = 0 /\ next' = 0 /\ tombstones' = 0 /\ arg' \in Tids
    BY <2>1
  <2>9. 2 * n <= capacity' /\ capacity' >= 2
    BY <2>1, <2>2, <2>4
  <2>10. Rehashing(n)'
    BY <2>5, <2>6, <2>7, <2>8, <2>9 DEF Rehashing
  <2> QED BY <2>1, <2>2, <2>3, <2>10
<1>4. ASSUME NEW t \in Tids \cup {NoTid}, InsertFails(t)
      PROVE  IInv'
  <2>1. ret' \in [ok : BOOLEAN, rec : Data \cup {Absent}]
    BY <1>4, ReplyType DEF InsertFails
  <2> QED BY <1>4, <2>1 DEF InsertFails
<1>5. ASSUME NEW t \in Tids \cup {NoTid}, Remove(t)
      PROVE  IInv'
  <2>1. pc = "idle" /\ UNCHANGED <<capacity, pc, old, next, arg>>
    BY <1>5 DEF Remove
  <2>2. CASE capacity = 0 \/ t = NoTid \/ ~Found(slots, capacity, t)
    BY <1>5, <2>1, <2>2, ReplyType, ZenonT(40) DEF Remove
  <2>3. CASE ~(capacity = 0 \/ t = NoTid \/ ~Found(slots, capacity, t))
    <3> DEFINE i == find_slot(slots, capacity, t)
    <3>1. t \in Tids /\ i \in Indices(capacity) /\ Holds(slots, i, t)
      BY <2>3, InvHasEmpty, SlotFound DEF Table
    <3>2. slots[i].state = "OCCUPIED" /\ slots[i].data \in Data
      BY <3>1, SlotKinds DEF Table, Holds
    <3>3. /\ ret' = Reply(TRUE, slots[i].data)
          /\ slots' = [slots EXCEPT ![i] = TOMBSTONE]
          /\ count' = count - 1 /\ tombstones' = tombstones + 1
      BY <1>5, <2>3 DEF Remove
    <3>4. Table(slots', capacity')
      BY <2>1, <3>1, <3>3, RemoveKeepsTable
    <3>5. Counted(slots', capacity', count', tombstones') /\ count > 0
      BY <2>1, <3>1, <3>2, <3>3, RemoveCounts DEF Table
    <3>6. count' \in Nat /\ tombstones' \in Nat /\ count' + tombstones' = count + tombstones
      BY <3>3, <3>5
    <3>7. ret' \in [ok : BOOLEAN, rec : Data \cup {Absent}]
      BY <3>2, <3>3, ReplyType
    <3> QED BY <2>1, <3>4, <3>5, <3>6, <3>7
  <2> QED BY <2>2, <2>3
<1>6. ASSUME NEW t \in Tids, NEW d \in Data, Update(t, d)
      PROVE  IInv'
  <2> DEFINE i == find_slot(slots, capacity, t)
  <2>1. /\ pc = "idle" /\ UNCHANGED <<capacity, count, tombstones, pc, old, next, arg, ret>>
        /\ slots' = [slots EXCEPT ![i] = Occupied(t, d)]
    BY <1>6 DEF Update
  <2>2. i \in Indices(capacity) /\ Holds(slots, i, t)
    BY <1>6, InvHasEmpty, SlotFound DEF Update, Table
  <2>3. Table(slots', capacity) /\ \A j \in Indices(capacity) : slots'[j].state = slots[j].state
    <3>1. capacity \in Nat /\ Table(slots, capacity)
      OBVIOUS
    <3> HIDE DEF i, IInv
    <3>2. Table(slots', capacity)
      BY <3>1, <2>1, <2>2, UpdateKeepsTable
    <3>3. \A j \in Indices(capacity) : j # i => slots'[j] = slots[j]
      BY <3>1, <2>1 DEF Table
    <3>4. slots'[i].state = "OCCUPIED" /\ slots[i].state = "OCCUPIED"
      BY <3>1, <2>1, <2>2, OccupiedIsSlot DEF Table, Holds
    <3> QED BY <3>2, <3>3, <3>4
  <2>4. Counted(slots', capacity, count, tombstones)
    BY <2>3 DEF Counted, InState
  <2> QED BY <2>1, <2>3, <2>4
<1>7. ASSUME Rehash
      PROVE  IInv'
  <2>1. PICK n \in Nat : Rehashing(n)
    BY <1>7 DEF Rehash
  <2>2. /\ pc = "rehash" /\ next \in 0..n-1 /\ next' = next + 1
        /\ UNCHANGED <<capacity, tombstones, pc, old, arg, ret>>
    BY <1>7, <2>1 DEF Rehash, Rehashing, Indices
  <2>3. CASE old[next].state # "OCCUPIED"
    <3>1. slots' = slots /\ count' = count
      BY <1>7, <2>3 DEF Rehash
    <3>2. Rehashing(n)'
      BY <2>1, <2>2, <3>1 DEF Rehashing
    <3> QED BY <2>2, <3>1, <3>2
  <2>4. CASE old[next].state = "OCCUPIED"
    <3> DEFINE t == old[next].tid
               i == find_slot(slots, capacity, t)
    <3>1. old[next] \in Slot
      BY <2>1, <2>2 DEF Rehashing, Indices
    <3>2. t \in Tids /\ old[next].data \in Data /\ old[next] = Occupied(t, old[next].data)
      BY <3>1, <2>4, SlotKinds
    <3>3. slots' = [slots EXCEPT ![i] = Occupied(t, old[next].data)] /\ count' = count + 1
      BY <1>7, <2>4, <3>2 DEF Rehash
    <3>4. Holds(old, next, t)
      BY <2>4 DEF Holds
    <3>5. ~Stored(slots, capacity, t)
      BY <2>1, <2>2, <3>2, <3>4 DEF Rehashing
    <3>6. HasEmpty(slots, capacity)
      <4>1. capacity # 0
        BY <2>1 DEF Rehashing
      <4> HIDE DEF IInv
      <4> QED BY <4>1, InvHasEmpty
    <3>7. i \in Indices(capacity) /\ slots[i].state # "OCCUPIED" /\ Table(slots', capacity)
      <4>1. capacity \in Nat /\ Table(slots, capacity)
        OBVIOUS
      <4> HIDE DEF IInv
      <4> QED BY <4>1, <3>2, <3>3, <3>5, <3>6, StoreKeepsTable
    <3>8. Counted(slots', capacity, count', IF slots[i].state = "TOMBSTONE" THEN tombstones - 1 ELSE tombstones)
          /\ (slots[i].state = "TOMBSTONE" => tombstones > 0)
      BY <3>2, <3>3, <3>7, StoreCounts, ZenonT(40) DEF Table
    <3>9. Counted(slots', capacity', count', tombstones')
      BY <2>1, <2>2, <3>8 DEF Rehashing
    <3>10. \A k \in next'..n-1 : \A u \in Tids : Holds(old, k, u) => ~Stored(slots', capacity, u)
      <4> SUFFICES ASSUME NEW k \in next'..n-1, NEW u \in Tids, Holds(old, k, u),
                          NEW j \in Indices(capacity), Holds(slots', j, u)
                   PROVE  FALSE
        BY DEF Stored
      <4>1. k \in next..n-1 /\ k \in Indices(n) /\ next \in Indices(n) /\ k # next
        BY <2>2 DEF Indices
      <4>2. u # t
        BY <4>1, <3>2, <3>4, <2>1 DEF Rehashing, Unique
      <4>3. Holds(slots, j, u)
        <5>1. CASE j = i
          BY <5>1, <3>2, <3>3, <3>7, <4>2, OccupiedIsSlot DEF Holds, Table
        <5>2. CASE j # i
          BY <5>2, <3>3, <3>7 DEF Holds, Table
        <5> QED BY <5>1, <5>2
      <4> QED BY <4>1, <4>3, <2>1 DEF Rehashing, Stored
    <3>11. Rehashing(n)'
      <4>1. /\ old' \in [Indices(n) -> Slot] /\ Unique(old', n)
            /\ tombstones' = 0 /\ arg' \in Tids
            /\ n = 0 \/ n >= 2
            /\ 2 * n <= capacity' /\ capacity' >= 2
        BY <2>1, <2>2 DEF Rehashing
      <4>2. next' \in 0..n /\ count' <= next'
        <5>1. count <= next
          BY <2>1 DEF Rehashing
        <5> QED BY <5>1, <2>2, <3>3
      <4>3. \A k \in next'..n-1 : \A u \in Tids : Holds(old', k, u) => ~Stored(slots', capacity', u)
        BY <2>2, <3>10
      <4> QED BY <4>1, <4>2, <4>3 DEF Rehashing
    <3> QED BY <2>2, <3>3, <3>7, <3>9, <3>11
  <2> QED BY <2>3, <2>4
<1>8. ASSUME FinishInsert
      PROVE  IInv'
  <2>1. PICK n \in Nat : Rehashing(n)
    BY <1>8 DEF FinishInsert
  <2>2. /\ Place(arg) /\ pc' = "idle" /\ old' = [i \in Indices(0) |-> EMPTY] /\ next' = 0
        /\ arg' = NoTid /\ capacity' = capacity
    BY <1>8 DEF FinishInsert, Indices
  <2>3. capacity # 0 /\ count + tombstones + 1 < capacity
    BY <2>1 DEF Rehashing
  <2>4. /\ count' \in Nat /\ tombstones' \in Nat
        /\ count' + tombstones' <= count + tombstones + 1
        /\ Table(slots', capacity) /\ Counted(slots', capacity, count', tombstones')
        /\ ret' \in [ok : BOOLEAN, rec : Data \cup {Absent}]
    <3>1. arg \in Tids
      BY <2>1 DEF Rehashing
    <3> HIDE DEF IInv
    <3> QED BY <2>2, <2>3, <3>1, PlaceInv
  <2>5. count' + tombstones' < capacity'
    <3>1. capacity' = capacity
      BY <2>2
    <3>2. /\ count' \in Nat /\ tombstones' \in Nat
          /\ count' + tombstones' <= count + tombstones + 1
      BY <2>4
    <3>3. count \in Nat /\ tombstones \in Nat /\ capacity \in Nat
      OBVIOUS
    <3> HIDE DEF IInv
    <3>4. count' + tombstones' < capacity
      BY <2>3, <3>2, <3>3, RoomKept
    <3> QED BY <3>1, <3>4
  <2> QED BY <2>2, <2>4, <2>5
<1>9. ASSUME Destroy
      PROVE  IInv'
  <2>1. /\ pc = "idle" /\ slots' = [i \in Indices(0) |-> EMPTY] /\ capacity' = 0
        /\ count' = 0 /\ tombstones' = 0 /\ UNCHANGED <<pc, old, next, arg, ret>>
    BY <1>9 DEF Destroy, Indices
  <2>2. Table(slots', 0) /\ Counted(slots', 0, 0, 0)
    BY <2>1, EmptyTable
  <2> QED BY <2>1, <2>2
<1>10. ASSUME UNCHANGED vars
       PROVE  IInv'
  BY <1>10 DEF vars, Rehashing
<1> HIDE DEF IInv
<1> QED BY <1>1, <1>2, <1>3, <1>4, <1>5, <1>6, <1>7, <1>8, <1>9, <1>10 DEF Next

(* The inductive invariant holds of the table at all times. *)
THEOREM Invariance == Spec => []IInv
<1>1. Init => IInv
  BY InitInv
<1>2. IInv /\ [Next]_vars => IInv'
  BY NextInv
<1> QED BY <1>1, <1>2, PTL DEF Spec

(* Whatever is inserted, removed and rehashed, find_slot's loop ends for   *)
(* every tid (src/src/tracee_table.c:38 has no other exit).                *)
THEOREM ProbesTerminate == Spec => []ProbeTerminates
<1>1. IInv => ProbeTerminates
  BY InvImplies
<1> QED BY <1>1, Invariance, PTL

(* The table keeps its types; the size_t counters never wrap below zero.   *)
THEOREM TypesKept == Spec => []TypeOK
<1>1. IInv => TypeOK
  BY InvImplies
<1> QED BY <1>1, Invariance, PTL

(* sg_tracee_table_get and _remove find a tid exactly when it is stored,   *)
(* and it is stored once.                                                  *)
THEOREM StoredAreFound == Spec => []FindsStored
<1>1. IInv => FindsStored
  BY InvImplies
<1> QED BY <1>1, Invariance, PTL

(* count and tombstones are exact, so ensure_capacity decides on the truth. *)
THEOREM CountersExact == Spec => []CountsExact
<1>1. IInv => CountsExact
  BY InvImplies
<1> QED BY <1>1, Invariance, PTL

-----------------------------------------------------------------------------
(* The table implements the map of TraceeMap. *)

(* Content[t] as a function of the parts of the state it is read from. *)
ContentOf(s, cap, o, nx, t) ==
  IF \E i \in Indices(cap) : Holds(s, i, t)
    THEN s[CHOOSE i \in Indices(cap) : Holds(s, i, t)].data
  ELSE IF \E i \in DOMAIN o : i >= nx /\ Holds(o, i, t)
    THEN o[CHOOSE i \in DOMAIN o : i >= nx /\ Holds(o, i, t)].data
  ELSE Absent

(* The record of a stored tid is the one in its slot, ... *)
LEMMA ContentStored ==
  ASSUME NEW s, NEW cap, NEW o, NEW nx, NEW t \in Tids, NEW i \in Indices(cap),
         Unique(s, cap), Holds(s, i, t)
  PROVE  ContentOf(s, cap, o, nx, t) = s[i].data
<1>1. (CHOOSE j \in Indices(cap) : Holds(s, j, t)) = i
  BY DEF Unique
<1> QED BY <1>1 DEF ContentOf

(* ... of one still to be moved, the one in its old slot, ... *)
LEMMA ContentOld ==
  ASSUME NEW s, NEW cap, NEW n, NEW o \in [Indices(n) -> Slot], NEW nx,
         NEW t \in Tids, NEW i \in Indices(n),
         ~Stored(s, cap, t), Unique(o, n), i >= nx, Holds(o, i, t)
  PROVE  ContentOf(s, cap, o, nx, t) = o[i].data
<1>1. DOMAIN o = Indices(n)
  OBVIOUS
<1>2. (CHOOSE j \in DOMAIN o : j >= nx /\ Holds(o, j, t)) = i
  BY <1>1 DEF Unique
<1> QED BY <1>1, <1>2 DEF ContentOf, Stored

(* ... and any other tid has none. *)
LEMMA ContentNone ==
  ASSUME NEW s, NEW cap, NEW o, NEW nx, NEW t \in Tids, ~Stored(s, cap, t),
         \A i \in DOMAIN o : ~(i >= nx /\ Holds(o, i, t))
  PROVE  ContentOf(s, cap, o, nx, t) = Absent
BY DEF ContentOf, Stored

(* z holds what s holds, and t with data d. *)
StoresAt(s, z, cap, i, t, d) ==
  /\ Holds(z, i, t) /\ z[i].data = d
  /\ \A u \in Tids \ {t}, j \in Indices(cap) :
       /\ Holds(z, j, u) <=> Holds(s, j, u)
       /\ Holds(s, j, u) => z[j] = s[j]

(* Which tids a table holds after one was stored in a free slot. *)
LEMMA StoreHolds ==
  ASSUME NEW cap \in Nat, NEW s \in [Indices(cap) -> Slot], NEW i \in Indices(cap),
         NEW t \in Tids, NEW d \in Data, s[i].state # "OCCUPIED", ~Stored(s, cap, t),
         NEW z, z = [s EXCEPT ![i] = Occupied(t, d)]
  PROVE  StoresAt(s, z, cap, i, t, d)
<1>1. z[i] = Occupied(t, d) /\ \A j \in Indices(cap) : j # i => z[j] = s[j]
  OBVIOUS
<1>2. Holds(z, i, t) /\ z[i].data = d
  BY <1>1, OccupiedIsSlot DEF Holds
<1>3. ASSUME NEW u \in Tids \ {t}, NEW j \in Indices(cap)
      PROVE  (Holds(z, j, u) <=> Holds(s, j, u)) /\ (Holds(s, j, u) => z[j] = s[j])
  <2>1. CASE j = i
    BY <2>1, <1>1, OccupiedIsSlot DEF Holds
  <2>2. CASE j # i
    BY <2>2, <1>1 DEF Holds
  <2> QED BY <2>1, <2>2
<1> QED BY <1>2, <1>3 DEF StoresAt

(* Storing t changes t's content and nothing else. *)
LEMMA StoreContent ==
  ASSUME NEW cap \in Nat, NEW s, NEW z, NEW i \in Indices(cap), NEW t \in Tids,
         NEW d \in Data, Unique(s, cap), Unique(z, cap), StoresAt(s, z, cap, i, t, d),
         NEW o, NEW nx, NEW u \in Tids
  PROVE  ContentOf(z, cap, o, nx, u) = IF u = t THEN d ELSE ContentOf(s, cap, o, nx, u)
<1>1. CASE u = t
  BY <1>1, ContentStored DEF StoresAt
<1>2. CASE u # t
  <2>1. CASE Stored(s, cap, u)
    <3>1. PICK j \in Indices(cap) : Holds(s, j, u)
      BY <2>1 DEF Stored
    <3>2. Holds(z, j, u) /\ z[j] = s[j]
      BY <1>2, <3>1 DEF StoresAt
    <3>3. ContentOf(z, cap, o, nx, u) = z[j].data /\ ContentOf(s, cap, o, nx, u) = s[j].data
      BY <3>1, <3>2, ContentStored
    <3> QED BY <1>2, <3>2, <3>3
  <2>2. CASE ~Stored(s, cap, u)
    <3>1. ~Stored(z, cap, u)
      BY <1>2, <2>2 DEF Stored, StoresAt
    <3> QED BY <1>2, <2>2, <3>1 DEF ContentOf, Stored
  <2> QED BY <2>1, <2>2
<1> QED BY <1>1, <1>2

(* The same for a tid whose record is overwritten in place. *)
LEMMA UpdateHolds ==
  ASSUME NEW cap \in Nat, NEW s \in [Indices(cap) -> Slot], NEW i \in Indices(cap),
         NEW t \in Tids, NEW d \in Data, Holds(s, i, t),
         NEW z, z = [s EXCEPT ![i] = Occupied(t, d)]
  PROVE  StoresAt(s, z, cap, i, t, d)
<1>1. z[i] = Occupied(t, d) /\ \A j \in Indices(cap) : j # i => z[j] = s[j]
  OBVIOUS
<1>2. Holds(z, i, t) /\ z[i].data = d
  BY <1>1, OccupiedIsSlot DEF Holds
<1>3. ASSUME NEW u \in Tids \ {t}, NEW j \in Indices(cap)
      PROVE  (Holds(z, j, u) <=> Holds(s, j, u)) /\ (Holds(s, j, u) => z[j] = s[j])
  <2>1. CASE j = i
    BY <2>1, <1>1, OccupiedIsSlot DEF Holds
  <2>2. CASE j # i
    BY <2>2, <1>1 DEF Holds
  <2> QED BY <2>1, <2>2
<1> QED BY <1>2, <1>3 DEF StoresAt

(* z holds what s holds, except t. *)
Drops(s, z, cap, t) ==
  /\ ~Stored(z, cap, t)
  /\ \A u \in Tids \ {t}, j \in Indices(cap) :
       /\ Holds(z, j, u) <=> Holds(s, j, u)
       /\ Holds(s, j, u) => z[j] = s[j]

(* A slot turned into a TOMBSTONE drops its tid and no other. *)
LEMMA RemoveHolds ==
  ASSUME NEW cap \in Nat, NEW s \in [Indices(cap) -> Slot], NEW i \in Indices(cap),
         NEW t \in Tids, Holds(s, i, t), Unique(s, cap),
         NEW z, z = [s EXCEPT ![i] = TOMBSTONE]
  PROVE  Drops(s, z, cap, t)
<1>1. z[i].state = "TOMBSTONE" /\ \A j \in Indices(cap) : j # i => z[j] = s[j]
  BY DEF TOMBSTONE
<1>2. ~Stored(z, cap, t)
  <2> SUFFICES ASSUME NEW j \in Indices(cap), Holds(z, j, t) PROVE FALSE
    BY DEF Stored
  <2>1. j # i
    BY <1>1 DEF Holds
  <2>2. Holds(s, j, t)
    BY <2>1, <1>1 DEF Holds
  <2> QED BY <2>1, <2>2 DEF Unique
<1>3. ASSUME NEW u \in Tids \ {t}, NEW j \in Indices(cap)
      PROVE  (Holds(z, j, u) <=> Holds(s, j, u)) /\ (Holds(s, j, u) => z[j] = s[j])
  <2>1. CASE j = i
    BY <2>1, <1>1 DEF Holds
  <2>2. CASE j # i
    BY <2>2, <1>1 DEF Holds
  <2> QED BY <2>1, <2>2
<1> QED BY <1>2, <1>3 DEF Drops

(* Removing t takes away t's content and nothing else. *)
LEMMA RemoveContent ==
  ASSUME NEW cap \in Nat, NEW s, NEW z, NEW t \in Tids,
         Unique(s, cap), Unique(z, cap), Drops(s, z, cap, t),
         NEW o, NEW nx, \A i \in DOMAIN o : ~(i >= nx /\ Holds(o, i, t)), NEW u \in Tids
  PROVE  ContentOf(z, cap, o, nx, u) = IF u = t THEN Absent ELSE ContentOf(s, cap, o, nx, u)
<1>1. CASE u = t
  BY <1>1, ContentNone DEF Drops
<1>2. CASE u # t
  <2>1. CASE Stored(s, cap, u)
    <3>1. PICK j \in Indices(cap) : Holds(s, j, u)
      BY <2>1 DEF Stored
    <3>2. Holds(z, j, u) /\ z[j] = s[j]
      BY <1>2, <3>1 DEF Drops
    <3>3. ContentOf(z, cap, o, nx, u) = z[j].data /\ ContentOf(s, cap, o, nx, u) = s[j].data
      BY <3>1, <3>2, ContentStored
    <3> QED BY <1>2, <3>2, <3>3
  <2>2. CASE ~Stored(s, cap, u)
    <3>1. ~Stored(z, cap, u)
      BY <1>2, <2>2 DEF Stored, Drops
    <3> QED BY <1>2, <2>2, <3>1 DEF ContentOf, Stored
  <2> QED BY <2>1, <2>2
<1> QED BY <1>1, <1>2

(* Moving a record from an old slot to the new table, and starting to move *)
(* them, leaves every content as it is.                                    *)
LEMMA MoveContent ==
  ASSUME NEW cap \in Nat, NEW s, NEW z, NEW i \in Indices(cap), NEW t \in Tids,
         NEW d \in Data, Unique(s, cap), Unique(z, cap), StoresAt(s, z, cap, i, t, d),
         ~Stored(s, cap, t),
         NEW n \in Nat, NEW o \in [Indices(n) -> Slot], Unique(o, n), NEW nx \in Indices(n),
         Holds(o, nx, t), o[nx].data = d, NEW u \in Tids
  PROVE  ContentOf(z, cap, o, nx + 1, u) = ContentOf(s, cap, o, nx, u)
<1>1. CASE u = t
  <2>1. ContentOf(z, cap, o, nx + 1, u) = d
    BY <1>1, ContentStored DEF StoresAt
  <2>2. nx >= nx
    BY DEF Indices
  <2>3. ContentOf(s, cap, o, nx, u) = d
    BY <1>1, <2>2, ContentOld
  <2> QED BY <2>1, <2>3
<1>2. CASE u # t
  <2>1. ~Holds(o, nx, u)
    BY <1>2 DEF Holds
  <2>2. \A k \in DOMAIN o : (k >= nx + 1 /\ Holds(o, k, u)) <=> (k >= nx /\ Holds(o, k, u))
    BY <2>1 DEF Indices
  <2>3. ContentOf(s, cap, o, nx + 1, u) = ContentOf(s, cap, o, nx, u)
    BY <2>2 DEF ContentOf
  <2>4. ContentOf(z, cap, o, nx + 1, u) = ContentOf(s, cap, o, nx + 1, u)
    BY <1>2, StoreContent
  <2> QED BY <2>3, <2>4
<1> QED BY <1>1, <1>2

(* A turn of the rehash over a slot without a record moves nothing. *)
LEMMA SkipContent ==
  ASSUME NEW cap, NEW s, NEW n \in Nat, NEW o \in [Indices(n) -> Slot], NEW nx \in Indices(n),
         o[nx].state # "OCCUPIED", NEW u \in Tids
  PROVE  ContentOf(s, cap, o, nx + 1, u) = ContentOf(s, cap, o, nx, u)
<1>1. ~Holds(o, nx, u)
  BY DEF Holds
<1>2. \A k \in DOMAIN o : (k >= nx + 1 /\ Holds(o, k, u)) <=> (k >= nx /\ Holds(o, k, u))
  BY <1>1 DEF Indices
<1> QED BY <1>2 DEF ContentOf

(* When the slots become the old slots nothing is lost. *)
LEMMA ResizeContent ==
  ASSUME NEW cap \in Nat, NEW s \in [Indices(cap) -> Slot], Unique(s, cap),
         NEW m, NEW z, NEW o, NEW nx, NEW u \in Tids, ~Stored(z, m, u),
         \A i \in DOMAIN o : ~(i >= nx /\ Holds(o, i, u))
  PROVE  ContentOf(z, m, s, 0, u) = ContentOf(s, cap, o, nx, u)
<1>1. CASE Stored(s, cap, u)
  <2>1. PICK i \in Indices(cap) : Holds(s, i, u)
    BY <1>1 DEF Stored
  <2>2. i >= 0
    BY DEF Indices
  <2>3. ContentOf(z, m, s, 0, u) = s[i].data
    BY <2>1, <2>2, ContentOld
  <2>4. ContentOf(s, cap, o, nx, u) = s[i].data
    BY <2>1, ContentStored
  <2> QED BY <2>3, <2>4
<1>2. CASE ~Stored(s, cap, u)
  <2>1. \A i \in DOMAIN s : ~(i >= 0 /\ Holds(s, i, u))
    BY <1>2 DEF Stored
  <2> QED BY <1>2, <2>1, ContentNone
<1> QED BY <1>1, <1>2

(* Content, read as a function of the table's parts, before and after a    *)
(* step.                                                                   *)
LEMMA ContentIs ==
  /\ Content = [u \in Tids |-> ContentOf(slots, capacity, old, next, u)]
  /\ Content' = [u \in Tids |-> ContentOf(slots', capacity', old', next', u)]
<1>1. Content = [u \in Tids |-> ContentOf(slots, capacity, old, next, u)]
  BY DEF Content, InTable, InOld, ContentOf, Indices
<1>2. Content' = [u \in Tids |-> ContentOf(slots', capacity', old', next', u)]
  BY DEF Content, InTable, InOld, ContentOf, Indices
<1> QED BY <1>1, <1>2

(* Outside a rehash no record waits in an old slot. *)
LEMMA IdleOld ==
  ASSUME IInv, pc = "idle"
  PROVE  \A u \in Tids : \A i \in DOMAIN old : ~(i >= next /\ Holds(old, i, u))
<1>1. DOMAIN old = Indices(0)
  BY DEF IInv
<1>2. Indices(0) = {}
  BY DEF Indices
<1> QED BY <1>1, <1>2

(* sg_tracee_table_get and _remove see the map's record of a tid.          *)
LEMMA ContentSeen ==
  ASSUME IInv, pc = "idle", NEW t \in Tids
  PROVE  LET i == find_slot(slots, capacity, t)
         IN  /\ capacity # 0 /\ Found(slots, capacity, t) =>
                  /\ i \in Indices(capacity) /\ Holds(slots, i, t)
                  /\ Content[t] = slots[i].data /\ Content[t] # Absent
             /\ capacity = 0 \/ ~Found(slots, capacity, t) =>
                  /\ ~Stored(slots, capacity, t)
                  /\ Content[t] = Absent
<1> DEFINE i == find_slot(slots, capacity, t)
<1>1. capacity \in Nat /\ Table(slots, capacity) /\ Unique(slots, capacity)
      /\ slots \in [Indices(capacity) -> Slot] /\ WellPlaced(slots, capacity)
  BY DEF IInv, Table
<1>2. Content[t] = ContentOf(slots, capacity, old, next, t)
  BY ContentIs
<1>3. ASSUME capacity # 0, Found(slots, capacity, t)
      PROVE  /\ i \in Indices(capacity) /\ Holds(slots, i, t)
             /\ Content[t] = slots[i].data /\ Content[t] # Absent
  <2>1. i \in Indices(capacity) /\ Holds(slots, i, t)
    BY <1>1, <1>3, InvHasEmpty, SlotFound
  <2>2. Content[t] = slots[i].data
    BY <1>1, <1>2, <2>1, ContentStored
  <2>3. slots[i].data \in Data
    BY <1>1, <2>1, SlotKinds DEF Holds
  <2> QED BY <2>1, <2>2, <2>3, TableAssumption
<1>4. ASSUME capacity = 0 \/ ~Found(slots, capacity, t)
      PROVE  ~Stored(slots, capacity, t) /\ Content[t] = Absent
  <2>1. ~Stored(slots, capacity, t)
    <3>1. CASE capacity = 0
      BY <3>1 DEF Stored, Indices
    <3>2. CASE capacity # 0
      BY <3>2, <1>1, <1>4, InvHasEmpty, FoundIffStored
    <3> QED BY <3>1, <3>2
  <2> QED BY <2>1, <1>2, IdleOld, ContentNone
<1> QED BY <1>3, <1>4

(* The tail of an insertion is the map's insertion. *)
LEMMA PlaceRefines ==
  ASSUME IInv, NEW t \in Tids, capacity # 0, Place(t), UNCHANGED capacity,
         \A u \in Tids : \A i \in DOMAIN old : ~(i >= next /\ Holds(old, i, u)),
         \A u \in Tids : \A i \in DOMAIN old' : ~(i >= next' /\ Holds(old', i, u))
  PROVE  Map!MapInsert(t)
<1> DEFINE i == find_slot(slots, capacity, t)
           C(u) == ContentOf(slots, capacity, old, next, u)
           D(u) == ContentOf(slots', capacity, old', next', u)
<1>1. capacity \in Nat /\ Table(slots, capacity) /\ Unique(slots, capacity)
      /\ slots \in [Indices(capacity) -> Slot] /\ WellPlaced(slots, capacity)
  BY DEF IInv, Table
<1>2. HasEmpty(slots, capacity)
  BY InvHasEmpty
<1>3. Content = [u \in Tids |-> C(u)] /\ Content' = [u \in Tids |-> D(u)]
  BY ContentIs
<1>4. \A u \in Tids : ContentOf(slots', capacity, old', next', u)
                      = ContentOf(slots', capacity, old, next, u)
  BY DEF ContentOf
<1>5. ret' = Reply(TRUE, Absent)
  BY DEF Place
<1>6. CASE Found(slots, capacity, t)
  <2>1. slots' = slots
    BY <1>6 DEF Place
  <2>2. i \in Indices(capacity) /\ Holds(slots, i, t)
    BY <1>1, <1>2, <1>6, SlotFound
  <2>3. C(t) = slots[i].data /\ slots[i].data \in Data
    BY <1>1, <2>2, ContentStored, SlotKinds DEF Holds
  <2>4. Content' = Content
    BY <1>3, <1>4, <2>1
  <2>5. Content[t] # Absent
    BY <1>3, <2>3, TableAssumption
  <2> QED BY <1>5, <2>4, <2>5 DEF Map!MapInsert, Map!Reply, Reply
<1>7. CASE ~Found(slots, capacity, t)
  <2>1. slots' = [slots EXCEPT ![i] = Occupied(t, NewData)]
    BY <1>7 DEF Place
  <2>2. ~Stored(slots, capacity, t)
    BY <1>1, <1>2, <1>7, FoundIffStored
  <2>3. i \in Indices(capacity) /\ slots[i].state # "OCCUPIED" /\ Table(slots', capacity)
    BY <2>1, <2>2, <1>1, <1>2, StoreKeepsTable, TableAssumption
  <2>4. StoresAt(slots, slots', capacity, i, t, NewData)
    BY <1>1, <2>1, <2>2, <2>3, StoreHolds, TableAssumption
  <2>5. ASSUME NEW u \in Tids
        PROVE  ContentOf(slots', capacity, old, next, u) = IF u = t THEN NewData ELSE C(u)
    BY <1>1, <2>3, <2>4, StoreContent, TableAssumption DEF Table
  <2>6. \A u \in Tids : D(u) = IF u = t THEN NewData ELSE C(u)
    BY <1>4, <2>5
  <2>7. Content[t] = Absent
    BY <1>3, <2>2, ContentNone
  <2>8. Content' = [Content EXCEPT ![t] = NewData]
    <3> HIDE DEF C, D
    <3> QED BY <1>3, <2>6
  <2> QED BY <1>5, <2>7, <2>8 DEF Map!MapInsert, Map!Reply, Reply
<1> QED BY <1>6, <1>7

(* Every step of the table is a step of the map, or none. *)
LEMMA NextRefines ==
  ASSUME IInv, IInv', [Next]_vars
  PROVE  [Map!MapNext]_(Map!mapVars)
<1>1. ASSUME NEW t \in Tids \cup {NoTid}, Get(t)
      PROVE  Map!MapGet(t)
  <2>1. pc = "idle" /\ UNCHANGED <<slots, capacity, old, next>>
    BY <1>1 DEF Get
  <2>2. Content' = Content
    BY <2>1, ContentIs
  <2>3. CASE t = NoTid
    BY <1>1, <2>2, <2>3, TableAssumption DEF Get, Map!MapGet, Map!Reply, Reply
  <2>4. CASE t \in Tids
    <3>1. t # NoTid
      BY <2>4, TableAssumption
    <3>2. ret' = IF capacity = 0 \/ ~Found(slots, capacity, t) THEN Reply(FALSE, Absent)
                 ELSE Reply(TRUE, slots[find_slot(slots, capacity, t)].data)
      BY <1>1, <3>1 DEF Get
    <3> QED BY <2>1, <2>2, <2>4, <3>2, ContentSeen DEF Map!MapGet, Map!Reply, Reply
  <2> QED BY <2>3, <2>4
<1>2. ASSUME NEW t \in Tids \cup {NoTid}, Insert(t)
      PROVE  Map!MapInsert(t)
  <2>1. pc = "idle" /\ t \in Tids /\ capacity # 0 /\ Place(t)
        /\ UNCHANGED <<capacity, pc, old, next, arg>>
    BY <1>2 DEF Insert
  <2>2. \A u \in Tids : \A i \in DOMAIN old : ~(i >= next /\ Holds(old, i, u))
    BY <2>1, IdleOld
  <2>3. \A u \in Tids : \A i \in DOMAIN old' : ~(i >= next' /\ Holds(old', i, u))
    BY <2>1, <2>2
  <2> QED BY <2>1, <2>2, <2>3, PlaceRefines
<1>3. ASSUME NEW t \in Tids \cup {NoTid}, StartResize(t)
      PROVE  UNCHANGED <<Content, ret>>
  <2>1. pc = "idle" /\ old' = slots /\ next' = 0 /\ ret' = ret /\ capacity' = NewCapacity
        /\ slots' = [i \in Indices(NewCapacity) |-> EMPTY]
    BY <1>3 DEF StartResize, Indices
  <2>2. capacity \in Nat /\ slots \in [Indices(capacity) -> Slot] /\ Unique(slots, capacity)
    BY DEF IInv, Table
  <2>3. NewCapacity \in Nat
    BY <2>2, TableAssumption DEF NewCapacity
  <2>4. \A u \in Tids : ~Stored(slots', capacity', u)
    BY <2>1, <2>3, EmptyTable
  <2>5. ASSUME NEW u \in Tids
        PROVE  ContentOf(slots', capacity', slots, 0, u) = ContentOf(slots, capacity, old, next, u)
    <3>1. \A i \in DOMAIN old : ~(i >= next /\ Holds(old, i, u))
      BY <2>1, IdleOld
    <3> QED BY <2>2, <2>4, <3>1, ResizeContent
  <2>6. Content' = [u \in Tids |-> ContentOf(slots', capacity', slots, 0, u)]
    BY <2>1, ContentIs
  <2> QED BY <2>1, <2>5, <2>6, ContentIs
<1>4. ASSUME NEW t \in Tids \cup {NoTid}, InsertFails(t)
      PROVE  Map!MapInsertFails
  <2>1. ret' = Reply(FALSE, Absent) /\ UNCHANGED <<slots, capacity, old, next>>
    BY <1>4 DEF InsertFails
  <2>2. Content' = Content
    BY <2>1, ContentIs
  <2> QED BY <2>1, <2>2 DEF Map!MapInsertFails, Map!Reply, Reply
<1>5. ASSUME NEW t \in Tids \cup {NoTid}, Remove(t)
      PROVE  Map!MapRemove(t)
  <2>1. pc = "idle" /\ UNCHANGED <<capacity, pc, old, next, arg>>
    BY <1>5 DEF Remove
  <2>2. CASE t = NoTid
    <3>1. slots' = slots /\ ret' = Reply(FALSE, Absent)
      BY <1>5, <2>2 DEF Remove
    <3>2. Content' = Content
      BY <2>1, <3>1, ContentIs
    <3> QED BY <2>2, <3>1, <3>2, TableAssumption DEF Map!MapRemove, Map!Reply, Reply
  <2>3. CASE t \in Tids /\ (capacity = 0 \/ ~Found(slots, capacity, t))
    <3>1. slots' = slots /\ ret' = Reply(FALSE, Absent)
      BY <1>5, <2>3 DEF Remove
    <3>2. Content' = Content
      BY <2>1, <3>1, ContentIs
    <3>3. Content[t] = Absent
      BY <2>1, <2>3, ContentSeen
    <3>4. [Content EXCEPT ![t] = Absent] = Content
      BY <3>3, ContentIs
    <3> QED BY <2>3, <3>1, <3>2, <3>3, <3>4 DEF Map!MapRemove, Map!Reply, Reply
  <2>4. CASE t \in Tids /\ ~(capacity = 0 \/ ~Found(slots, capacity, t))
    <3> DEFINE i == find_slot(slots, capacity, t)
               C(u) == ContentOf(slots, capacity, old, next, u)
               D(u) == ContentOf(slots', capacity, old, next, u)
    <3>1. t # NoTid
      BY <2>4, TableAssumption
    <3>2. slots' = [slots EXCEPT ![i] = TOMBSTONE] /\ ret' = Reply(TRUE, slots[i].data)
      BY <1>5, <2>4, <3>1 DEF Remove
    <3>3. /\ i \in Indices(capacity) /\ Holds(slots, i, t)
          /\ Content[t] = slots[i].data /\ Content[t] # Absent
      BY <2>1, <2>4, ContentSeen
    <3>4. capacity \in Nat /\ Table(slots, capacity)
          /\ slots \in [Indices(capacity) -> Slot] /\ Unique(slots, capacity)
      BY DEF IInv, Table
    <3>5. Unique(slots', capacity)
      BY <3>2, <3>3, <3>4, RemoveKeepsTable DEF Table
    <3>6. Drops(slots, slots', capacity, t)
      BY <2>4, <3>2, <3>3, <3>4, RemoveHolds
    <3>7. ASSUME NEW u \in Tids
          PROVE  D(u) = IF u = t THEN Absent ELSE C(u)
      <4>1. \A j \in DOMAIN old : ~(j >= next /\ Holds(old, j, t))
        BY <2>1, <2>4, IdleOld
      <4> QED BY <2>4, <3>4, <3>5, <3>6, <4>1, RemoveContent
    <3>8. Content = [u \in Tids |-> C(u)] /\ Content' = [u \in Tids |-> D(u)]
      BY <2>1, ContentIs
    <3>9. Content' = [Content EXCEPT ![t] = Absent]
      <4> HIDE DEF C, D
      <4> QED BY <3>7, <3>8, <2>4
    <3> QED BY <2>4, <3>2, <3>3, <3>9 DEF Map!MapRemove, Map!Reply, Reply
  <2> QED BY <2>2, <2>3, <2>4
<1>6. ASSUME NEW t \in Tids, NEW d \in Data, Update(t, d)
      PROVE  Map!MapUpdate(t, d)
  <2> DEFINE i == find_slot(slots, capacity, t)
             C(u) == ContentOf(slots, capacity, old, next, u)
             D(u) == ContentOf(slots', capacity, old, next, u)
  <2>1. /\ pc = "idle" /\ UNCHANGED <<capacity, old, next, ret>>
        /\ capacity # 0 /\ Found(slots, capacity, t)
        /\ slots' = [slots EXCEPT ![i] = Occupied(t, d)]
    BY <1>6 DEF Update
  <2>2. i \in Indices(capacity) /\ Holds(slots, i, t) /\ Content[t] # Absent
    BY <2>1, ContentSeen
  <2>3. capacity \in Nat /\ Table(slots, capacity)
        /\ slots \in [Indices(capacity) -> Slot] /\ Unique(slots, capacity)
    BY DEF IInv, Table
  <2>4. Unique(slots', capacity)
    BY <2>1, <2>2, <2>3, UpdateKeepsTable DEF Table
  <2>5. StoresAt(slots, slots', capacity, i, t, d)
    BY <2>1, <2>2, <2>3, UpdateHolds
  <2>6. ASSUME NEW u \in Tids
        PROVE  D(u) = IF u = t THEN d ELSE C(u)
    BY <2>2, <2>3, <2>4, <2>5, StoreContent
  <2>7. Content = [u \in Tids |-> C(u)] /\ Content' = [u \in Tids |-> D(u)]
    BY <2>1, ContentIs
  <2>8. Content' = [Content EXCEPT ![t] = d]
    <3> HIDE DEF C, D
    <3> QED BY <2>6, <2>7
  <2> QED BY <2>1, <2>2, <2>8 DEF Map!MapUpdate
<1>7. ASSUME Rehash
      PROVE  UNCHANGED <<Content, ret>>
  <2>1. PICK n \in Nat : Rehashing(n)
    BY <1>7 DEF Rehash, IInv
  <2>2. /\ old \in [Indices(n) -> Slot] /\ Unique(old, n) /\ next \in Indices(n)
        /\ next' = next + 1 /\ UNCHANGED <<capacity, old, ret>>
    BY <1>7, <2>1 DEF Rehash, Rehashing
  <2>3. capacity \in Nat /\ capacity # 0 /\ Table(slots, capacity)
        /\ slots \in [Indices(capacity) -> Slot] /\ Unique(slots, capacity)
    BY <2>1 DEF IInv, Table, Rehashing
  <2>4. \A u \in Tids : ContentOf(slots', capacity, old, next + 1, u)
                        = ContentOf(slots, capacity, old, next, u)
    <3> TAKE u \in Tids
    <3>1. CASE old[next].state # "OCCUPIED"
      <4>1. slots' = slots
        BY <1>7, <3>1 DEF Rehash
      <4> QED BY <2>2, <3>1, <4>1, SkipContent
    <3>2. CASE old[next].state = "OCCUPIED"
      <4> DEFINE t == old[next].tid
                 d == old[next].data
                 i == find_slot(slots, capacity, t)
      <4>1. t \in Tids /\ d \in Data /\ old[next] = Occupied(t, d) /\ Holds(old, next, t)
        BY <2>2, <3>2, SlotKinds DEF Holds
      <4>2. slots' = [slots EXCEPT ![i] = Occupied(t, d)]
        BY <1>7, <3>2, <4>1 DEF Rehash
      <4>3. next \in next..n-1
        BY <2>2 DEF Indices
      <4>4. ~Stored(slots, capacity, t)
        BY <2>1, <4>1, <4>3 DEF Rehashing
      <4>5. HasEmpty(slots, capacity)
        BY <2>3, InvHasEmpty
      <4>6. i \in Indices(capacity) /\ slots[i].state # "OCCUPIED" /\ Table(slots', capacity)
        BY <2>3, <4>1, <4>2, <4>4, <4>5, StoreKeepsTable
      <4>7. StoresAt(slots, slots', capacity, i, t, d) /\ Unique(slots', capacity)
        BY <2>3, <4>1, <4>2, <4>4, <4>6, StoreHolds DEF Table
      <4> QED BY <2>2, <2>3, <4>1, <4>4, <4>6, <4>7, MoveContent
    <3> QED BY <3>1, <3>2
  <2>5. Content' = [u \in Tids |-> ContentOf(slots', capacity, old, next + 1, u)]
    BY <2>2, ContentIs
  <2> QED BY <2>2, <2>4, <2>5, ContentIs
<1>8. ASSUME FinishInsert
      PROVE  arg \in Tids /\ Map!MapInsert(arg)
  <2>1. PICK n \in Nat : Rehashing(n)
    BY <1>8 DEF FinishInsert, IInv
  <2>2. /\ Place(arg) /\ pc' = "idle" /\ UNCHANGED capacity
        /\ capacity # 0 /\ arg \in Tids
    BY <1>8, <2>1 DEF FinishInsert, Rehashing, IInv
  <2>3. \A u \in Tids : \A i \in DOMAIN old : ~(i >= next /\ Holds(old, i, u))
    <3>1. DOMAIN old = Indices(n) /\ next \in 0..n /\ next \notin Indices(n)
      BY <1>8, <2>1 DEF FinishInsert, Rehashing
    <3> QED BY <3>1 DEF Indices
  <2>4. \A u \in Tids : \A i \in DOMAIN old' : ~(i >= next' /\ Holds(old', i, u))
    <3>1. old' = [i \in 0..-1 |-> EMPTY]
      BY <1>8 DEF FinishInsert
    <3> QED BY <3>1
  <2> QED BY <2>2, <2>3, <2>4, PlaceRefines
<1>9. ASSUME Destroy
      PROVE  Map!MapDestroy
  <2>1. /\ slots' = [i \in Indices(0) |-> EMPTY] /\ capacity' = 0 /\ ret' = ret
        /\ pc = "idle" /\ UNCHANGED <<old, next>>
    BY <1>9 DEF Destroy, Indices
  <2>2. \A u \in Tids : ~Stored(slots', capacity', u)
    BY <2>1 DEF Stored, Indices
  <2>3. \A u \in Tids : \A i \in DOMAIN old' : ~(i >= next' /\ Holds(old', i, u))
    BY <2>1, IdleOld
  <2>4. \A u \in Tids : ContentOf(slots', capacity', old', next', u) = Absent
    BY <2>2, <2>3, ContentNone
  <2> QED BY <2>1, <2>4, ContentIs DEF Map!MapDestroy
<1>10. ASSUME UNCHANGED vars
       PROVE  UNCHANGED <<Content, ret>>
  BY <1>10, ContentIs DEF vars
<1> QED BY <1>1, <1>2, <1>3, <1>4, <1>5, <1>6, <1>7, <1>8, <1>9, <1>10
        DEF Next, Map!MapNext, Map!mapVars

(* Initially both are empty. *)
LEMMA InitRefines ==
  ASSUME Init
  PROVE  Map!MapInit
<1>1. slots = [i \in 0..-1 |-> EMPTY] /\ old = slots /\ capacity = 0
  BY DEF Init
<1>2. \A u \in Tids : ContentOf(slots, capacity, old, next, u) = Absent
  BY <1>1 DEF ContentOf, Indices
<1> QED BY <1>2, ContentIs DEF Init, Map!MapInit, Map!Reply, Reply

(* The table implements the map of TraceeMap: callers of get, insert and   *)
(* remove see a map from tids to records, and a rehash is invisible.       *)
THEOREM ImplementsMap == Spec => RefinesMap
<1>1. Init => Map!MapInit
  BY InitRefines
<1>2. IInv /\ IInv' /\ [Next]_vars => [Map!MapNext]_(Map!mapVars)
  BY NextRefines
<1> QED BY <1>1, <1>2, Invariance, PTL DEF Spec, RefinesMap, Map!MapSpec
=============================================================================
