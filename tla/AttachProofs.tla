---------------------------- MODULE AttachProofs ----------------------------
(***************************************************************************)
(* Proofs about prepare_attach, for targets of any size.                   *)
(***************************************************************************)
EXTENDS Attach, WellFoundedInduction, FiniteSetTheorems, TLAPS

(* While no thread has ended, an untraced thread that is not late means    *)
(* that the round still has an unknown tid to come to; so a round that     *)
(* adds none has missed none.                                              *)
StillToCome == pc = "seize" /\ added = 0 /\ ~died /\ ids \subseteq table => MissedNone

IInv == /\ TypeOK
        /\ NoGhosts
        /\ pc = "seize" => round < MaxRounds
        /\ round <= Cardinality(table)
        /\ pc = "seize" /\ added > 0 => round + 1 <= Cardinality(table)
        /\ ~died => \A t \in Threads : thr[t].st \notin {"zombie", "gone"}
        /\ StillToCome
        /\ pc \in {"interrupt", "attached"} /\ ~died => MissedNone

(* Every non-empty set of naturals has a least element. *)
LEMMA LeastElement ==
  ASSUME NEW K \in SUBSET Nat, K # {}
  PROVE  \E m \in K : \A j \in K : m <= j
<1> DEFINE R == OpToRel(<, Nat)
<1>1. IsWellFoundedOn(R, Nat)
  BY NatLessThanWellFounded
<1>2. PICK m \in K : \A j \in K : <<j, m>> \notin R
  <2> HIDE DEF R
  <2> QED BY <1>1, WFMin
<1>3. \A j \in K : ~(j < m)
  BY <1>2 DEF OpToRel
<1> QED BY <1>3

(* Least picks a member of every non-empty set of tids. *)
LEMMA LeastIn ==
  ASSUME NEW S \in SUBSET Threads, S # {}
  PROVE  Least(S) \in S
<1>1. S \in SUBSET Nat
  BY AttachAssumption
<1>2. \E m \in S : \A j \in S : m <= j
  BY <1>1, LeastElement
<1> QED BY <1>2 DEF Least

(* The table is finite, and one more tid makes it one larger. *)
LEMMA TableGrows ==
  ASSUME NEW S \in SUBSET Threads, NEW t \in Threads \ S
  PROVE  /\ Cardinality(S) \in Nat
         /\ Cardinality(S \cup {t}) = Cardinality(S) + 1
<1>1. IsFiniteSet(S)
  BY AttachAssumption, FS_Subset
<1> QED BY <1>1, FS_CardinalityType, FS_AddElement

(* Initially nothing is traced and nothing was listed. *)
LEMMA InitInv ==
  ASSUME Init
  PROVE  IInv
<1>1. Cardinality(table) = 0
  BY FS_EmptySet DEF Init
<1>2. TypeOK
  <2>1. thr \in [Threads -> [st : {"none", "run", "stopped", "zombie", "gone"},
                             traced : BOOLEAN, late : BOOLEAN]]
    BY DEF Init
  <2>2. 0 \in 0..MaxRounds
    BY AttachAssumption
  <2> QED BY <2>1, <2>2 DEF Init, TypeOK
<1> QED BY <1>1, <1>2, AttachAssumption DEF Init, IInv, NoGhosts, StillToCome

(* What the target does leaves the tracer's state alone; it is enough to   *)
(* look at the threads.                                                    *)
LEMMA TargetInv ==
  ASSUME IInv, UNCHANGED <<table, pc, round, added, ids>>, TypeOK', NoGhosts',
         ~died' => /\ ~died
                   /\ \A t \in Threads : thr'[t].st \notin {"zombie", "gone"}
                   /\ MissedNone => MissedNone'
  PROVE  IInv'
BY DEF IInv, StillToCome

(* A thread that ends keeps its other fields and is no longer live. *)
LEMMA EndedThread ==
  ASSUME TypeOK, NEW t \in Threads
  PROVE  /\ Ended(t) \in [st : {"none", "run", "stopped", "zombie", "gone"},
                           traced : BOOLEAN, late : BOOLEAN]
         /\ Ended(t).traced = thr[t].traced
         /\ thr[t].traced /\ thr[t].st \notin {"none", "gone"} => Ended(t).st \notin {"none", "gone"}
BY DEF TypeOK, Ended

(* Every step preserves the invariant. *)
LEMMA NextInv ==
  ASSUME IInv, [Next]_vars
  PROVE  IInv'
<1>0. TypeOK /\ NoGhosts
  BY DEF IInv
<1>1. ASSUME NEW t \in Threads, Clone(t)
      PROVE  IInv'
  <2> DEFINE Unborn == {u \in Threads : thr[u].st = "none"}
             c == Least(Unborn)
             both == thr[t].traced /\ Follow
             st == IF both THEN "stopped" ELSE "run"
             born == [st |-> st, traced |-> both, late |-> thr[t].traced \/ thr[t].late]
  <2>1. /\ thr[t].st = "run" /\ c \in Threads /\ thr[c].st = "none" /\ c # t
        /\ thr' = [thr EXCEPT ![t].st = st, ![c] = born]
        /\ UNCHANGED <<table, pc, round, added, ids, died>>
    <3>1. Unborn \in SUBSET Threads /\ Unborn # {}
      BY <1>1 DEF Clone
    <3>2. c \in Unborn
      BY <3>1, LeastIn
    <3> QED BY <1>1, <3>2 DEF Clone
  <2>2. /\ thr'[c] = born /\ thr'[t] = [thr[t] EXCEPT !.st = st]
        /\ \A u \in Threads \ {c, t} : thr'[u] = thr[u]
    BY <2>1, <1>0 DEF TypeOK
  <2>3. TypeOK'
    <3>1. born \in [st : {"none", "run", "stopped", "zombie", "gone"},
                    traced : BOOLEAN, late : BOOLEAN]
      BY <1>0, AttachAssumption DEF TypeOK
    <3>2. [thr[t] EXCEPT !.st = st] \in [st : {"none", "run", "stopped", "zombie", "gone"},
                                         traced : BOOLEAN, late : BOOLEAN]
      BY <1>0 DEF TypeOK
    <3> QED BY <1>0, <2>1, <3>1, <3>2 DEF TypeOK
  <2>4. NoGhosts'
    <3> SUFFICES ASSUME NEW u \in table 
                 PROVE  thr'[u].traced /\ thr'[u].st \notin {"none", "gone"}
      BY <2>1 DEF NoGhosts
    <3>1. u \in Threads /\ thr[u].traced /\ thr[u].st \notin {"none", "gone"}
      BY <1>0 DEF NoGhosts, TypeOK
    <3>2. CASE u = c
      BY <3>1, <3>2, <2>1
    <3>3. CASE u = t
      BY <3>1, <3>3, <2>2, <1>0 DEF TypeOK
    <3>4. CASE u \notin {c, t}
      BY <3>1, <3>4, <2>2
    <3> QED BY <3>2, <3>3, <3>4
  <2>5. ASSUME ~died'
        PROVE  \A u \in Threads : thr'[u].st \notin {"zombie", "gone"}
    BY <2>1, <2>2, <2>5, <1>0 DEF IInv, TypeOK
  <2>6. ASSUME MissedNone PROVE MissedNone'
    <3> SUFFICES ASSUME NEW u \in Threads, thr'[u].st \in {"run", "stopped"}, ~thr'[u].traced
                 PROVE  thr'[u].late
      BY DEF MissedNone, Live
    <3>1. thr[t].traced \/ thr[t].late
      BY <2>1, <2>6 DEF MissedNone, Live
    <3>2. CASE u = c
      <4>1. born.late = (thr[t].traced \/ thr[t].late)
        OBVIOUS
      <4>2. thr'[c] = born
        BY <2>2
      <4> HIDE DEF born
      <4> QED BY <3>1, <3>2, <4>1, <4>2
    <3>3. CASE u = t
      <4>1. thr'[t].traced = thr[t].traced /\ thr'[t].late = thr[t].late
        BY <2>2, <1>0 DEF TypeOK
      <4> QED BY <3>3, <3>1, <4>1
    <3>4. CASE u \notin {c, t}
      BY <3>4, <2>2, <2>6 DEF MissedNone, Live
    <3> QED BY <3>2, <3>3, <3>4
  <2> QED BY <2>1, <2>3, <2>4, <2>5, <2>6, TargetInv
<1>2. ASSUME NEW t \in Threads, ThreadEnds(t)
      PROVE  IInv'
  <2>1. /\ thr' = [thr EXCEPT ![t] = Ended(t)] /\ died' = TRUE
        /\ UNCHANGED <<table, pc, round, added, ids>>
    BY <1>2 DEF ThreadEnds
  <2>2. TypeOK'
    BY <1>0, <2>1, EndedThread DEF TypeOK
  <2>3. NoGhosts'
    BY <1>0, <2>1, EndedThread DEF NoGhosts, TypeOK
  <2> QED BY <2>1, <2>2, <2>3, TargetInv
<1>3. ASSUME ProcessEnds
      PROVE  IInv'
  <2>1. /\ thr' = [t \in Threads |-> Ended(t)] /\ died' = TRUE
        /\ UNCHANGED <<table, pc, round, added, ids>>
    BY <1>3 DEF ProcessEnds
  <2>2. TypeOK'
    BY <1>0, <2>1, EndedThread DEF TypeOK
  <2>3. NoGhosts'
    BY <1>0, <2>1, EndedThread DEF NoGhosts, TypeOK
  <2> QED BY <2>1, <2>2, <2>3, TargetInv
<1>4. ASSUME LeaderReaped
      PROVE  IInv'
  <2>1. /\ thr[Leader].st = "zombie" /\ ~thr[Leader].traced
        /\ thr' = [thr EXCEPT ![Leader].st = "gone"]
        /\ UNCHANGED <<table, pc, round, added, ids, died>>
    BY <1>4 DEF LeaderReaped
  <2>2. Leader \in Threads
    BY AttachAssumption, LeastIn DEF Leader
  <2>3. died
    BY <2>1, <2>2 DEF IInv
  <2>4. TypeOK'
    BY <1>0, <2>1, <2>2 DEF TypeOK
  <2>5. NoGhosts'
    BY <1>0, <2>1, <2>2 DEF NoGhosts, TypeOK
  <2> QED BY <2>1, <2>3, <2>4, <2>5, TargetInv
<1>5. ASSUME Validate
      PROVE  IInv'
  <2>1. /\ pc' \in {"collect", "failed"}
        /\ UNCHANGED <<thr, died, table, round, added, ids>>
    BY <1>5 DEF Validate, target
  <2>2. TypeOK' /\ NoGhosts' /\ (MissedNone' <=> MissedNone)
    BY <1>0, <2>1 DEF TypeOK, NoGhosts, MissedNone, Live
  <2> QED BY <2>1, <2>2 DEF IInv, StillToCome
<1>6. ASSUME Collect
      PROVE  IInv'
  <2>1. CASE RoundsLeft /\ thr[Leader].st # "gone"
    <3>1. /\ ids' = Listed /\ added' = 0 /\ pc' = "seize" /\ round < MaxRounds
          /\ thr' = [t \in Threads |-> [thr[t] EXCEPT !.late = FALSE]]
          /\ UNCHANGED <<table, round, died>>
      BY <1>6, <2>1 DEF Collect, RoundsLeft
    <3>2. \A t \in Threads : /\ thr'[t].st = thr[t].st /\ thr'[t].traced = thr[t].traced
                              /\ thr'[t].late = FALSE
      BY <1>0, <3>1 DEF TypeOK
    <3>3. TypeOK'
      <4>1. thr' \in [Threads -> [st : {"none", "run", "stopped", "zombie", "gone"},
                                  traced : BOOLEAN, late : BOOLEAN]]
        BY <1>0, <3>1 DEF TypeOK
      <4> QED BY <1>0, <3>1, <4>1 DEF TypeOK, Listed
    <3>4. NoGhosts'
      BY <1>0, <3>1, <3>2 DEF NoGhosts, TypeOK
    <3>5. ASSUME ids' \subseteq table'
          PROVE  MissedNone'
      <4> SUFFICES ASSUME NEW t \in Threads, thr'[t].st \in {"run", "stopped"} PROVE thr'[t].traced
        BY DEF MissedNone, Live
      <4>1. t \in Listed
        BY <3>2 DEF Listed
      <4>2. t \in table
        BY <4>1, <3>1, <3>5
      <4> QED BY <4>2, <3>1, <3>4 DEF NoGhosts
    <3>6. ~died' => \A t \in Threads : thr'[t].st \notin {"zombie", "gone"}
      BY <3>1, <3>2 DEF IInv
    <3> QED BY <3>1, <3>3, <3>4, <3>5, <3>6 DEF IInv, StillToCome
  <2>2. CASE ~(RoundsLeft /\ thr[Leader].st # "gone")
    <3>1. pc' = "failed" /\ UNCHANGED <<thr, died, table, round, added, ids>>
      BY <1>6, <2>2 DEF Collect
    <3>2. TypeOK' /\ NoGhosts'
      BY <1>0, <3>1 DEF TypeOK, NoGhosts
    <3> QED BY <3>1, <3>2 DEF IInv, StillToCome
  <2> QED BY <2>1, <2>2
<1>7. ASSUME SkipKnown
      PROVE  IInv'
  <2>1. /\ NextId \in table /\ ids' = ids \ {NextId}
        /\ UNCHANGED <<thr, died, table, pc, round, added>>
    BY <1>7 DEF SkipKnown, target
  <2>2. TypeOK' /\ NoGhosts' /\ (MissedNone' <=> MissedNone)
    BY <1>0, <2>1 DEF TypeOK, NoGhosts, MissedNone, Live
  <2>3. ids' \subseteq table' => ids \subseteq table
    BY <2>1
  <2> QED BY <2>1, <2>2, <2>3 DEF IInv, StillToCome
<1>8. ASSUME Seize
      PROVE  IInv'
  <2>1. /\ NextId \in Threads \ table /\ thr[NextId].st \in {"run", "stopped"}
        /\ thr' = [thr EXCEPT ![NextId].traced = TRUE]
        /\ table' = table \cup {NextId} /\ added' = added + 1 /\ ids' = ids \ {NextId}
        /\ pc = "seize" /\ UNCHANGED <<pc, round, died>>
    <3>1. NextId \in ids
      BY <1>0, <1>8, LeastIn DEF Seize, NextId, TypeOK
    <3> QED BY <1>0, <1>8, <3>1 DEF Seize, TypeOK, Live
  <2>2. TypeOK'
    <3>1. [thr[NextId] EXCEPT !.traced = TRUE]
            \in [st : {"none", "run", "stopped", "zombie", "gone"},
                 traced : BOOLEAN, late : BOOLEAN]
      BY <1>0, <2>1 DEF TypeOK
    <3>2. thr' \in [Threads -> [st : {"none", "run", "stopped", "zombie", "gone"},
                                traced : BOOLEAN, late : BOOLEAN]]
      BY <1>0, <2>1, <3>1 DEF TypeOK
    <3>3. added' \in Nat
      BY <1>0, <2>1 DEF TypeOK
    <3> QED BY <1>0, <2>1, <3>2, <3>3 DEF TypeOK
  <2>3. NoGhosts'
    BY <1>0, <2>1 DEF NoGhosts, TypeOK
  <2>4. Cardinality(table) \in Nat /\ Cardinality(table') = Cardinality(table) + 1
    BY <1>0, <2>1, TableGrows DEF TypeOK
  <2>5. round \in Nat /\ added \in Nat /\ round <= Cardinality(table) /\ round < MaxRounds
    BY <1>0, <2>1 DEF TypeOK, IInv
  <2>6. round + 1 <= Cardinality(table') /\ round <= Cardinality(table') /\ added' # 0
    BY <2>1, <2>4, <2>5
  <2>7. ~died' => \A t \in Threads : thr'[t].st \notin {"zombie", "gone"}
    BY <1>0, <2>1 DEF IInv, TypeOK
  <2> QED BY <2>1, <2>2, <2>3, <2>5, <2>6, <2>7 DEF IInv, StillToCome
<1>9. ASSUME SeizeTooLate
      PROVE  IInv'
  <2>1. /\ NextId \in Threads \ table /\ thr[NextId].st = "gone"
        /\ table' = table /\ added' = added /\ ids' = ids \ {NextId}
        /\ UNCHANGED <<thr, died, pc, round>>
    <3>1. NextId \in ids
      BY <1>0, <1>9, LeastIn DEF SeizeTooLate, NextId, TypeOK
    <3> QED BY <1>0, <1>9, <3>1 DEF SeizeTooLate, TypeOK, AfterEsrch, AddedAfterEsrch, target
  <2>2. died
    BY <2>1 DEF IInv
  <2>3. TypeOK' /\ NoGhosts'
    BY <1>0, <2>1 DEF TypeOK, NoGhosts
  <2> QED BY <2>1, <2>2, <2>3 DEF IInv, StillToCome
<1>10. ASSUME SeizeRefused \/ NoMemory
       PROVE  IInv'
  <2>1. pc' = "failed" /\ UNCHANGED <<thr, died, table, round, added, ids>>
    BY <1>10 DEF SeizeRefused, NoMemory, target
  <2>2. TypeOK' /\ NoGhosts'
    BY <1>0, <2>1 DEF TypeOK, NoGhosts
  <2> QED BY <2>1, <2>2 DEF IInv, StillToCome
<1>11. ASSUME EndRound
       PROVE  IInv'
  <2>1. pc = "seize" /\ ids = {} /\ UNCHANGED <<thr, died, table, added, ids>>
    BY <1>11 DEF EndRound, target
  <2>2. MissedNone' <=> MissedNone
    BY <2>1 DEF MissedNone, Live
  <2>3. CASE added = 0
    <3>1. pc' = "interrupt" /\ round' = round
      BY <1>11, <2>3 DEF EndRound, NothingNew
    <3>2. TypeOK' /\ NoGhosts'
      BY <1>0, <2>1, <3>1 DEF TypeOK, NoGhosts
    <3>3. ~died => MissedNone
      BY <2>1, <2>3 DEF IInv, StillToCome
    <3> QED BY <2>1, <2>2, <3>1, <3>2, <3>3 DEF IInv, StillToCome
  <2>4. CASE added # 0
    <3>1. pc' = "collect" /\ round' = round + 1
      BY <1>11, <2>4 DEF EndRound, NothingNew
    <3>2. round \in Nat /\ round < MaxRounds /\ added > 0
      BY <1>0, <2>1, <2>4 DEF TypeOK, IInv
    <3>3. TypeOK'
      <4>1. round' \in 0..MaxRounds
        BY <3>1, <3>2, AttachAssumption
      <4> QED BY <1>0, <2>1, <3>1, <4>1 DEF TypeOK
    <3>4. NoGhosts'
      BY <1>0, <2>1 DEF NoGhosts
    <3>5. round' <= Cardinality(table')
      BY <2>1, <3>1, <3>2 DEF IInv
    <3> QED BY <2>1, <3>1, <3>3, <3>4, <3>5 DEF IInv, StillToCome
  <2> QED BY <2>3, <2>4
<1>12. ASSUME Interrupt
       PROVE  IInv'
  <2>1. /\ pc = "interrupt" /\ pc' \in {"attached", "failed"}
        /\ UNCHANGED <<thr, died, table, round, added, ids>>
    BY <1>12 DEF Interrupt, target
  <2>2. TypeOK' /\ NoGhosts' /\ (MissedNone' <=> MissedNone)
    BY <1>0, <2>1 DEF TypeOK, NoGhosts, MissedNone, Live
  <2> QED BY <2>1, <2>2 DEF IInv, StillToCome
<1>13. ASSUME UNCHANGED vars
       PROVE  IInv'
  BY <1>13 DEF vars, IInv, TypeOK, NoGhosts, StillToCome, MissedNone, Live
<1> QED BY <1>1, <1>2, <1>3, <1>4, <1>5, <1>6, <1>7, <1>8, <1>9, <1>10, <1>11, <1>12, <1>13
        DEF Next, TracerStep

(* The inductive invariant holds throughout prepare_attach. *)
THEOREM Invariance == Spec => []IInv
<1>1. Init => IInv
  BY InitInv
<1>2. IInv /\ [Next]_vars => IInv'
  BY NextInv
<1> QED BY <1>1, <1>2, PTL DEF Spec

(* prepare_attach keeps its types, and its rounds within 64. *)
THEOREM TypesKept == Spec => []TypeOK
<1>1. IInv => TypeOK
  BY DEF IInv
<1> QED BY <1>1, Invariance, PTL

(* Whatever the target does, prepare_attach leaves no tid in the table     *)
(* that the kernel has not given to the tracer.                            *)
THEOREM TableHasNoGhosts == Spec => []NoGhosts
<1>1. IInv => NoGhosts
  BY DEF IInv
<1> QED BY <1>1, Invariance, PTL

(* Every round but the last seizes a thread, so that the 64 rounds run out *)
(* only on a target that had as many threads to give.                      *)
THEOREM RoundsBounded == Spec => []RoundsProgress
<1>1. IInv => RoundsProgress
  BY DEF IInv, RoundsProgress
<1> QED BY <1>1, Invariance, PTL

(* A round of prepare_attach that adds nothing has missed nothing, as long *)
(* as no thread of the target ended.                                       *)
THEOREM AttachesAll == Spec => []AttachComplete
<1>1. IInv => AttachComplete
  BY DEF IInv, AttachComplete
<1> QED BY <1>1, Invariance, PTL
=============================================================================
