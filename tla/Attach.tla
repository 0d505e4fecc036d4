------------------------------- MODULE Attach -------------------------------
(***************************************************************************)
(* prepare_attach (src/src/trace.c): seizing every thread of a running     *)
(* process.  The target keeps creating and ending threads while the tracer *)
(* lists /proc/PID/task and seizes what it finds, round after round, until *)
(* a round has found nothing new.                                          *)
(***************************************************************************)
EXTENDS Integers, FiniteSets

CONSTANTS Threads,     \* tids the target's threads can have, in order of creation
          Initial,     \* the threads it has when sysgaze starts
          Follow,      \* -f: PTRACE_O_TRACECLONE
          MaxRounds,   \* 64
          MemoryFails  \* whether an allocation may fail

ASSUME AttachAssumption == /\ Threads \subseteq Nat /\ IsFiniteSet(Threads)
                           /\ Initial \subseteq Threads /\ Initial # {}
                           /\ Follow \in BOOLEAN /\ MemoryFails \in BOOLEAN
                           /\ MaxRounds \in Nat \ {0}

VARIABLES thr,    \* the target's threads
          table,  \* the tids of context->tracees
          pc, round, added,
          ids,    \* listed tids the round has not reached yet
          died    \* history: some thread has ended

target == <<thr, died>>
vars   == <<thr, table, pc, round, added, ids, died>>

Least(S) == CHOOSE t \in S : \A u \in S : t <= u
Leader   == Least(Initial)        \* config->attach_pid

Live(t)   == thr[t].st \in {"run", "stopped"}
Listed    == {t \in Threads : thr[t].st \notin {"none", "gone"}}

Init == /\ thr = [t \in Threads |-> [st |-> IF t \in Initial THEN "run" ELSE "none",
                                     traced |-> FALSE, late |-> FALSE]]
        /\ table = {} /\ ids = {}
        /\ pc = "validate" /\ round = 0 /\ added = 0 /\ died = FALSE

-----------------------------------------------------------------------------
(* EXTERNAL: the target.  With -f the thread a seized one creates is traced*)
(* from birth, and both stop until the tracer waits for them.  A thread is *)
(* late if it was not yet there at the last listing and descends from a    *)
(* seized thread.                                                          *)
Clone(t) ==
  LET Unborn == {u \in Threads : thr[u].st = "none"}
      c      == Least(Unborn)
      both   == thr[t].traced /\ Follow
      st     == IF both THEN "stopped" ELSE "run"
  IN  /\ thr[t].st = "run" /\ Unborn # {}
      /\ thr' = [thr EXCEPT ![t].st = st,
                            ![c] = [st |-> st, traced |-> both,
                                    late |-> thr[t].traced \/ thr[t].late]]
      /\ UNCHANGED <<table, pc, round, added, ids, died>>

(* A dead thread stays in /proc/PID/task while its tracer, or for the      *)
(* leader its parent, has not reaped it.                                   *)
Ended(t) == [thr[t] EXCEPT !.st = IF @ \notin {"run", "stopped"} THEN @
                                  ELSE IF thr[t].traced \/ t = Leader THEN "zombie"
                                  ELSE "gone"]

ThreadEnds(t) == /\ thr[t].st = "run"
                 /\ thr' = [thr EXCEPT ![t] = Ended(t)]
                 /\ died' = TRUE
                 /\ UNCHANGED <<table, pc, round, added, ids>>

ProcessEnds == /\ \E t \in Threads : Live(t)
               /\ thr' = [t \in Threads |-> Ended(t)]
               /\ died' = TRUE
               /\ UNCHANGED <<table, pc, round, added, ids>>

LeaderReaped == /\ thr[Leader].st = "zombie" /\ ~thr[Leader].traced
                /\ \A t \in Threads \ {Leader} : thr[t].st \in {"none", "gone"}
                /\ thr' = [thr EXCEPT ![Leader].st = "gone"]
                /\ UNCHANGED <<table, pc, round, added, ids, died>>

-----------------------------------------------------------------------------
(* The tracer *)

(* validate_native_executable; a dead leader has no /proc/PID/exe. *)
Validate == /\ pc = "validate"
            /\ pc' = IF Live(Leader) THEN "collect" ELSE "failed"
            /\ UNCHANGED <<target, table, round, added, ids>>

(* A bug: one round too many. *)
OneMoreRound == round <= MaxRounds

RoundsLeft == round < MaxRounds

(* collect_task_ids, at the top of a round. *)
Collect ==
  /\ pc = "collect"
  /\ IF RoundsLeft /\ thr[Leader].st # "gone"
       THEN /\ ids' = Listed /\ added' = 0 /\ pc' = "seize"
            /\ thr' = [t \in Threads |-> [thr[t] EXCEPT !.late = FALSE]]
       ELSE pc' = "failed" /\ UNCHANGED <<ids, added, thr>>
  /\ UNCHANGED <<table, round, died>>

(* A bug: a tid whose seizure failed stays in the table. *)
AfterEsrchKept(t) == table \cup {t}

(* A bug: attempts are counted, not seizures. *)
CountAttempts == added + 1

(* ESRCH: add_tracee is undone, and the thread does not count as added. *)
AfterEsrch(t) == table \ {t}
AddedAfterEsrch == added

NextId == Least(ids)

(* sg_tracee_table_get knows the tid. *)
SkipKnown == /\ pc = "seize" /\ ids # {} /\ NextId \in table
             /\ ids' = ids \ {NextId}
             /\ UNCHANGED <<target, table, pc, round, added>>

(* add_tracee and PTRACE_SEIZE *)
Seize == /\ pc = "seize" /\ ids # {} /\ NextId \notin table
         /\ Live(NextId) /\ ~thr[NextId].traced
         /\ thr' = [thr EXCEPT ![NextId].traced = TRUE]
         /\ table' = table \cup {NextId}
         /\ added' = added + 1
         /\ ids' = ids \ {NextId}
         /\ UNCHANGED <<pc, round, died>>

SeizeTooLate == /\ pc = "seize" /\ ids # {} /\ NextId \notin table
                /\ thr[NextId].st = "gone"
                /\ table' = AfterEsrch(NextId) /\ added' = AddedAfterEsrch
                /\ ids' = ids \ {NextId}
                /\ UNCHANGED <<target, pc, round>>

(* EPERM: the kernel has attached the thread already, or it is a zombie. *)
SeizeRefused == /\ pc = "seize" /\ ids # {} /\ NextId \notin table
                /\ thr[NextId].traced \/ thr[NextId].st = "zombie"
                /\ pc' = "failed"
                /\ UNCHANGED <<target, table, round, added, ids>>

(* collect_task_ids, add_tracee or snapshot_tids finds no memory. *)
NoMemory == /\ MemoryFails /\ pc \in {"collect", "seize", "interrupt"}
            /\ pc' = "failed"
            /\ UNCHANGED <<target, table, round, added, ids>>

(* A bug: one round is taken to be enough. *)
OneRoundIsEnough == TRUE

NothingNew == added = 0

EndRound == /\ pc = "seize" /\ ids = {}
            /\ IF NothingNew
                 THEN pc' = "interrupt" /\ UNCHANGED round
                 ELSE pc' = "collect" /\ round' = round + 1
            /\ UNCHANGED <<target, table, added, ids>>

(* PTRACE_INTERRUPT of every tracee; what follows is in Tracer. *)
Interrupt == /\ pc = "interrupt"
             /\ pc' = IF table = {} THEN "failed" ELSE "attached"
             /\ UNCHANGED <<target, table, round, added, ids>>

TracerStep == \/ Validate \/ Collect \/ SkipKnown \/ Seize \/ SeizeTooLate
              \/ SeizeRefused \/ NoMemory \/ EndRound \/ Interrupt

(* Once prepare_attach has returned, what becomes of the target is no      *)
(* longer its concern.                                                     *)
Returned == pc \in {"attached", "failed"}

Next == \/ TracerStep
        \/ /\ ~Returned
           /\ \/ \E t \in Threads : Clone(t) \/ ThreadEnds(t)
              \/ ProcessEnds \/ LeaderReaped
        \/ Returned /\ UNCHANGED vars

Spec == Init /\ [][Next]_vars

-----------------------------------------------------------------------------
(* The state keeps its types. *)
TypeOK ==
  /\ thr \in [Threads -> [st : {"none", "run", "stopped", "zombie", "gone"},
                          traced : BOOLEAN, late : BOOLEAN]]
  /\ table \subseteq Threads /\ ids \subseteq Threads
  /\ pc \in {"validate", "collect", "seize", "interrupt", "attached", "failed"}
  /\ round \in 0..MaxRounds /\ added \in Nat /\ died \in BOOLEAN

(* Every tid in the table is a thread the kernel has given to the tracer,  *)
(* so that trace_loop, which ends when the table is empty, never waits for *)
(* one that cannot report.                                                 *)
NoGhosts == \A t \in table : thr[t].traced /\ thr[t].st \notin {"none", "gone"}

(* Every round but the last seizes a thread: "did not stabilize" is only   *)
(* said of a target that had 64 threads to give.                           *)
RoundsProgress == round <= Cardinality(table)

(* A round that finds nothing new proves that nothing was missed: unless   *)
(* threads ended meanwhile, a thread left untraced has been created since, *)
(* by a traced thread that is not followed.                                *)
MissedNone == \A t \in Threads : Live(t) /\ ~thr[t].traced => thr[t].late

AttachComplete == pc = "attached" /\ ~died => MissedNone
=============================================================================
