---------------------------- MODULE TracerProofs ----------------------------
(***************************************************************************)
(* The trace loop over the kernel, for every program, command line, number *)
(* of tasks and sequence of signals that PtraceKernel admits.              *)
(*                                                                         *)
(* Sound, about which the other invariants are stated: every task record   *)
(* is one the kernel can be in, every record of the tracer keeps its type, *)
(* and what waitpid reported is still so when the loop acts on it, unless  *)
(* the task has died or its tid was taken over.                            *)
(***************************************************************************)
EXTENDS KernelProofs, FiniteSetTheorems

-----------------------------------------------------------------------------
(* The tracer's variables. *)
PCs == {"start", "interrupt", "wait", "blocked", "handle", "resume", "finish",
        "kill", "reap", "detach", "detaching", "detach_wait", "done"}

TraceeSet == [known : BOOLEAN, newborn : BOOLEAN, inStop : BOOLEAN, sig : Nat,
              pend : CallSet, pendArgs : Nat, intr : CallSet, intrArgs : Nat,
              ready : BOOLEAN]

Results   == {"none", "ok", "err", "eintr"}

OutSet    == [unfinished : SUBSET Tids, shown : SUBSET CallSet, resumed : SUBSET CallSet,
              report : [Ids -> Results]]

CurSet    == [tid : Tids \cup {0}, stop : EventSet, deliver : Nat, listen : BOOLEAN]

RootSet   == [tid : Tids, status : Nat \cup {-1}, exec : BOOLEAN]

EndSet    == [ok : BOOLEAN, status : Int]

TracerType ==
  /\ tracees \in [Tids -> TraceeSet] /\ out \in OutSet /\ pc \in PCs /\ cur \in CurSet
  /\ pc \in {"handle", "resume", "detach_wait"} => cur.tid \in Tids
  /\ pc = "handle" /\ cur.stop.kind = "exec" => cur.stop.msg \in Tids
  /\ root \in RootSet /\ shutdown \in Nat /\ end \in EndSet /\ todo \subseteq Tids

Typed == KernelInv /\ TracerType

(* What waitpid reported still holds when the loop acts on it, except that *)
(* the task may have died or another thread's exec may have taken its tid  *)
(* over; and no task is let go before the loop has ended.                  *)
Loop == {"start", "interrupt", "wait", "blocked", "handle", "resume"}

HeldTask(r, stop) ==
  IF stop.kind = "exited" THEN r.st = "gone" /\ r.code = stop.msg
  ELSE \/ r.st = "stop" /\ r.seen /\ r.stop = stop
       \/ At(r, "exec") /\ ~r.seen
       \/ r.st \in {"zombie", "gone"}

Held     == pc \in {"handle", "resume"} => HeldTask(task[cur.tid], cur.stop)

NoneFree == pc \in Loop => \A t \in Tids : task[t].how # "free"

(* A handler that fails on its way, when writing or capturing fails. *)
Failing == EntryFails \/ WriteFails

(* The strings that are allocated: finitely many, so that there is always  *)
(* a new one.                                                              *)
HeapType == heap \in SUBSET (Nat \ {0}) /\ IsFiniteSet(heap)

LEMMA NewStringFound ==
  ASSUME HeapType
  PROVE  NewString \in Nat \ {0} /\ NewString \notin heap
  <1> DEFINE k == Cardinality(heap)
  <1>1. k \in Nat BY FS_CardinalityType DEF HeapType
  <1>2. IsFiniteSet(1..k + 1) /\ Cardinality(1..k + 1) = k + 1 BY <1>1, FS_Interval
  <1>3. \E n \in 1..k + 1 : n \notin heap
    <2> SUFFICES ASSUME 1..k + 1 \subseteq heap PROVE FALSE OBVIOUS
    <2>1. Cardinality(1..k + 1) <= k BY FS_Subset DEF HeapType
    <2> QED BY <1>1, <1>2, <2>1
  <1>4. NewString \in 1..k + 1 /\ NewString \notin heap BY <1>3 DEF NewString
  <1> QED BY <1>1, <1>4

LEMMA CapturedType ==
  ASSUME HeapType, NEW c
  PROVE  captured(c) \in Nat
  BY NewStringFound DEF captured

LEMMA TracerTypeKept ==
  ASSUME config' = config, tracees' \in [Tids -> TraceeSet], out' \in OutSet, pc' \in PCs,
         cur' \in CurSet, pc' \in {"handle", "resume", "detach_wait"} => cur'.tid \in Tids,
         pc' = "handle" /\ cur'.stop.kind = "exec" => cur'.stop.msg \in Tids,
         root' \in RootSet, shutdown' \in Nat, end' \in EndSet, todo' \subseteq Tids
  PROVE  TracerType'
  <1>1. TraceeSet' = TraceeSet /\ OutSet' = OutSet
    BY DEF TraceeSet, OutSet, CallSet, Calls
  <1> QED BY <1>1 DEF TracerType, PCs, CurSet, RootSet, EndSet, EventSet

LEMMA FreshType ==
  /\ Fresh(TRUE) \in TraceeSet /\ Fresh(FALSE) \in TraceeSet /\ Absent \in TraceeSet
  /\ \A b : Fresh(b).pend = NoCall /\ Fresh(b).intr = NoCall /\ Fresh(b).known
  /\ Absent.pend = NoCall /\ Absent.intr = NoCall /\ ~Absent.known
  <1>1. Fresh(TRUE) \in TraceeSet /\ Fresh(FALSE) \in TraceeSet
    BY NoCallType DEF Fresh, TraceeSet
  <1>2. \A b : Fresh(b).pend = NoCall /\ Fresh(b).intr = NoCall /\ Fresh(b).known
    BY DEF Fresh
  <1>3. Absent \in TraceeSet /\ Absent.pend = NoCall /\ Absent.intr = NoCall /\ ~Absent.known
    BY NoCallType DEF Absent, Fresh, TraceeSet
  <1> QED BY <1>1, <1>2, <1>3

LEMMA LeftType ==
  ASSUME NEW tr \in [Tids -> TraceeSet], NEW t
  PROVE  [tr EXCEPT ![t].inStop = FALSE] \in [Tids -> TraceeSet]
  <1>1. CASE t \in Tids
    <2> DEFINE x == [tr[t] EXCEPT !.inStop = FALSE]
    <2>1. x \in TraceeSet BY <1>1 DEF TraceeSet
    <2>2. [tr EXCEPT ![t].inStop = FALSE] = [tr EXCEPT ![t] = x] OBVIOUS
    <2> HIDE DEF x
    <2> QED BY <2>1, <2>2
  <1>2. CASE t \notin Tids
    <2>1. [tr EXCEPT ![t].inStop = FALSE] = tr BY <1>2
    <2> QED BY <2>1
  <1> QED BY <1>1, <1>2

LEMMA FailedEnd ==
  ASSUME end \in EndSet
  PROVE  [ok |-> FALSE, status |-> end.status] \in EndSet
  BY DEF EndSet

LEMMA FlushType ==
  ASSUME NEW o \in OutSet, NEW tr \in [Tids -> TraceeSet], NEW except
  PROVE  flush_unfinished_syscalls(o, tr, except) \in OutSet
  <1> DEFINE F == {t \in Tids \ {except} : tr[t].known /\ IsSelected(Running(tr[t]))}
             sh == o.shown \cup {Running(tr[t]) : t \in F \ o.unfinished}
             un == o.unfinished \cup F
  <1>1. \A t \in Tids : Running(tr[t]) \in CallSet BY DEF Running, TraceeSet
  <1>2. sh \in SUBSET CallSet BY <1>1 DEF OutSet
  <1>3. un \in SUBSET Tids BY DEF OutSet
  <1>4. flush_unfinished_syscalls(o, tr, except)
          = IF Format # "text" THEN o ELSE [o EXCEPT !.shown = sh, !.unfinished = un]
    BY DEF flush_unfinished_syscalls
  <1> HIDE DEF sh, un
  <1> QED BY <1>2, <1>3, <1>4 DEF OutSet

LEMMA RemoveType ==
  ASSUME NEW o \in OutSet, NEW t
  PROVE  unfinished_remove(o, t) \in OutSet
  BY DEF unfinished_remove, OutSet

LEMMA WriteType ==
  ASSUME NEW o \in OutSet, NEW tr \in [Tids -> TraceeSet], NEW t, NEW c \in CallSet,
         NEW res \in Results
  PROVE  write_syscall(o, tr, t, c, res) \in OutSet
  <1> DEFINE p == flush_unfinished_syscalls(o, tr, t)
             rs == IF t \in p.unfinished THEN p.resumed \cup {c} ELSE p.resumed
             q == [p EXCEPT !.resumed = rs, !.report[c.id] = res]
  <1>1. p \in OutSet BY FlushType
  <1>2. write_syscall(o, tr, t, c, res) = IF IsSelected(c) THEN unfinished_remove(q, t) ELSE o
    BY DEF write_syscall, write_text_syscall
  <1> HIDE DEF p
  <1>3. rs \in SUBSET CallSet BY <1>1 DEF OutSet
  <1> HIDE DEF rs
  <1>4. q \in OutSet BY <1>1, <1>3 DEF OutSet
  <1> HIDE DEF q
  <1> QED BY <1>2, <1>4, RemoveType

LEMMA MovedType ==
  ASSUME tracees \in [Tids -> TraceeSet], NEW former \in Tids, NEW t \in Tids
  PROVE  Migrated(former, t) \in [Tids -> TraceeSet]
  <1> DEFINE y == IF tracees[former].known THEN tracees[former]
                  ELSE IF tracees[t].known THEN tracees[t] ELSE Fresh(FALSE)
             z == [y EXCEPT !.newborn = FALSE]
  <1>1. y \in TraceeSet BY FreshType
  <1> HIDE DEF y
  <1>2. z \in TraceeSet BY <1>1 DEF TraceeSet
  <1>3. Migrated(former, t) = IF former = t THEN tracees
                              ELSE [tracees EXCEPT ![former] = Absent, ![t] = z]
    BY DEF Migrated, y
  <1> HIDE DEF z
  <1> QED BY <1>2, <1>3, FreshType

LEMMA MigrateType ==
  ASSUME NEW o \in OutSet, NEW former, NEW t \in Tids
  PROVE  migrate_tid(o, former, t) \in OutSet
  BY DEF migrate_tid, OutSet

LEMMA TypedInit ==
  ASSUME Init
  PROVE  Typed
  <1>1. config \in Configs BY DEF Init, KernelInit
  <1>2. Root \in InitTasks /\ InitTasks \subseteq Tids /\ Root \in Tids BY <1>1, RootType
  <1>3. 0 \notin Tids BY KernelAssumption
  <1> DEFINE r == [NoTask EXCEPT !.st = "user", !.tg = Root]
             h == Halt(r, "signal", SIGSTOP, 0, "auto")
             s == [h EXCEPT !.seen = TRUE]
             Well(x) == GoodTask(x) /\ x.tg = Root /\ x.st \in {"user", "stop"}
                        /\ (x.st = "stop" => x.stop.kind = "signal")
  <1>4. NoTask \in TaskSet BY NoTaskGood DEF GoodTask
  <1>5. r \in TaskSet /\ r.st = "user" /\ r.tg = Root BY <1>2, <1>4 DEF TaskSet, States
  <1>6. "signal" \in Kinds /\ "auto" \in Vals /\ SIGSTOP \in Nat /\ 0 \in Int
    BY DEF Kinds, Vals, SIGSTOP
  <1> HIDE DEF r
  <1>7. Halted(r, h, "signal", 0, "auto") BY <1>2, <1>5, <1>6, HaltGood
  <1> HIDE DEF h
  <1>8. h \in TaskSet /\ h.st = "stop" /\ h.tg = Root /\ h.stop.kind = "signal"
    BY <1>5, <1>7 DEF Halted, GoodTask
  <1>9. s \in TaskSet /\ s.st = "stop" /\ s.tg = Root /\ s.stop.kind = "signal"
    BY <1>8 DEF TaskSet
  <1> HIDE DEF s
  <1>10. Well(r) /\ Well(s)
    BY <1>2, <1>5, <1>9 DEF GoodTask, CallAgrees, StopAgrees, At
  <1>11. task = [t \in Tids |-> IF t \notin InitTasks THEN NoTask
                                ELSE IF Mode = "attach" THEN r ELSE s]
    BY DEF Init, KernelInit, r, h, s
  <1> HIDE DEF Well
  <1>12. \A t \in Tids : IF t \in InitTasks THEN Well(task[t]) ELSE task[t] = NoTask
    BY <1>10, <1>11
  <1>13. \A t \in Tids : GoodTask(task[t]) BY <1>12, NoTaskGood DEF Well
  <1>14. GoodTasks BY <1>11, <1>13 DEF GoodTasks, GoodTask
  <1>15. KernelBase
    <2>1. made = << >> BY DEF Init, KernelInit
    <2> QED BY <1>1, <1>14, <2>1 DEF KernelBase
  <1>16. Groups(task)
    <2> SUFFICES ASSUME NEW t \in Tids PROVE Grouped(task, t) BY DEF Groups
    <2>1. CASE t \in InitTasks
      <3>1. Well(task[t]) /\ Well(task[Root]) BY <1>2, <1>12, <2>1
      <3> QED BY <3>1 DEF Well, Grouped, At
    <2>2. CASE t \notin InitTasks BY <1>12, <2>2 DEF Grouped, At, NoTask
    <2> QED BY <2>1, <2>2
  <1>17. KernelInv BY <1>2, <1>12, <1>15, <1>16 DEF KernelInv, Well
  <1>18. TracerType
    <2> DEFINE y == [Fresh(FALSE) EXCEPT !.inStop = TRUE]
    <2>1. y \in TraceeSet BY FreshType DEF TraceeSet
    <2>2. tracees \in [Tids -> TraceeSet]
      <3> HIDE DEF y
      <3>1. tracees = [t \in Tids |-> IF t \notin InitTasks THEN Absent
                         ELSE IF Mode = "attach" THEN Fresh(TRUE) ELSE y]
        BY DEF Init, y
      <3> QED BY <2>1, <3>1, FreshType
    <2>3. out \in OutSet
      <3>1. [i \in Ids |-> "none"] \in [Ids -> Results] BY DEF Results
      <3> QED BY <3>1 DEF Init, OutSet
    <2>4. cur \in CurSet BY NoStopType, StopIsEvent DEF Init, NoEvent, CurSet
    <2>5. root \in RootSet BY <1>2 DEF Init, RootSet
    <2>6. end \in EndSet BY DEF Init, EndSet
    <2>7. pc \in {"start", "interrupt"} /\ shutdown = 0 /\ todo \subseteq Tids
      BY <1>2 DEF Init
    <2> QED BY <2>2, <2>3, <2>4, <2>5, <2>6, <2>7 DEF TracerType, PCs
  <1> QED BY <1>17, <1>18 DEF Typed

(* The record a handler goes on with. *)
LEMMA TraceeType ==
  ASSUME TracerType, cur.tid \in Tids
  PROVE  Tracee \in TraceeSet
  BY FreshType DEF Tracee, TracerType

(* A handler that leads to the resumption of cur.tid. *)
LEMMA ToResumeTyped ==
  ASSUME Typed, config' = config, cur.tid \in Tids, NEW tr \in [Tids -> TraceeSet],
         NEW r \in TraceeSet, NEW o \in OutSet, NEW deliver \in Nat, NEW listen \in BOOLEAN,
         ToResume(tr, r, o, deliver, listen), root' \in RootSet
  PROVE  Typed'
  <1> DEFINE x == [r EXCEPT !.inStop = TRUE]
  <1>1. KernelInv /\ TracerType BY DEF Typed
  <1>2. KernelInv' BY <1>1, SameKernel DEF ToResume, kernel
  <1>3. x \in TraceeSet BY DEF TraceeSet
  <1> HIDE DEF x
  <1>4. tracees' \in [Tids -> TraceeSet] BY <1>3 DEF ToResume, x
  <1>5. cur' = [cur EXCEPT !.deliver = deliver, !.listen = listen] BY DEF ToResume
  <1>7. cur' \in CurSet /\ cur'.tid = cur.tid BY <1>1, <1>5 DEF TracerType, CurSet
  <1>8. out' = o /\ pc' = "resume" /\ shutdown' = shutdown /\ end' = end /\ todo' = todo
    BY DEF ToResume
  <1>9. pc' \in PCs BY <1>8 DEF PCs
  <1>10. TracerType' BY <1>1, <1>4, <1>7, <1>8, <1>9, TracerTypeKept DEF TracerType
  <1> QED BY <1>2, <1>10 DEF Typed

LEMMA EndedIs ==
  ASSUME NEW r \in TraceeSet
  PROVE  /\ Ended(r) \in TraceeSet /\ Dropped(r) \in TraceeSet
         /\ Ended(r).pend = NoCall /\ Ended(r).pendArgs = 0 /\ Ended(r).intr = r.intr
         /\ Ended(r).intrArgs = r.intrArgs /\ Ended(r).ready = r.ready
         /\ Ended(r).known = r.known /\ Ended(r).newborn = r.newborn
         /\ Ended(r).inStop = r.inStop /\ Ended(r).sig = r.sig
         /\ Dropped(r).intr = NoCall /\ Dropped(r).intrArgs = 0 /\ Dropped(r).pend = r.pend
         /\ Dropped(r).pendArgs = r.pendArgs /\ ~Dropped(r).ready
         /\ Dropped(r).known = r.known /\ Dropped(r).newborn = r.newborn
         /\ Dropped(r).inStop = r.inStop /\ Dropped(r).sig = r.sig
  BY NoCallType DEF Ended, Dropped, TraceeSet

(* What begin_syscall leaves alone, whichever way it goes. *)
SameTask(r, b) == b.known = r.known /\ b.newborn = r.newborn /\ b.sig = r.sig

LEMMA SettledIs ==
  ASSUME NEW r \in TraceeSet, NEW c
  PROVE  /\ WithoutExec(r) \in TraceeSet /\ SameTask(r, WithoutExec(r))
         /\ Settled(r, c) \in TraceeSet /\ SameTask(r, Settled(r, c))
         /\ Settled(r, c).pend = WithoutExec(r).pend
         /\ Settled(r, c).pendArgs = WithoutExec(r).pendArgs
         /\ WithoutExec(r).intr = r.intr /\ WithoutExec(r).intrArgs = r.intrArgs
         /\ Settled(r, c).intr = (IF GivenUp(r, c) THEN NoCall ELSE r.intr)
         /\ Settled(r, c).intrArgs = (IF GivenUp(r, c) THEN 0 ELSE r.intrArgs)
         /\ WithoutExec(r).pend = (IF CompletesExec(r) THEN NoCall ELSE r.pend)
         /\ WithoutExec(r).pendArgs = (IF CompletesExec(r) THEN 0 ELSE r.pendArgs)
         /\ Settled(r, c).ready = (IF GivenUp(r, c) THEN FALSE ELSE r.ready)
  <1> DEFINE w == WithoutExec(r)
  <1>1. /\ w \in TraceeSet /\ SameTask(r, w) /\ w.intr = r.intr /\ w.intrArgs = r.intrArgs
        /\ w.ready = r.ready
        /\ w.pend = (IF CompletesExec(r) THEN NoCall ELSE r.pend)
        /\ w.pendArgs = (IF CompletesExec(r) THEN 0 ELSE r.pendArgs)
    BY EndedIs DEF WithoutExec, SameTask
  <1>2. Settled(r, c) = IF GivenUp(r, c) THEN Dropped(w) ELSE w BY DEF Settled
  <1> HIDE DEF w
  <1>3. CASE GivenUp(r, c)
    <2> DEFINE d == Settled(r, c)
    <2>1. d = Dropped(w) BY <1>2, <1>3
    <2>2. /\ Dropped(w) \in TraceeSet /\ SameTask(w, Dropped(w))
          /\ Dropped(w).intr = NoCall /\ Dropped(w).intrArgs = 0
          /\ Dropped(w).pend = w.pend /\ Dropped(w).pendArgs = w.pendArgs /\ ~Dropped(w).ready
      BY <1>1, EndedIs DEF SameTask
    <2>3. Dropped(w).ready = FALSE BY <1>1, EndedIs DEF Dropped, TraceeSet
    <2>4. /\ d \in TraceeSet /\ SameTask(w, d) /\ d.intr = NoCall /\ d.intrArgs = 0
          /\ d.pend = w.pend /\ d.pendArgs = w.pendArgs /\ d.ready = FALSE
      BY <2>1, <2>2, <2>3
    <2> HIDE DEF d
    <2>5. SameTask(r, d) BY <1>1, <2>4 DEF SameTask
    <2> QED BY <1>1, <1>3, <2>4, <2>5, Zenon DEF w, d
  <1>4. CASE ~GivenUp(r, c) BY <1>1, <1>2, <1>4, Zenon DEF w
  <1> QED BY <1>3, <1>4

LEMMA BeginIs ==
  ASSUME NEW r \in TraceeSet, NEW c \in CallSet, HeapType
  PROVE  LET b == begin_tracee(r, c)
         IN  /\ b \in TraceeSet /\ SameTask(r, b) /\ b.pend \in {c, r.intr}
             /\ Restarts(r, c) => /\ b.pend = r.intr /\ b.pendArgs = r.intrArgs
                                  /\ b.intr = NoCall /\ b.intrArgs = 0
             /\ ~Restarts(r, c) => /\ b.pend = c /\ b.pendArgs = captured(c)
                                   /\ b.intr = Settled(r, c).intr
                                   /\ b.intrArgs = Settled(r, c).intrArgs
  <1> DEFINE b == begin_tracee(r, c)
             d == Dropped(r)
             e == Settled(r, c)
             n == captured(c)
  <1>1. /\ d \in TraceeSet /\ SameTask(r, d) /\ d.intr = NoCall /\ d.intrArgs = 0
    BY EndedIs DEF SameTask
  <1>2. e \in TraceeSet /\ SameTask(r, e) BY SettledIs
  <1>3. n \in Nat BY CapturedType
  <1>4. b = IF Restarts(r, c) THEN [d EXCEPT !.pend = r.intr, !.pendArgs = r.intrArgs]
            ELSE [e EXCEPT !.pend = c, !.pendArgs = n]
    BY DEF begin_tracee
  <1> HIDE DEF b, d, e, n
  <1>5. CASE Restarts(r, c)
    <2>1. b = [d EXCEPT !.pend = r.intr, !.pendArgs = r.intrArgs] BY <1>4, <1>5
    <2>2. /\ b \in TraceeSet /\ SameTask(d, b) /\ b.pend = r.intr /\ b.pendArgs = r.intrArgs
          /\ b.intr = d.intr /\ b.intrArgs = d.intrArgs
      BY <1>1, <2>1 DEF TraceeSet, SameTask
    <2> QED BY <1>1, <1>5, <2>2 DEF SameTask, b
  <1>6. CASE ~Restarts(r, c)
    <2>1. b = [e EXCEPT !.pend = c, !.pendArgs = n] BY <1>4, <1>6
    <2>2. /\ b \in TraceeSet /\ SameTask(e, b) /\ b.pend = c /\ b.pendArgs = n
          /\ b.intr = e.intr /\ b.intrArgs = e.intrArgs
      BY <1>2, <1>3, <2>1 DEF TraceeSet, SameTask
    <2> QED BY <1>2, <1>6, <2>2 DEF SameTask, b, e, n
  <1> QED BY <1>5, <1>6

LEMMA BeginTyped ==
  ASSUME NEW r \in TraceeSet, NEW c \in CallSet, HeapType
  PROVE  begin_tracee(r, c) \in TraceeSet
  BY BeginIs

LEMMA BeginOutTyped ==
  ASSUME TracerType, NEW r \in TraceeSet, NEW c \in CallSet
  PROVE  begin_output(out, r, c) \in OutSet
  <1> DEFINE t  == cur.tid
             o1 == IF CompletesExec(r) THEN write_syscall(out, tracees, t, r.pend, "ok") ELSE out
             o2 == IF GivenUp(r, c) THEN write_syscall(o1, tracees, t, r.intr, "eintr") ELSE o1
  <1>1. "ok" \in Results /\ "eintr" \in Results BY DEF Results
  <1>2. r.pend \in CallSet /\ r.intr \in CallSet BY DEF TraceeSet
  <1>3. o1 \in OutSet BY <1>1, <1>2, WriteType DEF TracerType
  <1> HIDE DEF o1
  <1>4. o2 \in OutSet BY <1>1, <1>2, <1>3, WriteType DEF TracerType
  <1>5. begin_output(out, r, c) = IF Restarts(r, c) \/ IsSelected(c)
                                    THEN flush_unfinished_syscalls(o2, tracees, t) ELSE o2
    BY DEF begin_output, settled_output, o1
  <1> HIDE DEF o2
  <1> QED BY <1>4, <1>5, FlushType DEF TracerType

LEMMA FinishIs ==
  ASSUME NEW r \in TraceeSet, NEW val
  PROVE  LET b == finish_tracee(r, val)
         IN  /\ b \in TraceeSet /\ SameTask(r, b) /\ b.pend = NoCall
             /\ r.pend = NoCall => b = r
             /\ r.pend # NoCall => b.pendArgs = 0
             /\ r.pend # NoCall /\ is_restart_result(val) =>
                   b.intr = r.pend /\ b.intrArgs = r.pendArgs
             /\ r.pend # NoCall /\ ~is_restart_result(val) =>
                   \/ b.intr = r.intr /\ b.intrArgs = r.intrArgs
                   \/ b.intr # r.intr /\ b.intr = NoCall /\ b.intrArgs = 0
  <1> DEFINE b == finish_tracee(r, val)
             e == Ended(r)
  <1>1. /\ e \in TraceeSet /\ SameTask(r, e) /\ e.pend = NoCall /\ e.pendArgs = 0
        /\ e.intr = r.intr /\ e.intrArgs = r.intrArgs
    BY EndedIs DEF SameTask
  <1>2. CASE r.pend = NoCall
    BY <1>2 DEF finish_tracee, SameTask
  <1>3. CASE r.pend # NoCall /\ is_restart_result(val)
    <2>1. b = [e EXCEPT !.intr = r.pend, !.intrArgs = r.pendArgs, !.ready = FALSE]
      BY <1>3 DEF finish_tracee
    <2> HIDE DEF b, e
    <2>2. /\ b \in TraceeSet /\ SameTask(e, b) /\ b.pend = e.pend /\ b.pendArgs = e.pendArgs
          /\ b.intr = r.pend /\ b.intrArgs = r.pendArgs
      BY <1>1, <2>1 DEF TraceeSet, SameTask
    <2> QED BY <1>1, <1>3, <2>2 DEF SameTask, b
  <1>4. CASE r.pend # NoCall /\ ~is_restart_result(val)
    <2> DEFINE f == [e EXCEPT !.ready = TRUE]
               g == Dropped(e)
    <2>1. \/ b = f \/ b = e
          \/ b = g /\ r.intr # NoCall
      BY <1>4 DEF finish_tracee
    <2> HIDE DEF b, e
    <2>2. /\ f \in TraceeSet /\ SameTask(e, f) /\ f.pend = e.pend /\ f.pendArgs = e.pendArgs
          /\ f.intr = e.intr /\ f.intrArgs = e.intrArgs
      BY <1>1 DEF TraceeSet, SameTask
    <2>3. /\ g \in TraceeSet /\ SameTask(e, g) /\ g.pend = e.pend /\ g.pendArgs = e.pendArgs
          /\ g.intr = NoCall /\ g.intrArgs = 0
      BY <1>1, EndedIs DEF SameTask
    <2> HIDE DEF f, g
    <2> QED BY <1>1, <1>4, <2>1, <2>2, <2>3 DEF SameTask, b
  <1> QED BY <1>2, <1>3, <1>4

LEMMA FinishTyped ==
  ASSUME NEW r \in TraceeSet, NEW val
  PROVE  finish_tracee(r, val) \in TraceeSet
  BY FinishIs

(* A handler that gives the loop up without touching the kernel. *)
LEMMA GiveUpTyped ==
  ASSUME Typed, config' = config, UNCHANGED <<kernel, out, cur, shutdown, todo>>,
         root' \in RootSet, tracees' \in [Tids -> TraceeSet], end' \in EndSet, pc' \in {"finish", "wait", "blocked"}
  PROVE  Typed'
  <1>1. KernelInv' BY SameKernel DEF kernel, Typed
  <1>2. pc' \in PCs /\ pc' \notin {"handle", "resume", "detach_wait"} BY DEF PCs
  <1>3. TracerType' BY <1>2, TracerTypeKept DEF Typed, TracerType
  <1> QED BY <1>1, <1>3 DEF Typed

LEMMA RootAfterType ==
  ASSUME root \in RootSet, cur.tid \in Tids
  PROVE  RootAfterExec \in RootSet
  <1> DEFINE n == IF tracees[cur.stop.msg].known /\ root.tid = cur.stop.msg THEN cur.tid ELSE root.tid
             e == root.exec \/ ExecOfRoot(n, cur.tid)
  <1>1. n \in Tids /\ e \in BOOLEAN BY DEF RootSet
  <1>2. RootAfterExec = [root EXCEPT !.tid = n, !.exec = e] BY DEF RootAfterExec
  <1> HIDE DEF n, e
  <1> QED BY <1>1, <1>2 DEF RootSet

LEMMA HandlerTyped ==
  ASSUME Typed, HeapType, config' = config,
         \/ SyscallEntry \/ SyscallExit \/ EventStop \/ ForkStop \/ ExecStop
         \/ NewbornStop \/ SignalStop \/ GroupStop
  PROVE  Typed'
  <1> DEFINE t == cur.tid
  <1>1. /\ KernelInv /\ TracerType /\ pc = "handle" /\ t \in Tids
        /\ tracees \in [Tids -> TraceeSet] /\ out \in OutSet /\ root \in RootSet
    BY DEF Typed, TracerType, SyscallEntry, AtEntry, SyscallExit, AtExit, EventStop, ForkStop,
           ExecStop, AtExec, NewbornStop, SignalStop, GroupStop, Handling
  <1>2. GoodTask(task[t]) BY <1>1 DEF KernelInv, KernelBase, GoodTasks
  <1>3. Tracee \in TraceeSet BY <1>1, TraceeType
  <1>4. cur.stop.sig \in Nat /\ (0 \in Nat) BY <1>1 DEF TracerType, CurSet, EventSet
  <1> DEFINE N == [Tracee EXCEPT !.newborn = FALSE]
             S == [Tracee EXCEPT !.newborn = FALSE, !.sig = cur.stop.sig]
             M == [Tracee EXCEPT !.inStop = TRUE]
  <1>5. N \in TraceeSet /\ S \in TraceeSet /\ M \in TraceeSet BY <1>3, <1>4 DEF TraceeSet
  <1>6. CASE SyscallEntry
    <2> DEFINE c == task[t].call
    <2>1. c \in CallSet BY <1>2 DEF GoodTask, TaskSet
    <2>2. root' = root BY <1>6 DEF SyscallEntry
    <2>3. ToResume(tracees, begin_tracee(Tracee, c), begin_output(out, Tracee, c), 0, FALSE)
      BY <1>6 DEF SyscallEntry, Entered
    <2>4. begin_tracee(Tracee, c) \in TraceeSet BY <1>3, <2>1, BeginTyped
    <2>5. begin_output(out, Tracee, c) \in OutSet BY <1>1, <1>3, <2>1, BeginOutTyped
    <2> QED BY <1>1, <1>4, <2>2, <2>3, <2>4, <2>5, ToResumeTyped
  <1>7. CASE SyscallExit
    <2> DEFINE val == Now.val
               r == Tracee
               o == finish_output(r, val)
    <2>1. ToResume(tracees, finish_tracee(r, val), o, 0, FALSE) /\ root' = root
      BY <1>7 DEF SyscallExit
    <2>2. val \in {"ok", "err", "restart"}
      BY <1>2, <1>7 DEF SyscallExit, AtExit, Now, InStop, GoodTask, StopAgrees, At
    <2>3. ~is_restart_result(val) => val \in Results BY <2>2 DEF is_restart_result, Results
    <2>4. finish_tracee(r, val) \in TraceeSet BY <1>3, FinishTyped
    <2>5. o \in OutSet BY <1>1, <1>3, <2>3, WriteType DEF TraceeSet, finish_output
    <2> HIDE DEF o, val
    <2> QED BY <1>1, <1>4, <2>1, <2>4, <2>5, ToResumeTyped
  <1>8. CASE EventStop
    <2> DEFINE b == cur.stop.sig # SIGTRAP /\ Listen
    <2>1. ToResume(tracees, N, out, 0, b) /\ root' = root BY <1>8 DEF EventStop
    <2>2. b \in BOOLEAN OBVIOUS
    <2> HIDE DEF N, b
    <2> QED BY <1>1, <1>4, <1>5, <2>1, <2>2, ToResumeTyped
  <1>9. CASE ForkStop
    <2> DEFINE tr == add_tracee(tracees, Now.msg)
               o == write_process_start(out, tr)
    <2>1. ToResume(tr, Tracee, o, 0, FALSE) /\ root' = root BY <1>9 DEF ForkStop
    <2>2. tr \in [Tids -> TraceeSet] BY <1>1, FreshType DEF add_tracee
    <2> HIDE DEF tr
    <2>3. o \in OutSet BY <1>1, <2>2, FlushType DEF write_process_start
    <2> HIDE DEF o
    <2> QED BY <1>1, <1>3, <1>4, <2>1, <2>2, <2>3, ToResumeTyped
  <1>10. CASE ExecStop
    <2> DEFINE former == cur.stop.msg
               tr == Migrated(former, t)
               o  == migrate_tid(out, former, t)
               r  == ExecTracee(tr[t])
               x  == [Ended(r) EXCEPT !.newborn = FALSE]
               p  == IF r.pend = NoCall THEN o ELSE write_syscall(o, tr, t, r.pend, "ok")
    <2>1. ToResume(tr, x, p, 0, FALSE) /\ root' = RootAfterExec BY <1>10 DEF ExecStop
    <2>2. former \in Tids BY <1>1, <1>10 DEF ExecStop, AtExec, Handling, TracerType
    <2>3. tr \in [Tids -> TraceeSet] BY <1>1, <2>2, MovedType
    <2> HIDE DEF tr
    <2>4. r \in TraceeSet BY <1>1, <2>3, FreshType DEF ExecTracee
    <2>5. o \in OutSet BY <1>1, MigrateType
    <2> HIDE DEF r, o
    <2>6. x \in TraceeSet BY <2>4, EndedIs DEF TraceeSet
    <2>7. p \in OutSet BY <2>3, <2>4, <2>5, WriteType DEF TraceeSet, Results
    <2>8. root' \in RootSet BY <1>1, <2>1, RootAfterType
    <2> HIDE DEF x, p
    <2> QED BY <1>1, <1>4, <2>1, <2>3, <2>6, <2>7, <2>8, ToResumeTyped
  <1>11. CASE NewbornStop
    <2>1. ToResume(tracees, N, out, 0, FALSE) /\ root' = root BY <1>11 DEF NewbornStop
    <2> HIDE DEF N
    <2> QED BY <1>1, <1>4, <1>5, <2>1, ToResumeTyped
  <1>12. CASE SignalStop
    <2> DEFINE o == write_signal(out, tracees)
    <2>1. ToResume(tracees, S, o, cur.stop.sig, FALSE) /\ root' = root
      BY <1>12 DEF SignalStop, delivery_signal
    <2>2. o \in OutSet BY <1>1, FlushType DEF write_signal
    <2> HIDE DEF S, o
    <2> QED BY <1>1, <1>4, <1>5, <2>1, <2>2, ToResumeTyped
  <1>13. CASE GroupStop
    <2>1. ToResume(tracees, Tracee, out, 0, Listen) /\ root' = root BY <1>13 DEF GroupStop
    <2>2. Listen \in BOOLEAN BY DEF Listen
    <2> QED BY <1>1, <1>3, <1>4, <2>1, <2>2, ToResumeTyped
  <1> QED BY <1>6, <1>7, <1>8, <1>9, <1>10, <1>11, <1>12, <1>13

(* Any other step of the tracer: the kernel's part is dealt with apart. *)
LEMMA OtherTyped ==
  ASSUME Typed, config' = config, KernelInv', tracees' \in [Tids -> TraceeSet], out' \in OutSet,
         pc' = pc \/ pc' \in PCs \ {"handle", "resume", "detach_wait"}, cur' = cur,
         root' \in RootSet, shutdown' \in Nat, end' \in EndSet, todo' \subseteq Tids
  PROVE  Typed'
  <1>1. TracerType' BY TracerTypeKept DEF Typed, TracerType
  <1> QED BY <1>1 DEF Typed

LEMMA ResumeRequestType ==
  ASSUME NEW r PROVE ResumeRequest(r) \in {"CONT", "SYSCALL", "free"}
  BY DEF ResumeRequest

LEMMA StartTyped ==
  ASSUME Typed, config' = config, StartLaunch
  PROVE  Typed'
  <1>1. KernelInv /\ TracerType /\ GoodTasks /\ Root \in Tids
    BY RootType DEF Typed, KernelInv, KernelBase
  <1>2. UNCHANGED <<out, cur, root, shutdown, todo>> /\ pc' \in {"wait", "finish"}
    BY DEF StartLaunch
  <1>3. tracees' \in [Tids -> TraceeSet] /\ end' \in EndSet
    <2>1. /\ tracees' = tracees \/ tracees' = [tracees EXCEPT ![Root].inStop = FALSE]
          /\ end' = end \/ end' = [end EXCEPT !.ok = FALSE]
      BY DEF StartLaunch
    <2>2. tracees \in [Tids -> TraceeSet] /\ end \in EndSet BY <1>1 DEF TracerType
    <2>3. end' \in EndSet BY <2>1, <2>2 DEF EndSet
    <2> QED BY <1>1, <2>1, <2>2, <2>3, LeftType
  <1>4. KernelInv'
    <2>1. CASE InStop(Root)
      <3>1. PtraceResume(Root, 0, ResumeRequest(tracees[Root])) BY <2>1 DEF StartLaunch
      <3>2. 0 \in Nat OBVIOUS
      <3>3. SetGoing(Root, ResumeRequest(tracees[Root]), task') /\ made' = made
        BY <1>1, <3>1, <3>2, ResumeEffect, ResumeRequestType
      <3> QED BY <1>1, <3>3, GoingKernel
    <2>2. CASE ~InStop(Root) BY <1>1, <2>2, SameKernel DEF StartLaunch, kernel
    <2> QED BY <2>1, <2>2
  <1> QED BY <1>1, <1>2, <1>3, <1>4, OtherTyped DEF TracerType, PCs

LEMMA WaitTyped ==
  ASSUME Typed, config' = config, NEW t \in Tids, Wait(t)
  PROVE  Typed'
  <1> DEFINE d == [NoStop EXCEPT !.kind = "exited", !.msg = task[t].code]
             s == IF InStop(t) THEN task[t].stop ELSE d
  <1>1. KernelInv /\ TracerType /\ GoodTask(task[t])
    BY DEF Typed, KernelInv, KernelBase, GoodTasks
  <1>2. KernelInv' BY <1>1, ReportKernel DEF Wait
  <1>3. task[t].stop \in StopSet /\ task[t].code \in Int BY <1>1 DEF GoodTask, TaskSet
  <1>4. d \in EventSet /\ d.kind = "exited" BY <1>3 DEF NoStop, EventSet, Kinds, Vals
  <1> HIDE DEF d
  <1>5. s \in EventSet /\ (s.kind = "exec" => s.msg \in Tids)
    BY <1>1, <1>3, <1>4, StopIsEvent DEF GoodTask, StopAgrees, InStop, At
  <1>6. cur' = [NoEvent EXCEPT !.tid = t, !.stop = s] BY DEF Wait, d
  <1> HIDE DEF s
  <1>7. cur' \in CurSet /\ cur'.tid = t /\ cur'.stop = s BY <1>5, <1>6 DEF NoEvent, CurSet
  <1>8. pc' = "handle" /\ UNCHANGED <<tracees, out, root, shutdown, end, todo>> BY DEF Wait
  <1>9. pc' \in PCs BY <1>8 DEF PCs
  <1>10. TracerType' BY <1>1, <1>5, <1>7, <1>8, <1>9, TracerTypeKept DEF TracerType
  <1> QED BY <1>2, <1>10 DEF Typed

LEMMA ExitedTyped ==
  ASSUME Typed, config' = config, Exited
  PROVE  Typed'
  <1> DEFINE t == cur.tid
             code == cur.stop.msg
  <1>1. KernelInv /\ TracerType /\ t \in Tids /\ code \in Int
    BY DEF Typed, TracerType, Exited, Handling, CurSet, EventSet
  <1>2. KernelInv' BY <1>1, SameKernel DEF Exited, kernel
  <1>3. write_exit(out, tracees, t) \in OutSet
    BY <1>1, FlushType, RemoveType DEF write_exit, TracerType
  <1>4. record_exit_status(root, t, code) \in RootSet
    BY <1>1 DEF record_exit_status, RootSet, TracerType
  <1>5. UNCHANGED <<cur, shutdown, todo>> /\ pc' \in {"finish", "wait"}
    BY DEF Exited, Finish
  <1>6. /\ tracees' = tracees \/ tracees' = [tracees EXCEPT ![t] = Absent]
        /\ out' = out \/ out' = write_exit(out, tracees, t)
        /\ root' = root \/ root' = record_exit_status(root, t, code)
        /\ end' = end \/ end' = [ok |-> FALSE, status |-> end.status]
    BY DEF Exited, Finish
  <1>7. tracees' \in [Tids -> TraceeSet] BY <1>1, <1>6, FreshType DEF TracerType
  <1>8. end' \in EndSet BY <1>1, <1>6, FailedEnd DEF TracerType
  <1> QED BY <1>1, <1>2, <1>3, <1>4, <1>5, <1>6, <1>7, <1>8, OtherTyped DEF TracerType, PCs

(* What every handler that fails on its way has in common, and its three   *)
(* kinds: with the records as they were, with the child of a fork added, or*)
(* with a record moved by an exec.                                         *)
LEMMA FailingEnds ==
  ASSUME Failing
  PROVE  /\ pc = "handle" /\ pc' = "finish" /\ end' = [ok |-> FALSE, status |-> end.status]
         /\ UNCHANGED <<kernel, out, cur, shutdown, todo>> /\ InStop(cur.tid)
         /\ cur.stop.kind \notin {"exited", "event_stop"}
  BY DEF Failing, EntryFails, WriteFails, Fails, Finish, AtEntry, AtExit, AtExec, Handling

LeftPlain(r)    == /\ cur.stop.kind \notin {"exec", "exited"} /\ IsTracked /\ root' = root
                   /\ r \in TraceeSet /\ r.known
                   /\ tracees' = [tracees EXCEPT ![cur.tid] = [r EXCEPT !.inStop = TRUE]]
                   /\ \/ cur.stop.kind # "signal" /\ SameTask(Tracee, r)
                      \/ /\ cur.stop.kind = "signal" /\ ~OwnStop(Tracee) /\ ~r.newborn
                         /\ r.sig = cur.stop.sig
LeftForked      == /\ cur.stop.kind = "fork" /\ IsTracked /\ InStop(cur.tid) /\ root' = root
                   /\ tracees' = [add_tracee(tracees, Now.msg) EXCEPT
                                    ![cur.tid] = [Tracee EXCEPT !.inStop = TRUE]]
LeftMigrated(r) == /\ AtExec /\ root' = RootAfterExec
                   /\ r = ExecTracee(Migrated(cur.stop.msg, cur.tid)[cur.tid])
                   /\ tracees' = [Migrated(cur.stop.msg, cur.tid) EXCEPT
                                    ![cur.tid] = [r EXCEPT !.inStop = TRUE]]

LEMMA FailingLeaves ==
  ASSUME TracerType, Failing
  PROVE  (\E r : LeftPlain(r)) \/ LeftForked \/ (\E r : LeftMigrated(r))
  <1> DEFINE r == Tracee
  <1>1. cur.tid \in Tids BY FailingEnds DEF TracerType
  <1>2. r \in TraceeSet /\ r.known BY <1>1, TraceeType, FreshType DEF Tracee
  <1>3. CASE EntryFails
    <2>1. PICK x \in {r, WithoutExec(r), Settled(r, Entered)} : Fails(tracees, x)
      BY <1>3 DEF EntryFails, begin_stages
    <2>2. x \in TraceeSet /\ SameTask(r, x)
      <3> DEFINE e == Entered
      <3> HIDE DEF e, r
      <3>1. /\ WithoutExec(r) \in TraceeSet /\ SameTask(r, WithoutExec(r))
            /\ Settled(r, e) \in TraceeSet /\ SameTask(r, Settled(r, e))
        BY <1>2, SettledIs
      <3>2. SameTask(r, r) BY DEF SameTask
      <3>3. x \in {r, WithoutExec(r), Settled(r, e)} BY <2>1 DEF r, e
      <3> QED BY <1>2, <3>1, <3>2, <3>3
    <2>3. IsTracked /\ cur.stop.kind \notin {"exec", "exited", "signal"} /\ root' = root
      BY <1>3 DEF EntryFails, AtEntry, Handling
    <2>4. tracees' = [tracees EXCEPT ![cur.tid] = [x EXCEPT !.inStop = TRUE]] BY <2>1 DEF Fails
    <2>5. LeftPlain(x) BY <1>2, <2>2, <2>3, <2>4 DEF LeftPlain, SameTask
    <2> QED BY <2>5
  <1>4. CASE AtExit /\ Fails(tracees, r) /\ root' = root
    <2>1. LeftPlain(r) BY <1>2, <1>4 DEF LeftPlain, SameTask, Fails, AtExit, Handling
    <2> QED BY <2>1
  <1>5. CASE Handling({"fork"}) /\ IsTracked /\ InStop(cur.tid) /\ root' = root
             /\ Fails(add_tracee(tracees, Now.msg), Tracee)
    BY <1>5 DEF LeftForked, Fails, Handling
  <1>6. CASE /\ AtExec /\ root' = RootAfterExec
             /\ Fails(Migrated(cur.stop.msg, cur.tid), ExecTracee(Migrated(cur.stop.msg, cur.tid)[cur.tid]))
    BY <1>6 DEF LeftMigrated, Fails
  <1>7. CASE /\ Handling({"signal"}) /\ IsTracked /\ ~OwnStop(Tracee) /\ root' = root
             /\ Fails(tracees, [Tracee EXCEPT !.newborn = FALSE, !.sig = cur.stop.sig])
    <2> DEFINE x == [Tracee EXCEPT !.newborn = FALSE, !.sig = cur.stop.sig]
    <2>1. cur.stop.sig \in Nat BY DEF TracerType, CurSet, EventSet
    <2>2. x \in TraceeSet /\ x.known /\ ~x.newborn /\ x.sig = cur.stop.sig
      BY <1>2, <2>1 DEF TraceeSet
    <2>3. tracees' = [tracees EXCEPT ![cur.tid] = [x EXCEPT !.inStop = TRUE]] BY <1>7 DEF Fails
    <2>4. cur.stop.kind = "signal" BY <1>7 DEF Handling
    <2> HIDE DEF x
    <2>5. LeftPlain(x) BY <1>7, <2>2, <2>3, <2>4 DEF LeftPlain
    <2> QED BY <2>5
  <1> QED BY <1>3, <1>4, <1>5, <1>6, <1>7 DEF Failing, WriteFails

LEMMA LeftTyped ==
  ASSUME Typed, config' = config, Failing
  PROVE  Typed'
  <1>1. TracerType /\ KernelInv BY DEF Typed
  <1>2. /\ pc' = "finish" /\ end' = [ok |-> FALSE, status |-> end.status] /\ cur.tid \in Tids
        /\ UNCHANGED <<kernel, out, cur, shutdown, todo>>
    BY <1>1, FailingEnds DEF TracerType
  <1>3. tracees \in [Tids -> TraceeSet] /\ Tracee \in TraceeSet BY <1>1, <1>2, TraceeType DEF TracerType
  <1>4. end' \in EndSet BY <1>1, <1>2, FailedEnd DEF TracerType
  <1>5. tracees' \in [Tids -> TraceeSet] /\ root' \in RootSet
    <2>1. CASE \E r : LeftPlain(r)
      <3>1. PICK r : LeftPlain(r) BY <2>1
      <3> DEFINE x == [r EXCEPT !.inStop = TRUE]
      <3>2. x \in TraceeSet BY <3>1 DEF LeftPlain, TraceeSet
      <3>3. tracees' = [tracees EXCEPT ![cur.tid] = x] /\ root' = root BY <3>1 DEF LeftPlain
      <3> HIDE DEF x
      <3> QED BY <1>1, <1>3, <3>2, <3>3 DEF TracerType
    <2>2. CASE LeftForked
      <3> DEFINE x == [Tracee EXCEPT !.inStop = TRUE]
                 tr == add_tracee(tracees, Now.msg)
      <3>1. x \in TraceeSet BY <1>3 DEF TraceeSet
      <3>2. tr \in [Tids -> TraceeSet] BY <1>3, FreshType DEF add_tracee
      <3>3. tracees' = [tr EXCEPT ![cur.tid] = x] /\ root' = root BY <2>2 DEF LeftForked
      <3> HIDE DEF x, tr
      <3> QED BY <1>1, <3>1, <3>2, <3>3 DEF TracerType
    <2>3. CASE \E r : LeftMigrated(r)
      <3>1. PICK r : LeftMigrated(r) BY <2>3
      <3> DEFINE x == [r EXCEPT !.inStop = TRUE]
                 tr == Migrated(cur.stop.msg, cur.tid)
      <3>2. cur.stop.msg \in Tids
        BY <1>1, <3>1, FailingEnds DEF LeftMigrated, AtExec, Handling, TracerType
      <3>3. tr \in [Tids -> TraceeSet] BY <1>2, <1>3, <3>2, MovedType
      <3>4. tracees' = [tr EXCEPT ![cur.tid] = x] /\ root' = RootAfterExec /\ r = ExecTracee(tr[cur.tid])
        BY <3>1 DEF LeftMigrated
      <3> HIDE DEF tr
      <3>5. r \in TraceeSet BY <1>2, <3>3, <3>4, FreshType DEF ExecTracee
      <3>6. x \in TraceeSet BY <3>5 DEF TraceeSet
      <3> HIDE DEF x
      <3> QED BY <1>1, <1>2, <3>3, <3>4, <3>6, RootAfterType DEF TracerType
    <2> QED BY <1>1, <2>1, <2>2, <2>3, FailingLeaves
  <1> QED BY <1>2, <1>4, <1>5, GiveUpTyped

LEMMA FailingTyped ==
  ASSUME Typed, config' = config,
         LoopEnds \/ Block \/ WaitFails \/ ListenFails \/ Untracked \/ RequestFails
         \/ ExitWriteFails \/ ResumeTooLate
  PROVE  Typed'
  <1>1. TracerType BY DEF Typed
  <1>2. /\ UNCHANGED <<kernel, out, cur, root, shutdown, todo>>
        /\ pc' \in {"finish", "wait", "blocked"}
    BY DEF LoopEnds, Block, WaitFails, ListenFails, Untracked, RequestFails, ExitWriteFails, ResumeTooLate, Finish
  <1>3. end' \in EndSet
    <2>1. CASE LoopEnds BY <1>1, <2>1 DEF LoopEnds, Finish, EndSet, TracerType, RootSet
    <2>2. CASE WaitFails \/ ListenFails \/ RequestFails \/ ExitWriteFails
      <3>1. end' = [ok |-> FALSE, status |-> end.status]
        BY <2>2 DEF WaitFails, ListenFails, RequestFails, ExitWriteFails, Finish
      <3> QED BY <1>1, <3>1, FailedEnd DEF TracerType
    <2>3. CASE Block \/ Untracked \/ ResumeTooLate
      BY <1>1, <2>3 DEF Block, Untracked, ResumeTooLate, TracerType
    <2> QED BY <2>1, <2>2, <2>3
  <1>4. tracees' \in [Tids -> TraceeSet]
    <2>1. CASE RequestFails
      <3> DEFINE M == [Tracee EXCEPT !.inStop = TRUE]
      <3>1. cur.tid \in Tids BY <1>1, <2>1 DEF RequestFails, Handling, TracerType
      <3>2. M \in TraceeSet BY <1>1, <3>1, TraceeType DEF TraceeSet
      <3>3. tracees' = tracees \/ tracees' = [tracees EXCEPT ![cur.tid] = M]
        BY <2>1 DEF RequestFails
      <3> HIDE DEF M
      <3> QED BY <1>1, <3>2, <3>3 DEF TracerType
    <2>2. CASE ExitWriteFails
      <3>1. tracees' = tracees \/ tracees' = [tracees EXCEPT ![cur.tid].inStop = FALSE]
        BY <2>2 DEF ExitWriteFails
      <3> QED BY <1>1, <3>1, LeftType DEF TracerType
    <2>3. CASE LoopEnds \/ Block \/ WaitFails \/ ListenFails \/ Untracked \/ ResumeTooLate
      BY <1>1, <2>3 DEF LoopEnds, Block, WaitFails, ListenFails, Untracked, ResumeTooLate, TracerType
    <2> QED BY <2>1, <2>2, <2>3
  <1>5. root' \in RootSet BY <1>1, <1>2 DEF TracerType
  <1> QED BY <1>2, <1>3, <1>4, <1>5, GiveUpTyped

LEMMA NoMemoryTyped ==
  ASSUME Typed, Held, config' = config, NoMemory
  PROVE  Typed'
  <1>1. KernelInv /\ TracerType /\ GoodTasks BY DEF Typed, KernelInv, KernelBase
  <1>2. /\ UNCHANGED <<out, cur, root, shutdown, todo>> /\ pc' = "finish"
        /\ end' = [ok |-> FALSE, status |-> end.status]
    BY DEF NoMemory, Finish
  <1>3. end' \in EndSet BY <1>1, <1>2 DEF EndSet, TracerType
  <1>4. cur.tid \in Tids BY <1>1 DEF NoMemory, Handling, TracerType
  <1> DEFINE M == [Tracee EXCEPT !.inStop = TRUE]
  <1>5. M \in TraceeSet BY <1>1, <1>4, TraceeType DEF TraceeSet
  <1>6. \/ tracees' = tracees
        \/ tracees' = [tracees EXCEPT ![cur.tid] = M]
        \/ tracees' = [tracees EXCEPT ![cur.stop.msg] = Absent, ![cur.tid] = Absent]
    BY DEF NoMemory
  <1> HIDE DEF M
  <1>7. tracees' \in [Tids -> TraceeSet] BY <1>1, <1>5, <1>6, FreshType DEF TracerType
  <1>8. KernelInv'
    <2>1. \/ UNCHANGED kernel
          \/ task' = Killed({Now.msg}) /\ made' = made
          \/ /\ pc = "handle" /\ cur.stop.kind = "fork" /\ InStop(cur.tid)
             /\ PtraceDetach(Now.msg, 0)
      BY DEF NoMemory, Handling
    <2>2. CASE UNCHANGED kernel BY <1>1, <2>2, SameKernel DEF kernel
    <2>3. CASE task' = Killed({Now.msg}) /\ made' = made
      BY <1>1, <2>3, KilledEffect, PlainKernel
    <2>4. CASE /\ pc = "handle" /\ cur.stop.kind = "fork" /\ InStop(cur.tid)
               /\ PtraceDetach(Now.msg, 0)
      <3>1. At(task[cur.tid], "fork") \/ At(task[cur.tid], "exec")
        BY <2>4 DEF Held, HeldTask, At, InStop
      <3>2. Now.msg \in Tids BY <1>1, <1>4, <3>1 DEF GoodTasks, GoodTask, StopAgrees, Now
      <3>3. 0 \in Nat OBVIOUS
      <3>4. SetGoing(Now.msg, "free", task') /\ made' = made
        BY <1>1, <2>4, <3>2, <3>3, DetachEffect
      <3> QED BY <1>1, <3>2, <3>4, GoingKernel
    <2> QED BY <2>1, <2>2, <2>3, <2>4
  <1> QED BY <1>1, <1>2, <1>3, <1>7, <1>8, OtherTyped DEF TracerType, PCs

LEMMA ResumeTyped ==
  ASSUME Typed, config' = config, Resume
  PROVE  Typed'
  <1> DEFINE t == cur.tid
             h == ResumeRequest(tracees[t])
             x == [tracees[t] EXCEPT !.inStop = FALSE, !.sig = 0]
  <1>1. /\ KernelInv /\ TracerType /\ GoodTasks /\ t \in Tids /\ cur.deliver \in Nat
        /\ tracees \in [Tids -> TraceeSet]
    BY DEF Typed, TracerType, Resume, KernelInv, KernelBase, CurSet
  <1>2. KernelInv'
    <2>1. CASE cur.listen BY <1>1, <2>1, ListenKernel DEF Resume
    <2>2. CASE ~cur.listen
      <3>1. PtraceResume(t, cur.deliver, h) BY <2>2 DEF Resume
      <3>2. h \in {"CONT", "SYSCALL", "free"} BY ResumeRequestType
      <3> HIDE DEF h
      <3>3. SetGoing(t, h, task') /\ made' = made BY <1>1, <3>1, <3>2, ResumeEffect
      <3> QED BY <1>1, <3>3, GoingKernel
    <2> QED BY <2>1, <2>2
  <1>3. tracees' = [tracees EXCEPT ![t] = x] BY <1>1 DEF Resume, TraceeSet
  <1>4. x \in TraceeSet BY <1>1, ZenonT(40) DEF TraceeSet
  <1>5. /\ pc' \in {"finish", "wait"} /\ UNCHANGED <<out, cur, root, shutdown, todo>>
        /\ end' = end \/ end' = [ok |-> TRUE, status |-> 128 + shutdown]
    BY DEF Resume, Finish
  <1>6. end' \in EndSet
    <2>1. end \in EndSet /\ 128 + shutdown \in Int BY <1>1 DEF TracerType
    <2>2. [ok |-> TRUE, status |-> 128 + shutdown] \in EndSet BY <2>1 DEF EndSet
    <2> QED BY <1>5, <2>1, <2>2
  <1> HIDE DEF x
  <1>7. tracees' \in [Tids -> TraceeSet] BY <1>1, <1>3, <1>4
  <1> QED BY <1>1, <1>2, <1>5, <1>6, <1>7, OtherTyped DEF TracerType, PCs

(* The steps that do not touch the records. *)
LEMMA RestTyped ==
  ASSUME Typed, config' = config, KernelInv', UNCHANGED <<tracees, out, cur, root>>,
         pc' = pc \/ pc' \in PCs \ {"handle", "resume", "detach_wait"},
         shutdown' \in Nat, end' \in EndSet, todo' \subseteq Tids
  PROVE  Typed'
  BY OtherTyped DEF Typed, TracerType

LEMMA ShutdownTyped ==
  ASSUME Typed, config' = config, NEW s \in ShutdownSignals, ShutdownArrives(s)
  PROVE  Typed'
  <1>1. KernelInv /\ TracerType /\ config \in Configs BY DEF Typed, KernelInv, KernelBase
  <1>2. s \in {2, 15} BY <1>1, TracerAssumption DEF ShutdownSignals
  <1>3. KernelInv' BY <1>1, SameKernel DEF ShutdownArrives, kernel
  <1>4. /\ UNCHANGED <<tracees, out, cur, root, todo>> /\ shutdown' = s
        /\ pc' = pc \/ pc' = "finish"
        /\ end' = end \/ end' = [ok |-> TRUE, status |-> 128 + s]
    BY DEF ShutdownArrives, Finish
  <1>5. end' \in EndSet
    <2>1. end \in EndSet /\ 128 + s \in Int BY <1>1, <1>2 DEF TracerType
    <2>2. [ok |-> TRUE, status |-> 128 + s] \in EndSet BY <2>1 DEF EndSet
    <2> QED BY <1>4, <2>1, <2>2
  <1>6. todo' \subseteq Tids /\ shutdown' \in Nat BY <1>1, <1>2, <1>4 DEF TracerType
  <1> QED BY <1>3, <1>4, <1>5, <1>6, RestTyped DEF PCs

LEMMA QuietTyped ==
  ASSUME Typed, config' = config, CleanUp \/ AllReaped \/ Detached
  PROVE  Typed'
  <1>1. KernelInv /\ TracerType BY DEF Typed
  <1>2. /\ UNCHANGED <<kernel, tracees, out, cur, root, shutdown, end, todo>>
        /\ pc' \in {"done", "detach", "kill"}
    BY DEF CleanUp, AllReaped, Detached, Done
  <1>3. KernelInv' BY <1>1, <1>2, SameKernel DEF kernel
  <1> QED BY <1>1, <1>2, <1>3, RestTyped DEF PCs, TracerType

LEMMA TrapTyped ==
  ASSUME Typed, config' = config,
         (\E t \in Tids : InterruptOne(t)) \/ InterruptRunning \/ KillAll
  PROVE  Typed'
  <1>1. KernelInv /\ TracerType /\ GoodTasks BY DEF Typed, KernelInv, KernelBase
  <1>2. /\ UNCHANGED <<tracees, out, cur, root, shutdown, end>> /\ made' = made
        /\ pc' = pc \/ pc' \in {"wait", "detaching", "reap"}
        /\ todo' \subseteq todo \cup Tids
        /\ \/ \E T : task' = Trapped(T)
           \/ task' = Killed(ToKill)
    <2>1. CASE \E t \in Tids : InterruptOne(t) BY <2>1 DEF InterruptOne
    <2>2. CASE InterruptRunning BY <2>2 DEF InterruptRunning, ToDetach, Known
    <2>3. CASE KillAll BY <2>3 DEF KillAll
    <2> QED BY <2>1, <2>2, <2>3
  <1>3. Everyone(task') BY <1>1, <1>2, TrappedEffect, KilledEffect
  <1>4. KernelInv' BY <1>1, <1>2, <1>3, PlainKernel
  <1> QED BY <1>1, <1>2, <1>4, RestTyped DEF PCs, TracerType

LEMMA ReapTyped ==
  ASSUME Typed, config' = config, NEW t \in Tids, Reap(t)
  PROVE  Typed'
  <1>1. KernelInv /\ TracerType BY DEF Typed
  <1>2. KernelInv' BY <1>1, ReportKernel DEF Reap
  <1>3. UNCHANGED tracer BY DEF Reap
  <1> QED BY <1>1, <1>2, <1>3, RestTyped DEF TracerType, tracer

LEMMA DetachSignalType ==
  ASSUME NEW stop \in StopSet
  PROVE  DetachSignal(stop) \in Nat
  BY DEF DetachSignal, StopSet

LEMMA DetachKernel ==
  ASSUME KernelInv, config' = config, NEW t \in Tids, NEW s \in Nat, PtraceDetach(t, s)
  PROVE  KernelInv'
  <1>1. GoodTasks BY DEF KernelInv, KernelBase
  <1>2. SetGoing(t, "free", task') /\ made' = made BY <1>1, DetachEffect
  <1> QED BY <1>2, GoingKernel

LEMMA DetachTyped ==
  ASSUME Typed, config' = config,
         \/ \E t \in Tids : DetachStopped(t) \/ DetachNext(t)
         \/ DetachWaited
  PROVE  Typed'
  <1>1. KernelInv /\ TracerType /\ GoodTasks /\ todo \subseteq Tids
    BY DEF Typed, KernelInv, KernelBase, TracerType
  <1>2. ASSUME NEW t \in Tids, DetachStopped(t) PROVE Typed'
    <2>1. tracees[t].sig \in Nat BY <1>1 DEF TracerType, TraceeSet
    <2>2. KernelInv'
      BY <1>1, <1>2, <2>1, DetachKernel, SameKernel DEF DetachStopped, kernel
    <2>3. UNCHANGED <<tracees, out, pc, cur, root, shutdown, end>> /\ todo' \subseteq todo
      BY <1>2 DEF DetachStopped
    <2> QED BY <1>1, <2>2, <2>3, RestTyped DEF TracerType
  <1>3. ASSUME NEW t \in Tids, DetachNext(t) PROVE Typed'
    <2>1. KernelInv' BY <1>1, <1>3, SameKernel DEF DetachNext, kernel
    <2>2. /\ UNCHANGED <<tracees, out, root, shutdown, end, todo>> /\ pc' = "detach_wait"
          /\ cur' = [NoEvent EXCEPT !.tid = t]
      BY <1>3 DEF DetachNext
    <2>3. cur' \in CurSet /\ cur'.tid = t BY <2>2, NoStopType, StopIsEvent DEF NoEvent, CurSet
    <2>4. TracerType' BY <1>1, <2>2, <2>3, TracerTypeKept DEF TracerType, PCs
    <2> QED BY <2>1, <2>4 DEF Typed
  <1>4. ASSUME DetachWaited PROVE Typed'
    <2> DEFINE t == cur.tid
    <2>1. t \in Tids BY <1>1, <1>4 DEF DetachWaited, TracerType
    <2>2. task[t].stop \in StopSet BY <1>1, <2>1 DEF GoodTasks, TaskSet
    <2>3. DetachSignal(task[t].stop) \in Nat BY <2>2, DetachSignalType
    <2>4. \/ PtraceDetach(t, DetachSignal(task[t].stop))
          \/ Waitable(t) /\ task' = Report(t) /\ made' = made
          \/ task' = task /\ made' = made
      BY <1>4 DEF DetachWaited
    <2>5. KernelInv' BY <1>1, <2>1, <2>3, <2>4, DetachKernel, ReportKernel, SameKernel
    <2>6. /\ UNCHANGED <<tracees, out, cur, root, shutdown, end>> /\ pc' = "detaching"
          /\ todo' \subseteq todo
      BY <1>4 DEF DetachWaited
    <2> QED BY <1>1, <2>5, <2>6, RestTyped DEF TracerType, PCs
  <1> QED BY <1>2, <1>3, <1>4

LEMMA TracerGoneTyped ==
  ASSUME Typed, config' = config, NEW t \in Tids, TracerGone(t)
  PROVE  Typed'
  <1>1. KernelInv /\ TracerType /\ GoodTasks BY DEF Typed, KernelInv, KernelBase
  <1>2. task[t].stop \in StopSet BY <1>1 DEF GoodTasks, TaskSet
  <1>3. DetachSignal(task[t].stop) \in Nat BY <1>2, DetachSignalType
  <1>4. KernelInv'
    <2>1. CASE PtraceDetach(t, DetachSignal(task[t].stop)) BY <1>1, <1>3, <2>1, DetachKernel
    <2>2. CASE ~PtraceDetach(t, DetachSignal(task[t].stop))
      <3>1. Alive(t) /\ task' = [task EXCEPT ![t].how = "free", ![t].trap = FALSE]
            /\ made' = made
        BY <2>2 DEF TracerGone
      <3>2. /\ task' \in [Tids -> TaskSet] /\ \A u \in Tids : GoodTask(task'[u])
            /\ \A u \in Tids : /\ task'[u].tg = task[u].tg /\ task'[u].st = task[u].st
                               /\ task'[u].stop = task[u].stop /\ task'[u].child = task[u].child
        BY <1>1, <3>1, LetGoEffect
      <3>3. \A u \in Tids : GoodTask(task'[u]) /\ Kept(task[u], task'[u])
        BY <3>2 DEF Kept, At
      <3> QED BY <1>1, <3>1, <3>2, <3>3, KeptStep DEF KernelInv, KernelBase
    <2> QED BY <2>1, <2>2
  <1>5. UNCHANGED tracer BY DEF TracerGone
  <1> QED BY <1>1, <1>4, <1>5, RestTyped DEF TracerType, tracer

LEMMA TasksTyped ==
  ASSUME Typed, TasksStep
  PROVE  Typed'
  <1>1. KernelInv' BY TasksKeep DEF Typed
  <1>2. config' = config /\ UNCHANGED tracer BY DEF TasksStep
  <1> QED BY <1>1, <1>2, RestTyped DEF Typed, TracerType, tracer

-----------------------------------------------------------------------------
(* Held and NoneFree. *)
LEMMA PlainHow ==
  ASSUME NEW r, NEW s, Plain(r, s)
  PROVE  s.how = r.how
  BY DEF Plain, Stays, Dies, Moves

LEMMA PlainHeld ==
  ASSUME NEW r, NEW s, Plain(r, s), NEW stop, HeldTask(r, stop)
  PROVE  HeldTask(s, stop)
  BY DEF Plain, Stays, Dies, Moves, Living, HeldTask, At

LEMMA TasksHeld ==
  ASSUME Typed, Held, NoneFree, TasksStep
  PROVE  Held' /\ NoneFree'
  <1>1. KernelBase /\ Groups(task) /\ GoodTasks /\ TracerType
    BY DEF Typed, KernelInv, KernelBase
  <1>2. /\ UNCHANGED <<pc, cur>>
        /\ \/ Everyone(task')
           \/ \E t, c \in Tids : Forked(t, c, task')
           \/ \E t \in Tids : TakenOver(t, task[t].tg, task')
    BY <1>1, TasksEffect DEF TasksStep, tracer
  <1>3. NoneFree'
    <2> SUFFICES ASSUME pc \in Loop, NEW u \in Tids PROVE task'[u].how # "free"
      BY <1>2 DEF NoneFree, Loop
    <2>1. \A t \in Tids : task[t].how # "free" BY DEF NoneFree
    <2>2. CASE Everyone(task') BY <2>1, <2>2, PlainHow DEF Everyone
    <2>3. CASE \E t, c \in Tids : Forked(t, c, task') BY <2>1, <2>3 DEF Forked
    <2>4. CASE \E t \in Tids : TakenOver(t, task[t].tg, task') BY <2>1, <2>4 DEF TakenOver
    <2> QED BY <1>2, <2>2, <2>3, <2>4
  <1>4. Held'
    <2> SUFFICES ASSUME pc \in {"handle", "resume"}
                 PROVE  HeldTask(task'[cur.tid], cur.stop)
      BY <1>2 DEF Held, HeldTask, At
    <2>1. cur.tid \in Tids /\ HeldTask(task[cur.tid], cur.stop) /\ \A t \in Tids : task[t].how # "free"
      BY <1>1 DEF Held, TracerType, NoneFree, Loop
    <2>2. CASE Everyone(task') BY <2>1, <2>2, PlainHeld DEF Everyone
    <2>3. CASE \E t, c \in Tids : Forked(t, c, task')
      <3>1. task'[cur.tid] = task[cur.tid] BY <2>1, <2>3 DEF Forked, HeldTask, At
      <3> QED BY <2>1, <3>1
    <2>4. ASSUME NEW t \in Tids, TakenOver(t, task[t].tg, task')
          PROVE  HeldTask(task'[cur.tid], cur.stop)
      <3>1. task[t].st = "exec" /\ task[t].tg \in Tids BY <1>1, <2>4 DEF TakenOver, GoodTasks, GoodTask
      <3>2. task[task[t].tg].st # "gone" BY <1>1, <3>1 DEF Groups, Grouped
      <3>3. cur.tid # t BY <2>1, <3>1 DEF HeldTask, At
      <3>4. CASE cur.tid = task[t].tg
        BY <2>1, <2>4, <3>2, <3>3, <3>4 DEF TakenOver, HeldTask
      <3>5. CASE cur.tid # task[t].tg
        <4>1. task'[cur.tid] = task[cur.tid] BY <2>1, <2>4, <3>3, <3>5 DEF TakenOver
        <4> QED BY <2>1, <4>1
      <3> QED BY <3>4, <3>5
    <2> QED BY <1>2, <2>2, <2>3, <2>4
  <1> QED BY <1>3, <1>4

HandsOn == /\ pc = "handle" /\ task' = task /\ pc' = "resume"
           /\ cur'.tid = cur.tid /\ cur'.stop = cur.stop

LEMMA ToResumeHandsOn ==
  ASSUME TracerType, pc = "handle", NEW tr, NEW r, NEW o, NEW d, NEW l,
         ToResume(tr, r, o, d, l)
  PROVE  HandsOn
  <1>1. task' = task /\ pc' = "resume" BY DEF ToResume, kernel
  <1>2. cur' = [cur EXCEPT !.deliver = d, !.listen = l] BY DEF ToResume
  <1>3. cur'.tid = cur.tid /\ cur'.stop = cur.stop BY <1>2 DEF TracerType, CurSet
  <1> QED BY <1>1, <1>3 DEF HandsOn

LEMMA HandlerHandsOn ==
  ASSUME TracerType,
         \/ SyscallEntry \/ SyscallExit \/ EventStop \/ ForkStop \/ ExecStop
         \/ NewbornStop \/ SignalStop \/ GroupStop
  PROVE  HandsOn
  <1>1. CASE SyscallEntry BY <1>1, ToResumeHandsOn DEF SyscallEntry, AtEntry, Handling
  <1>2. CASE SyscallExit BY <1>2, ToResumeHandsOn DEF SyscallExit, AtExit, Handling
  <1>3. CASE EventStop BY <1>3, ToResumeHandsOn DEF EventStop, Handling
  <1>4. CASE ForkStop BY <1>4, ToResumeHandsOn DEF ForkStop, Handling
  <1>5. CASE ExecStop BY <1>5, ToResumeHandsOn DEF ExecStop, AtExec, Handling
  <1>6. CASE NewbornStop BY <1>6, ToResumeHandsOn DEF NewbornStop, Handling
  <1>7. CASE SignalStop BY <1>7, ToResumeHandsOn DEF SignalStop, Handling
  <1>8. CASE GroupStop BY <1>8, ToResumeHandsOn DEF GroupStop, Handling
  <1> QED BY <1>1, <1>2, <1>3, <1>4, <1>5, <1>6, <1>7, <1>8

LEMMA TracerHeld ==
  ASSUME Typed, Held, NoneFree, TracerStep \/ Outside
  PROVE  Held' /\ NoneFree'
  <1>1. KernelBase /\ Groups(task) /\ GoodTasks /\ TracerType /\ Root \in Tids
    BY RootType DEF Typed, KernelInv, KernelBase
  <1>2. pc' \notin Loop => Held' /\ NoneFree' BY DEF Held, NoneFree, Loop
  <1>3. pc \in Loop => \A t \in Tids : task[t].how # "free" BY DEF NoneFree
  <1>4. task' = task /\ pc \in Loop => NoneFree' BY DEF NoneFree
  <1>5. pc' \notin {"handle", "resume"} => Held' BY DEF Held
  <1>6. CASE StartLaunch
    <2>1. pc \in Loop /\ pc' \in {"wait", "finish"} BY <1>6 DEF StartLaunch, Loop
    <2>2. CASE InStop(Root)
      <3> DEFINE h == ResumeRequest(tracees[Root])
      <3>1. PtraceResume(Root, 0, h) BY <1>6, <2>2 DEF StartLaunch
      <3>2. h \in {"CONT", "SYSCALL"} /\ 0 \in Nat BY DEF ResumeRequest
      <3> HIDE DEF h
      <3>3. SetGoing(Root, h, task') BY <1>1, <3>1, <3>2, ResumeEffect
      <3>4. \A u \in Tids : task'[u].how # "free"
        BY <1>3, <2>1, <3>2, <3>3, PlainHow DEF SetGoing, GoesOn, Dies
      <3> QED BY <1>5, <2>1, <3>4 DEF NoneFree
    <2>3. CASE ~InStop(Root) BY <1>2, <1>6, <2>3 DEF StartLaunch, Loop
    <2> QED BY <2>2, <2>3
  <1>7. CASE Resume
    <2> DEFINE t == cur.tid
    <2>1. pc \in Loop /\ pc' \in {"wait", "finish"} /\ t \in Tids /\ cur.deliver \in Nat
      BY <1>1, <1>7 DEF Resume, Loop, Finish, TracerType, CurSet
    <2>2. CASE cur.listen
      <3>1. PtraceListen(t) BY <1>7, <2>2 DEF Resume
      <3>2. Listens(task[t], task'[t]) /\ \A u \in Tids \ {t} : task'[u] = task[u]
        BY <1>1, <2>1, <3>1, ListenEffect
      <3>3. \A u \in Tids : task'[u].how # "free" BY <1>3, <2>1, <3>2 DEF Listens
      <3> QED BY <1>5, <2>1, <3>3 DEF NoneFree
    <2>3. CASE ~cur.listen
      <3> DEFINE h == ResumeRequest(tracees[t])
      <3>1. PtraceResume(t, cur.deliver, h) BY <1>7, <2>3 DEF Resume
      <3>2. h \in {"CONT", "SYSCALL"} BY DEF ResumeRequest
      <3> HIDE DEF h
      <3>3. SetGoing(t, h, task') BY <1>1, <2>1, <3>1, <3>2, ResumeEffect
      <3>4. \A u \in Tids : task'[u].how # "free"
        BY <1>3, <2>1, <3>2, <3>3, PlainHow DEF SetGoing, GoesOn, Dies
      <3> QED BY <1>5, <2>1, <3>4 DEF NoneFree
    <2> QED BY <2>2, <2>3
  <1>8. ASSUME NEW t \in Tids, InterruptOne(t) PROVE Held' /\ NoneFree'
    <2>1. pc = "interrupt" /\ pc' \in {"wait", "interrupt"} /\ task' = Trapped({t})
      BY <1>8 DEF InterruptOne
    <2>2. Everyone(task') BY <1>1, <2>1, TrappedEffect
    <2>3. \A u \in Tids : task'[u].how # "free"
      BY <1>3, <2>1, <2>2, PlainHow DEF Everyone, Loop
    <2> QED BY <1>5, <2>1, <2>3 DEF NoneFree
  <1>9. ASSUME NEW t \in Tids, Wait(t) PROVE Held' /\ NoneFree'
    <2>1. Waitable(t) /\ task' = Report(t) /\ pc \in Loop BY <1>9 DEF Wait, Loop
    <2>2. Reported(task[t], task'[t]) /\ \A u \in Tids \ {t} : task'[u] = task[u]
      BY <1>1, <2>1, ReportEffect
    <2>3. \A u \in Tids : task'[u].how # "free" BY <1>3, <2>1, <2>2 DEF Reported
    <2> DEFINE d == [NoStop EXCEPT !.kind = "exited", !.msg = task[t].code]
               s == IF InStop(t) THEN task[t].stop ELSE d
    <2>4. d.kind = "exited" /\ d.msg = task[t].code BY DEF NoStop
    <2> HIDE DEF d
    <2>5. cur' = [NoEvent EXCEPT !.tid = t, !.stop = s] BY <1>9 DEF Wait, d
    <2> HIDE DEF s
    <2>6. cur'.tid = t /\ cur'.stop = s BY <2>5 DEF NoEvent
    <2>7. HeldTask(task'[t], s)
      <3>1. CASE InStop(t)
        <4>1. s = task[t].stop /\ task[t].stop.kind # "exited"
          BY <1>1, <3>1, StopIsEvent DEF s, GoodTasks, TaskSet
        <4> QED BY <2>2, <3>1, <4>1 DEF HeldTask, Reported, InStop
      <3>2. CASE ~InStop(t)
        BY <2>2, <2>4, <3>2 DEF s, HeldTask, Reported, InStop
      <3> QED BY <3>1, <3>2
    <2>8. Held' BY <2>6, <2>7 DEF Held, HeldTask, At
    <2> QED BY <2>3, <2>8 DEF NoneFree
  <1>10. CASE \/ SyscallEntry \/ SyscallExit \/ EventStop \/ ForkStop \/ ExecStop
              \/ NewbornStop \/ SignalStop \/ GroupStop
    <2>1. HandsOn BY <1>1, <1>10, HandlerHandsOn
    <2>3. Held' BY <2>1 DEF HandsOn, Held, HeldTask, At
    <2>4. NoneFree' BY <1>4, <2>1 DEF HandsOn, Loop
    <2> QED BY <2>3, <2>4
  <1>11. CASE \E s \in ShutdownSignals : ShutdownArrives(s)
    <2>1. task' = task /\ cur' = cur /\ (pc' = pc \/ pc' = "finish")
      BY <1>11 DEF ShutdownArrives, Finish, kernel
    <2>2. pc' = "finish" => Held' /\ NoneFree' BY <1>2 DEF Loop
    <2> QED BY <2>1, <2>2 DEF Held, NoneFree
  <1>12. CASE \/ LoopEnds \/ Block \/ WaitFails \/ ListenFails \/ Exited \/ Untracked \/ RequestFails
              \/ ExitWriteFails \/ ResumeTooLate
    <2>1. task' = task /\ pc \in Loop /\ pc' \in {"finish", "wait", "blocked"}
      BY <1>12 DEF LoopEnds, Block, WaitFails, ListenFails, Exited, Untracked, RequestFails, ExitWriteFails,
                   ResumeTooLate, Finish, kernel, Handling, Loop
    <2> QED BY <1>4, <1>5, <2>1
  <1>14. CASE Failing BY <1>2, <1>14, FailingEnds DEF Loop
  <1>13. CASE \/ NoMemory \/ CleanUp \/ KillAll \/ AllReaped \/ InterruptRunning
              \/ DetachWaited \/ Detached
              \/ \E t \in Tids : Reap(t) \/ DetachStopped(t) \/ DetachNext(t) \/ TracerGone(t)
    <2>1. pc' \notin Loop
      BY <1>13 DEF NoMemory, CleanUp, KillAll, AllReaped, InterruptRunning, DetachWaited,
                   Detached, Reap, DetachStopped, DetachNext, TracerGone, Done, Finish,
                   tracer, Loop
    <2> QED BY <1>2, <2>1
  <1> QED BY <1>6, <1>7, <1>8, <1>9, <1>10, <1>11, <1>12, <1>13, <1>14
          DEF TracerStep, Outside, Failing

(* Only begin_syscall allocates. *)
LEMMA HeapNext ==
  ASSUME HeapType, [Next]_vars
  PROVE  HeapType'
  <1>1. CASE heap' \subseteq heap BY <1>1, FS_Subset DEF HeapType
  <1>2. CASE heap' \subseteq heap \cup {NewString}
    <2>1. IsFiniteSet(heap \cup {NewString}) BY FS_AddElement DEF HeapType
    <2> QED BY <1>2, <2>1, FS_Subset, NewStringFound DEF HeapType
  <1>3. CASE SyscallEntry BY <1>2, <1>3 DEF SyscallEntry, begin_heap, captured
  <1>4. CASE EntryFails
    <2>1. (\E f : heap' = heap \ f) \/ heap' = heap BY <1>4 DEF EntryFails
    <2> QED BY <1>1, <2>1
  <1>5. CASE \/ SyscallExit \/ EventStop \/ ForkStop \/ ExecStop \/ NewbornStop \/ SignalStop
             \/ GroupStop \/ StartLaunch \/ Exited \/ NoMemory \/ Resume \/ WriteFails
    <2>1. (\E f : heap' = heap \ f) \/ (\E f, g : heap' = (heap \ f) \ g) \/ heap' = heap
      BY <1>5 DEF SyscallExit, finish_heap, EventStop, ForkStop, ExecStop, NewbornStop, SignalStop,
             GroupStop, StartLaunch, Exited, release_tracee, NoMemory, Resume, WriteFails
    <2> QED BY <1>1, <2>1
  <1>6. CASE \/ LoopEnds \/ Block \/ WaitFails \/ ListenFails \/ Untracked \/ RequestFails
             \/ ExitWriteFails \/ ResumeTooLate \/ KillAll \/ InterruptRunning \/ DetachWaited
             \/ UNCHANGED vars \/ TasksStep \/ Outside
             \/ \E t \in Tids : \/ InterruptOne(t) \/ Wait(t) \/ Reap(t)
                                 \/ DetachStopped(t) \/ DetachNext(t)
    <2>1. heap' = heap
      BY <1>6 DEF LoopEnds, Block, WaitFails, ListenFails, Untracked, RequestFails, ExitWriteFails,
             ResumeTooLate, KillAll, InterruptRunning, DetachWaited, vars, TasksStep, Outside,
             ShutdownArrives, TracerGone, InterruptOne, Wait, Reap, DetachStopped, DetachNext, tracer
    <2> QED BY <1>1, <2>1
  <1>7. CASE CleanUp \/ AllReaped \/ Detached
    <2>1. (\E f : heap' = heap \ f) \/ heap' = heap
      BY <1>7 DEF CleanUp, AllReaped, Detached, Done, release_all_tracees
    <2> QED BY <1>1, <2>1
  <1> QED BY <1>3, <1>4, <1>5, <1>6, <1>7 DEF Next, TracerStep, Terminated, Stopped

(* All of it, for any step. *)
Sound == Typed /\ Held /\ NoneFree /\ HeapType

LEMMA SoundInit ==
  ASSUME Init
  PROVE  Sound
  <1>1. Typed BY TypedInit
  <1>2. pc \in {"start", "interrupt"} BY DEF Init
  <1>3. Held BY <1>2 DEF Held
  <1>5. HeapType BY FS_EmptySet DEF Init, HeapType
  <1>4. \A t \in Tids : task[t].how # "free"
    <2> DEFINE r == [NoTask EXCEPT !.st = "user", !.tg = Root]
    <2>1. NoTask.how = "CONT" /\ r.how = "CONT" BY DEF NoTask
    <2>2. [Halt(r, "signal", SIGSTOP, 0, "auto") EXCEPT !.seen = TRUE].how = "CONT"
      BY DEF Halt, NoTask
    <2>3. \A t \in Tids : \/ task[t] = NoTask \/ task[t] = r
                          \/ task[t] = [Halt(r, "signal", SIGSTOP, 0, "auto") EXCEPT !.seen = TRUE]
      BY DEF Init, KernelInit
    <2> HIDE DEF r
    <2> QED BY <2>1, <2>2, <2>3
  <1> QED BY <1>1, <1>3, <1>4, <1>5 DEF Sound, NoneFree

LEMMA SoundNext ==
  ASSUME Sound, [Next]_vars
  PROVE  Sound'
  <1>1. Typed /\ Held /\ NoneFree /\ HeapType BY DEF Sound
  <1>6. HeapType' BY <1>1, HeapNext
  <1>2. CASE TracerStep
    <2>1. config' = config BY <1>2 DEF TracerStep
    <2>2. Typed'
      <3>1. CASE \/ StartLaunch \/ Exited \/ NoMemory \/ Resume
        BY <1>1, <2>1, <3>1, StartTyped, ExitedTyped, NoMemoryTyped, ResumeTyped
      <3>2. CASE \/ SyscallEntry \/ SyscallExit \/ EventStop \/ ForkStop \/ ExecStop
                 \/ NewbornStop \/ SignalStop \/ GroupStop
        BY <1>1, <2>1, <3>2, HandlerTyped
      <3>3. CASE LoopEnds \/ Block \/ WaitFails \/ ListenFails \/ Untracked \/ RequestFails
                 \/ ExitWriteFails \/ ResumeTooLate
        BY <1>1, <2>1, <3>3, FailingTyped
      <3>8. CASE Failing BY <1>1, <2>1, <3>8, LeftTyped
      <3>4. CASE CleanUp \/ AllReaped \/ Detached BY <1>1, <2>1, <3>4, QuietTyped
      <3>5. CASE (\E t \in Tids : InterruptOne(t)) \/ InterruptRunning \/ KillAll
        BY <1>1, <2>1, <3>5, TrapTyped
      <3>6. CASE \E t \in Tids : Wait(t) \/ Reap(t) BY <1>1, <2>1, <3>6, WaitTyped, ReapTyped
      <3>7. CASE \/ \E t \in Tids : DetachStopped(t) \/ DetachNext(t)
                 \/ DetachWaited
        BY <1>1, <2>1, <3>7, DetachTyped
      <3> QED BY <1>2, <3>1, <3>2, <3>3, <3>4, <3>5, <3>6, <3>7, <3>8 DEF TracerStep, Failing
    <2> QED BY <1>1, <1>2, <1>6, <2>2, TracerHeld DEF Sound
  <1>3. CASE TasksStep BY <1>1, <1>3, <1>6, TasksTyped, TasksHeld DEF Sound
  <1>4. CASE Outside
    <2>1. config' = config BY <1>4 DEF Outside
    <2>2. Typed' BY <1>1, <1>4, <2>1, ShutdownTyped, TracerGoneTyped DEF Outside
    <2> QED BY <1>1, <1>4, <1>6, <2>2, TracerHeld DEF Sound
  <1>5. CASE UNCHANGED vars
    <2>1. config' = config /\ task' = task /\ made' = made /\ UNCHANGED tracer
      BY <1>5 DEF vars, kernel
    <2>2. KernelInv' BY <1>1, <2>1, SameKernel DEF Typed
    <2>3. Typed' BY <1>1, <2>1, <2>2, RestTyped DEF Typed, TracerType, tracer
    <2>4. Held' /\ NoneFree' BY <1>1, <2>1 DEF Held, HeldTask, At, NoneFree, tracer
    <2> QED BY <1>6, <2>3, <2>4 DEF Sound
  <1> QED BY <1>2, <1>3, <1>4, <1>5 DEF Next, Terminated, Stopped

LEMMA SoundTypes ==
  ASSUME Sound
  PROVE  TypeOK
  <1>1. TracerType BY DEF Sound, Typed
  <1>2. CallSet \subseteq CallRecords BY DEF CallSet, CallRecords, NoCall
  <1>3. tracees \in [Tids -> [known : BOOLEAN, newborn : BOOLEAN, inStop : BOOLEAN,
                              sig : Nat, pend : CallRecords, pendArgs : Nat,
                              intr : CallRecords, intrArgs : Nat, ready : BOOLEAN]]
    <2> HIDE DEF CallSet, CallRecords
    <2> QED BY <1>1, <1>2 DEF TracerType, TraceeSet
  <1> QED BY <1>1, <1>3 DEF TypeOK, TracerType, OutSet, Results, PCs, RootSet

LEMMA AlwaysSound == Spec => []Sound
  <1>1. Init => Sound BY SoundInit
  <1>2. Sound /\ [Next]_vars => Sound' BY SoundNext
  <1> QED BY <1>1, <1>2, PTL DEF Spec

(* The records of the tasks traced, the results reported and the status    *)
(* kept stay within their types, for every program, command line and       *)
(* number of tasks.                                                        *)
THEOREM TypesKept == Spec => []TypeOK
  <1>1. Sound => TypeOK BY SoundTypes
  <1> QED BY <1>1, AlwaysSound, PTL

-----------------------------------------------------------------------------
(* The captured strings, at every step: each one that is allocated belongs *)
(* to one record of the table, as one of its two.  A record without a call *)
(* has no strings for it.                                                  *)
OneEach(r) == /\ r.pendArgs = r.intrArgs => r.pendArgs = 0
              /\ r.pend = NoCall => r.pendArgs = 0
              /\ r.intr = NoCall => r.intrArgs = 0
              /\ ~r.known => r.pendArgs = 0 /\ r.intrArgs = 0

Accounted(tr, h) ==
  /\ \A i \in h : \E t \in Tids : i \in Strings(tr[t])
  /\ \A t \in Tids : Strings(tr[t]) \subseteq h /\ OneEach(tr[t])
  /\ \A t, u \in Tids : t # u => Strings(tr[t]) \cap Strings(tr[u]) = {}

Owned == IF pc = "done" THEN heap = {} ELSE Accounted(tracees, heap)

LEMMA FreshOwns ==
  /\ \A b : Strings(Fresh(b)) = {} /\ OneEach(Fresh(b))
  /\ Strings(Absent) = {} /\ OneEach(Absent)
  <1>1. \A b : Fresh(b).pendArgs = 0 /\ Fresh(b).intrArgs = 0 BY DEF Fresh
  <1>2. Absent.pendArgs = 0 /\ Absent.intrArgs = 0 BY DEF Absent, Fresh
  <1> QED BY <1>1, <1>2 DEF Strings, OneEach

(* Another record for one tid: what it owns it owned before, or is new.    *)
LEMMA ReplaceAccounted ==
  ASSUME NEW tr \in [Tids -> TraceeSet], NEW h, Accounted(tr, h), NEW t \in Tids,
         NEW x, OneEach(x), NEW g, NEW f, f = [tr EXCEPT ![t] = x],
         \A i : i \in g <=> (i \in h /\ i \notin Strings(tr[t])) \/ i \in Strings(x),
         \A i \in Strings(x) : i \in Strings(tr[t]) \/ i \notin h
  PROVE  Accounted(f, g)
  <1> DEFINE o(u) == Strings(tr[u])
             n == Strings(x)
  <1>1. f[t] = x /\ \A u \in Tids \ {t} : f[u] = tr[u] OBVIOUS
  <1>2. /\ \A i \in h : \E u \in Tids : i \in o(u)
        /\ \A u \in Tids : \A i \in o(u) : i \in h
        /\ \A u, v \in Tids : u # v => \A i \in o(u) : i \notin o(v)
    BY DEF Accounted
  <1>3. \A u \in Tids : OneEach(f[u]) BY <1>1 DEF Accounted
  <1>4. \A u \in Tids : Strings(f[u]) = IF u = t THEN n ELSE o(u) BY <1>1
  <1> HIDE DEF o, n
  <1>5. /\ \A i : i \in g <=> (i \in h /\ i \notin o(t)) \/ i \in n
        /\ \A i \in n : i \in o(t) \/ i \notin h
    BY DEF o, n
  <1>6. \A i \in g : \E u \in Tids : i \in Strings(f[u])
    <2> SUFFICES ASSUME NEW i \in g PROVE \E u \in Tids : i \in Strings(f[u]) OBVIOUS
    <2>1. CASE i \in n BY <1>4, <2>1
    <2>2. CASE i \in h /\ i \notin o(t)
      <3>1. PICK u \in Tids : i \in o(u) BY <1>2, <2>2
      <3> QED BY <1>4, <2>2, <3>1
    <2> QED BY <1>5, <2>1, <2>2
  <1>7. \A u \in Tids : \A i \in Strings(f[u]) : i \in g
    <2> SUFFICES ASSUME NEW u \in Tids, NEW i, i \in Strings(f[u]) PROVE i \in g OBVIOUS
    <2>1. CASE u = t BY <1>4, <1>5, <2>1
    <2>2. CASE u # t
      <3>1. i \in o(u) BY <1>4, <2>2
      <3>2. i \in h /\ i \notin o(t) BY <1>2, <2>2, <3>1
      <3> QED BY <1>5, <3>2
    <2> QED BY <2>1, <2>2
  <1>8. \A u, v \in Tids : u # v => \A i \in Strings(f[u]) : i \notin Strings(f[v])
    <2> SUFFICES ASSUME NEW u \in Tids, NEW v \in Tids, u # v, NEW i,
                        i \in Strings(f[u]), i \in Strings(f[v])
                 PROVE  FALSE
      OBVIOUS
    <2>1. CASE u = t
      <3>1. i \in n /\ i \in o(v) BY <1>4, <2>1
      <3> QED BY <1>2, <1>5, <2>1, <3>1
    <2>2. CASE v = t
      <3>1. i \in n /\ i \in o(u) BY <1>4, <2>2
      <3> QED BY <1>2, <1>5, <2>2, <3>1
    <2>3. CASE u # t /\ v # t BY <1>2, <1>4, <2>3
    <2> QED BY <2>1, <2>2, <2>3
  <1> QED BY <1>3, <1>6, <1>7, <1>8 DEF Accounted

(* Records that own what they owned. *)
LEMMA SameAccounted ==
  ASSUME NEW tr, NEW h, Accounted(tr, h), NEW f,
         \A u \in Tids : Strings(f[u]) = Strings(tr[u]) /\ OneEach(f[u])
  PROVE  Accounted(f, h)
  BY DEF Accounted

(* migrate_exec_tid: a record moves, and the one in its place is released. *)
LEMMA MigratedAccounted ==
  ASSUME tracees \in [Tids -> TraceeSet], Accounted(tracees, heap),
         NEW former \in Tids, NEW t \in Tids
  PROVE  Accounted(Migrated(former, t), heap \ Replaced(former, t))
  <1> DEFINE y == IF tracees[former].known THEN tracees[former]
                  ELSE IF tracees[t].known THEN tracees[t] ELSE Fresh(FALSE)
             z == [y EXCEPT !.newborn = FALSE]
             f == Migrated(former, t)
             h == heap \ Replaced(former, t)
             o(u) == Strings(tracees[u])
  <1>1. /\ \A i \in heap : \E u \in Tids : i \in o(u)
        /\ \A u \in Tids : \A i \in o(u) : i \in heap
        /\ \A u, v \in Tids : u # v => \A i \in o(u) : i \notin o(v)
        /\ \A u \in Tids : OneEach(tracees[u])
    BY DEF Accounted
  <1>2. \A u \in Tids : ~tracees[u].known => o(u) = {} BY <1>1 DEF OneEach, Strings
  <1>3. CASE former = t
    <2>1. f = tracees /\ h = heap BY <1>3 DEF Migrated, Replaced
    <2> QED BY <2>1
  <1>4. CASE former # t
    <2>1. f = [tracees EXCEPT ![former] = Absent, ![t] = z] BY <1>4 DEF Migrated
    <2>2. y \in TraceeSet /\ OneEach(y) BY <1>1, FreshType, FreshOwns
    <2>3. Strings(y) = IF tracees[former].known THEN o(former) ELSE o(t)
      <3>1. CASE tracees[former].known BY <3>1
      <3>2. CASE ~tracees[former].known /\ tracees[t].known BY <3>2
      <3>3. CASE ~tracees[former].known /\ ~tracees[t].known BY <1>2, <3>3, FreshOwns
      <3> QED BY <3>1, <3>2, <3>3
    <2> HIDE DEF y
    <2>4. Strings(z) = Strings(y) /\ OneEach(z) BY <2>2 DEF TraceeSet, Strings, OneEach
    <2> HIDE DEF z, f
    <2>5. f[former] = Absent /\ f[t] = z /\ \A u \in Tids \ {former, t} : f[u] = tracees[u]
      BY <1>4, <2>1
    <2>6. \A u \in Tids : OneEach(f[u]) BY <1>1, <2>4, <2>5, FreshOwns
    <2>7. \A u \in Tids : Strings(f[u]) =
            IF u = former THEN {}
            ELSE IF u = t THEN IF tracees[former].known THEN o(former) ELSE o(t)
            ELSE o(u)
      BY <2>3, <2>4, <2>5, FreshOwns
    <2>8. \A i : i \in h <=> i \in heap /\ ~(tracees[former].known /\ i \in o(t))
      BY <1>4 DEF Replaced
    <2>9. ~tracees[former].known => o(former) = {} BY <1>2
    <2> HIDE DEF o, h
    <2>10. \A i \in h : \E u \in Tids : i \in Strings(f[u])
      <3> SUFFICES ASSUME NEW i \in h PROVE \E u \in Tids : i \in Strings(f[u]) OBVIOUS
      <3>1. PICK u \in Tids : i \in o(u) BY <1>1, <2>8
      <3>2. CASE u = former
        <4>1. i \in Strings(f[t]) BY <1>4, <2>7, <2>9, <3>1, <3>2
        <4> QED BY <4>1
      <3>3. CASE u = t
        <4>1. i \in Strings(f[t]) BY <1>4, <2>7, <2>8, <3>1, <3>3
        <4> QED BY <4>1
      <3>4. CASE u \notin {former, t}
        <4>1. i \in Strings(f[u]) BY <2>7, <3>1, <3>4
        <4> QED BY <4>1
      <3> QED BY <3>2, <3>3, <3>4
    <2>11. \A u \in Tids : \A i \in Strings(f[u]) : i \in h
      <3> SUFFICES ASSUME NEW u \in Tids, NEW i, i \in Strings(f[u]) PROVE i \in h OBVIOUS
      <3>1. CASE u = former BY <2>7, <3>1
      <3>2. CASE u = t /\ tracees[former].known
        <4>1. i \in o(former) BY <1>4, <2>7, <3>2
        <4> QED BY <1>1, <1>4, <2>8, <4>1
      <3>3. CASE u = t /\ ~tracees[former].known
        <4>1. i \in o(t) BY <1>4, <2>7, <3>3
        <4> QED BY <1>1, <2>8, <3>3, <4>1
      <3>4. CASE u \notin {former, t}
        <4>1. i \in o(u) BY <2>7, <3>4
        <4> QED BY <1>1, <2>8, <3>4, <4>1
      <3> QED BY <3>1, <3>2, <3>3, <3>4
    <2>12. \A u, v \in Tids : u # v => \A i \in Strings(f[u]) : i \notin Strings(f[v])
      <3> DEFINE from(u) == IF u = t /\ tracees[former].known THEN former ELSE u
      <3>1. \A u \in Tids : \A i \in Strings(f[u]) : u # former /\ i \in o(from(u)) /\ from(u) \in Tids
        BY <1>4, <2>7
      <3>2. \A u, v \in Tids : u # v /\ u # former /\ v # former => from(u) # from(v)
        BY <1>4
      <3> HIDE DEF from
      <3> QED BY <1>1, <3>1, <3>2
    <2> QED BY <2>6, <2>10, <2>11, <2>12 DEF Accounted, h, f
  <1> QED BY <1>3, <1>4

(* A handler leaves a record with what it has left of the strings, and any *)
(* new ones; the table may have changed before.                            *)
LEMMA HandledOwned ==
  ASSUME NEW tr \in [Tids -> TraceeSet], NEW h, Accounted(tr, h), cur.tid \in Tids,
         NEW r \in TraceeSet, OneEach(r), tracees' = [tr EXCEPT ![cur.tid] = [r EXCEPT !.inStop = TRUE]],
         pc' # "done",
         \A i : i \in heap' <=> (i \in h /\ i \notin Strings(tr[cur.tid])) \/ i \in Strings(r),
         \A i \in Strings(r) : i \in Strings(tr[cur.tid]) \/ i \notin h
  PROVE  Owned'
  <1> DEFINE x == [r EXCEPT !.inStop = TRUE]
  <1>1. Strings(x) = Strings(r) /\ OneEach(x) BY DEF TraceeSet, Strings, OneEach
  <1>2. tracees' = [tr EXCEPT ![cur.tid] = x] OBVIOUS
  <1> HIDE DEF x
  <1>3. Accounted(tracees', heap') BY <1>1, <1>2, ReplaceAccounted, ZenonT(40)
  <1> QED BY <1>3 DEF Owned, Accounted, Strings, OneEach, NoCall

(* The record a handler goes on with owns what that of the table owns.     *)
LEMMA TraceeOwns ==
  ASSUME TracerType, Accounted(tracees, heap), cur.tid \in Tids
  PROVE  /\ Tracee \in TraceeSet /\ Tracee.known /\ OneEach(Tracee)
         /\ Strings(Tracee) = Strings(tracees[cur.tid])
         /\ \A i \in Strings(Tracee) : i \in heap
  <1>1. OneEach(tracees[cur.tid]) /\ \A i \in Strings(tracees[cur.tid]) : i \in heap
    BY DEF Accounted
  <1>2. CASE tracees[cur.tid].known
    <2>1. Tracee = tracees[cur.tid] BY <1>2 DEF Tracee
    <2> QED BY <1>1, <1>2, <2>1, TraceeType
  <1>3. CASE ~tracees[cur.tid].known
    <2>1. Tracee = Fresh(TRUE) BY <1>3 DEF Tracee
    <2>2. Strings(tracees[cur.tid]) = {} BY <1>1, <1>3 DEF OneEach, Strings
    <2> QED BY <2>1, <2>2, FreshType, FreshOwns
  <1> QED BY <1>2, <1>3

(* begin_syscall and finish_syscall free what they drop.                   *)
LEMMA SettledOwns ==
  ASSUME NEW r \in TraceeSet, OneEach(r), r.known, NEW c, MayEnter(r)
  PROVE  /\ OneEach(WithoutExec(r)) /\ OneEach(Settled(r, c))
         /\ \A i : i \in Strings(WithoutExec(r)) <=> i \in Strings(r) /\ i \notin ExecFreed(r)
         /\ \A i : i \in Strings(Settled(r, c)) <=> i \in Strings(r) /\ i \notin Freed(r, c)
         /\ Settled(r, c).pendArgs = 0
  <1> DEFINE w == WithoutExec(r)
             s == Settled(r, c)
  <1>1. /\ w.known /\ s.known /\ w.intr = r.intr /\ w.intrArgs = r.intrArgs
        /\ s.pend = w.pend /\ s.pendArgs = w.pendArgs
        /\ s.intr = (IF GivenUp(r, c) THEN NoCall ELSE r.intr)
        /\ s.intrArgs = (IF GivenUp(r, c) THEN 0 ELSE r.intrArgs)
        /\ w.pend = (IF CompletesExec(r) THEN NoCall ELSE r.pend)
        /\ w.pendArgs = (IF CompletesExec(r) THEN 0 ELSE r.pendArgs)
    BY SettledIs, ZenonT(40) DEF SameTask
  <1> HIDE DEF w, s
  <1>2. w.pendArgs = 0 /\ w.pend = NoCall BY <1>1 DEF MayEnter, OneEach
  <1>3. OneEach(w) BY <1>1, <1>2 DEF OneEach
  <1>4. OneEach(s) BY <1>1, <1>2 DEF OneEach
  <1>5. \A i : i \in Strings(w) <=> i \in Strings(r) /\ i \notin ExecFreed(r)
    <2>1. CASE CompletesExec(r) BY <1>1, <1>2, <2>1 DEF Strings, ExecFreed, OneEach
    <2>2. CASE ~CompletesExec(r)
      <3>1. r.pendArgs = 0 BY <2>2 DEF MayEnter, OneEach
      <3> QED BY <1>1, <1>2, <2>2, <3>1 DEF Strings, ExecFreed
    <2> QED BY <2>1, <2>2
  <1>6. \A i : i \in Strings(s) <=> i \in Strings(r) /\ i \notin Freed(r, c)
    <2>1. \A i : i \in Strings(s) <=> i \in Strings(w) /\ ~(GivenUp(r, c) /\ i = r.intrArgs)
      BY <1>1, <1>2 DEF Strings
    <2>2. \A i : i \in Freed(r, c) <=> i \in ExecFreed(r) \/ (GivenUp(r, c) /\ i = r.intrArgs)
      BY DEF Freed
    <2> QED BY <1>5, <2>1, <2>2
  <1> QED BY <1>1, <1>2, <1>3, <1>4, <1>5, <1>6 DEF w, s

LEMMA BeginOwns ==
  ASSUME HeapType, NEW r \in TraceeSet, OneEach(r), r.known, NEW c \in CallSet, MayEnter(r),
         \A i \in Strings(r) : i \in heap
  PROVE  LET b == begin_tracee(r, c)
         IN  /\ OneEach(b)
             /\ \A i : i \in begin_heap(r, c) <=>
                          (i \in heap /\ i \notin Strings(r)) \/ i \in Strings(b)
             /\ \A i \in Strings(b) : i \in Strings(r) \/ i \notin heap
  <1> DEFINE b == begin_tracee(r, c)
             n == captured(c)
             S == Settled(r, c)
             F == Freed(r, c)
  <1>1. /\ b.known
        /\ Restarts(r, c) => /\ b.pend = r.intr /\ b.pendArgs = r.intrArgs
                             /\ b.intr = NoCall /\ b.intrArgs = 0
        /\ ~Restarts(r, c) => /\ b.pend = c /\ b.pendArgs = n
                              /\ b.intr = S.intr /\ b.intrArgs = S.intrArgs
    BY BeginIs DEF SameTask
  <1>2. /\ OneEach(S) /\ S.pendArgs = 0
        /\ \A i : i \in Strings(S) <=> i \in Strings(r) /\ i \notin F
    BY SettledOwns
  <1>3. n = (IF Captures(c) THEN NewString ELSE 0) BY DEF captured
  <1>4. NewString \in Nat \ {0} /\ NewString \notin heap BY NewStringFound
  <1>5. 0 \notin heap BY DEF HeapType
  <1>6. Captures(c) => c # NoCall BY DEF Captures, IsSelected
  <1>7. \A i : i \in begin_heap(r, c) <=>
          \/ i \in heap /\ i \notin F
          \/ Captures(c) /\ ~Restarts(r, c) /\ i = n
    BY DEF begin_heap
  <1> HIDE DEF b, n, S, F
  <1>8. CASE Restarts(r, c)
    <2>1. r.intr # NoCall /\ ~GivenUp(r, c) BY <1>8 DEF Restarts, GivenUp
    <2>2. \A i : i \in Strings(b) <=> i = r.intrArgs /\ i # 0 BY <1>1, <1>8 DEF Strings
    <2>3. OneEach(b) BY <1>1, <1>8, <2>1 DEF OneEach
    <2>4. \A i : i \in Strings(r) <=> (i = r.pendArgs \/ i = r.intrArgs) /\ i # 0 BY DEF Strings
    <2>5. \A i \in heap : i \notin F <=> i \notin Strings(r) \/ i \in Strings(b)
      <3>1. CASE CompletesExec(r)
        <4>1. \A i : i \in F <=> i = r.pendArgs BY <2>1, <3>1 DEF F, Freed, ExecFreed
        <4>2. r.pendArgs = r.intrArgs => r.pendArgs = 0 BY DEF OneEach
        <4> QED BY <1>5, <2>2, <2>4, <4>1, <4>2
      <3>2. CASE ~CompletesExec(r)
        <4>1. \A i : i \notin F BY <2>1, <3>2 DEF F, Freed, ExecFreed
        <4>2. r.pendArgs = 0 BY <3>2 DEF MayEnter, OneEach
        <4> QED BY <2>2, <2>4, <4>1, <4>2
      <3> QED BY <3>1, <3>2
    <2>6. \A i \in Strings(b) : i \in Strings(r) BY <2>2, <2>4
    <2> QED BY <1>7, <1>8, <2>3, <2>5, <2>6 DEF b
  <1>9. CASE ~Restarts(r, c)
    <2>1. \A i : i \in Strings(b) <=> i \in Strings(S) \/ (Captures(c) /\ i = n)
      BY <1>1, <1>2, <1>3, <1>4, <1>9 DEF Strings
    <2>2. OneEach(b)
      <3>1. S.intr = NoCall => S.intrArgs = 0 BY <1>2 DEF OneEach
      <3>2. S.intrArgs # 0 => S.intrArgs \in heap
        <4> SUFFICES ASSUME S.intrArgs # 0 PROVE S.intrArgs \in heap OBVIOUS
        <4>1. S.intrArgs \in Strings(S) BY DEF Strings
        <4> QED BY <1>2, <4>1
      <3>3. n = S.intrArgs => n = 0 BY <1>3, <1>4, <3>2
      <3>4. c = NoCall => n = 0 BY <1>3, <1>6
      <3> QED BY <1>1, <1>9, <3>1, <3>3, <3>4 DEF OneEach
    <2>3. n # 0 => n \notin heap BY <1>3, <1>4
    <2>4. Captures(c) => n # 0 BY <1>3, <1>4
    <2>5. \A i : i \in begin_heap(r, c) <=> (i \in heap /\ i \notin Strings(r)) \/ i \in Strings(b)
      <3>1. \A i : i \in begin_heap(r, c) <=> (i \in heap /\ i \notin F) \/ (Captures(c) /\ i = n)
        BY <1>7, <1>9
      <3>2. \A i : i \in heap /\ i \notin F <=> (i \in heap /\ i \notin Strings(r)) \/ i \in Strings(S)
        <4> SUFFICES ASSUME NEW i
                     PROVE  i \in heap /\ i \notin F <=> (i \in heap /\ i \notin Strings(r)) \/ i \in Strings(S)
          OBVIOUS
        <4>1. i \in Strings(S) <=> i \in Strings(r) /\ i \notin F BY <1>2
        <4>2. i \in Strings(r) => i \in heap OBVIOUS
        <4>3. i \in F /\ i \in heap => i \in Strings(r) BY <1>5 DEF F, Freed, ExecFreed, Strings
        <4> QED BY <4>1, <4>2, <4>3
      <3> QED BY <2>1, <3>1, <3>2
    <2>6. \A i \in Strings(b) : i \in Strings(r) \/ i \notin heap BY <1>2, <2>1, <2>3, <2>4
    <2> QED BY <2>2, <2>5, <2>6 DEF b
  <1> QED BY <1>8, <1>9

LEMMA EntryOwned ==
  ASSUME Sound, Owned, SyscallEntry
  PROVE  Owned'
  <1> DEFINE r == Tracee
             c == task[cur.tid].call
             b == begin_tracee(r, c)
  <1>1. TracerType /\ cur.tid \in Tids /\ pc = "handle" /\ GoodTask(task[cur.tid]) /\ HeapType
    BY DEF Sound, Typed, TracerType, SyscallEntry, AtEntry, Handling, KernelInv, KernelBase, GoodTasks
  <1>2. Accounted(tracees, heap) BY <1>1 DEF Owned
  <1>3. /\ r \in TraceeSet /\ r.known /\ OneEach(r) /\ Strings(r) = Strings(tracees[cur.tid])
        /\ \A i \in Strings(r) : i \in heap
    BY <1>1, <1>2, TraceeOwns
  <1>4. c \in CallSet /\ MayEnter(r) BY <1>1 DEF GoodTask, TaskSet, SyscallEntry
  <1>5. /\ tracees' = [tracees EXCEPT ![cur.tid] = [b EXCEPT !.inStop = TRUE]]
        /\ pc' = "resume" /\ heap' = begin_heap(r, c)
    BY DEF SyscallEntry, ToResume, Entered
  <1> HIDE DEF r, c
  <1>6. b \in TraceeSet BY <1>1, <1>3, <1>4, BeginTyped
  <1>7. /\ OneEach(b)
        /\ \A i : i \in heap' <=> (i \in heap /\ i \notin Strings(tracees[cur.tid])) \/ i \in Strings(b)
        /\ \A i \in Strings(b) : i \in Strings(tracees[cur.tid]) \/ i \notin heap
    BY <1>1, <1>3, <1>4, <1>5, BeginOwns
  <1> HIDE DEF b
  <1>8. tracees \in [Tids -> TraceeSet] BY <1>1 DEF TracerType
  <1> QED BY <1>1, <1>2, <1>5, <1>6, <1>7, <1>8, HandledOwned

LEMMA EntryFailsOwned ==
  ASSUME Sound, Owned, EntryFails
  PROVE  Owned'
  <1> DEFINE r == Tracee
             c == Entered
  <1>1. TracerType /\ cur.tid \in Tids /\ pc = "handle" /\ tracees \in [Tids -> TraceeSet] /\ HeapType
    BY DEF Sound, Typed, TracerType, EntryFails, AtEntry, Handling
  <1>2. Accounted(tracees, heap) BY <1>1 DEF Owned
  <1>3. /\ r \in TraceeSet /\ r.known /\ OneEach(r) /\ Strings(r) = Strings(tracees[cur.tid])
        /\ \A i \in Strings(r) : i \in heap
    BY <1>1, <1>2, TraceeOwns
  <1>4. ASSUME NEW x \in TraceeSet, OneEach(x), Fails(tracees, x), NEW f, heap' = heap \ f,
               \A i \in Strings(r) : i \in Strings(x) <=> i \notin f,
               \A i \in Strings(x) : i \in Strings(r),
               \A i \in f : i \in Strings(r) \/ i = 0
        PROVE  Owned'
    <2>1. tracees' = [tracees EXCEPT ![cur.tid] = [x EXCEPT !.inStop = TRUE]] /\ pc' = "finish"
      BY <1>4 DEF Fails, Finish
    <2>2. 0 \notin heap BY <1>1 DEF HeapType
    <2> HIDE DEF r
    <2>3. \A i : i \in heap' <=> (i \in heap /\ i \notin Strings(tracees[cur.tid])) \/ i \in Strings(x)
      BY <1>3, <1>4, <2>2
    <2>4. \A i \in Strings(x) : i \in Strings(tracees[cur.tid]) BY <1>3, <1>4
    <2> QED BY <1>1, <1>2, <1>4, <2>1, <2>3, <2>4, HandledOwned
  <1>5. CASE MayEnter(r)
    <2>1. \/ Fails(tracees, r) /\ heap' = heap \ {}
          \/ Fails(tracees, WithoutExec(r)) /\ heap' = heap \ ExecFreed(r)
          \/ Fails(tracees, Settled(r, c)) /\ heap' = heap \ Freed(r, c)
      <3>1. PICK s \in begin_stages(r, c) : Fails(tracees, s.left) /\ heap' = heap \ s.freed
        BY <1>5 DEF EntryFails
      <3>2. \/ s.left = r /\ s.freed = {}
            \/ s.left = WithoutExec(r) /\ s.freed = ExecFreed(r)
            \/ s.left = Settled(r, c) /\ s.freed = Freed(r, c)
        BY <3>1 DEF begin_stages
      <3> QED BY <3>1, <3>2
    <2>2. /\ \A i \in ExecFreed(r) : i \in Strings(r) \/ i = 0
          /\ \A i \in Freed(r, c) : i \in Strings(r) \/ i = 0
      BY DEF ExecFreed, Freed, Strings
    <2> HIDE DEF r, c
    <2>3. /\ WithoutExec(r) \in TraceeSet /\ Settled(r, c) \in TraceeSet
      BY <1>3, SettledIs
    <2>4. /\ OneEach(WithoutExec(r)) /\ OneEach(Settled(r, c))
          /\ \A i : i \in Strings(WithoutExec(r)) <=> i \in Strings(r) /\ i \notin ExecFreed(r)
          /\ \A i : i \in Strings(Settled(r, c)) <=> i \in Strings(r) /\ i \notin Freed(r, c)
      BY <1>3, <1>5, SettledOwns
    <2>5. CASE Fails(tracees, r) /\ heap' = heap \ {}
      <3> DEFINE f == {}
      <3>1. /\ \A i \in Strings(r) : i \in Strings(r) <=> i \notin f
            /\ \A i \in f : i \in Strings(r) \/ i = 0
            /\ heap' = heap \ f
        BY <2>5
      <3> HIDE DEF f
      <3> QED BY <1>3, <1>4, <2>5, <3>1
    <2>6. CASE Fails(tracees, WithoutExec(r)) /\ heap' = heap \ ExecFreed(r)
      BY <1>4, <2>2, <2>3, <2>4, <2>6
    <2>7. CASE Fails(tracees, Settled(r, c)) /\ heap' = heap \ Freed(r, c)
      BY <1>4, <2>2, <2>3, <2>4, <2>7
    <2> QED BY <2>1, <2>5, <2>6, <2>7
  <1>6. CASE ~MayEnter(r)
    <2>1. Fails(tracees, r) /\ heap' = heap BY <1>6 DEF EntryFails
    <2> DEFINE f == {}
    <2>2. /\ \A i \in Strings(r) : i \in Strings(r) <=> i \notin f
          /\ \A i \in f : i \in Strings(r) \/ i = 0
          /\ heap' = heap \ f
      BY <2>1
    <2> HIDE DEF r, f
    <2> QED BY <1>3, <1>4, <2>1, <2>2
  <1> QED BY <1>5, <1>6

LEMMA ExitOwned ==
  ASSUME Sound, Owned, SyscallExit
  PROVE  Owned'
  <1> DEFINE r == Tracee
             val == Now.val
             b == finish_tracee(r, val)
  <1>1. TracerType /\ cur.tid \in Tids /\ pc = "handle" /\ tracees \in [Tids -> TraceeSet] /\ HeapType
    BY DEF Sound, Typed, TracerType, SyscallExit, AtExit, Handling
  <1>2. Accounted(tracees, heap) BY <1>1 DEF Owned
  <1>3. /\ r \in TraceeSet /\ r.known /\ OneEach(r) /\ Strings(r) = Strings(tracees[cur.tid])
        /\ \A i \in Strings(r) : i \in heap
    BY <1>1, <1>2, TraceeOwns
  <1>4. /\ tracees' = [tracees EXCEPT ![cur.tid] = [b EXCEPT !.inStop = TRUE]]
        /\ pc' = "resume" /\ heap' = finish_heap(r, val)
    BY DEF SyscallExit, ToResume
  <1> HIDE DEF r, val
  <1>5. /\ b \in TraceeSet /\ b.known = r.known /\ b.pend = NoCall
        /\ r.pend = NoCall => b = r
        /\ r.pend # NoCall => b.pendArgs = 0
        /\ r.pend # NoCall /\ is_restart_result(val) => b.intr = r.pend /\ b.intrArgs = r.pendArgs
        /\ r.pend # NoCall /\ ~is_restart_result(val) =>
              \/ b.intr = r.intr /\ b.intrArgs = r.intrArgs
              \/ b.intr # r.intr /\ b.intr = NoCall /\ b.intrArgs = 0
    BY <1>3, FinishIs, ZenonT(40) DEF SameTask
  <1>6. 0 \notin heap BY <1>1 DEF HeapType
  <1>7. heap' = heap \ IF r.pend = NoCall THEN {}
                       ELSE IF is_restart_result(val) THEN IF r.intr # NoCall THEN {r.intrArgs} ELSE {}
                       ELSE IF b.intr # r.intr THEN {r.pendArgs, r.intrArgs} ELSE {r.pendArgs}
    BY <1>4 DEF finish_heap
  <1> HIDE DEF b
  <1>8. OneEach(b) BY <1>3, <1>5 DEF OneEach
  <1>9. /\ \A i : i \in heap' <=> (i \in heap /\ i \notin Strings(r)) \/ i \in Strings(b)
        /\ \A i \in Strings(b) : i \in Strings(r)
    <2>1. CASE r.pend = NoCall BY <1>3, <1>5, <1>7, <2>1
    <2>2. CASE r.pend # NoCall /\ is_restart_result(val)
      <3>1. \A i : i \in heap' <=> i \in heap /\ i # r.intrArgs
        BY <1>3, <1>6, <1>7, <2>2 DEF OneEach
      <3>2. \A i : i \in Strings(b) <=> i = r.pendArgs /\ i # 0 BY <1>5, <2>2 DEF Strings
      <3>3. \A i : i \in Strings(r) <=> (i = r.pendArgs \/ i = r.intrArgs) /\ i # 0 BY DEF Strings
      <3>4. r.pendArgs = r.intrArgs => r.pendArgs = 0 BY <1>3 DEF OneEach
      <3>5. r.pendArgs # 0 => r.pendArgs \in heap BY <1>3, <3>3
      <3> QED BY <1>6, <3>1, <3>2, <3>3, <3>4, <3>5
    <2>3. CASE r.pend # NoCall /\ ~is_restart_result(val)
      <3>1. \A i : i \in heap' <=> i \in heap /\ i # r.pendArgs /\ ~(b.intr # r.intr /\ i = r.intrArgs)
        BY <1>7, <2>3
      <3>2. \A i : i \in Strings(b) <=> i = b.intrArgs /\ i # 0 BY <1>5, <2>3 DEF Strings
      <3>3. \A i : i \in Strings(r) <=> (i = r.pendArgs \/ i = r.intrArgs) /\ i # 0 BY DEF Strings
      <3>4. r.pendArgs = r.intrArgs => r.pendArgs = 0 BY <1>3 DEF OneEach
      <3>5. r.intrArgs # 0 => r.intrArgs \in heap BY <1>3, <3>3
      <3> QED BY <1>5, <1>6, <2>3, <3>1, <3>2, <3>3, <3>4, <3>5
    <2> QED BY <2>1, <2>2, <2>3
  <1> QED BY <1>1, <1>2, <1>3, <1>4, <1>5, <1>8, <1>9, HandledOwned

(* An exec: the record has been moved, and the call of the exec ends.      *)
LEMMA ExecLeaves ==
  ASSUME Sound, Owned, AtExec
  PROVE  LET tr == Migrated(cur.stop.msg, cur.tid)
             h  == heap \ Replaced(cur.stop.msg, cur.tid)
             r  == ExecTracee(tr[cur.tid])
         IN  /\ cur.tid \in Tids /\ tr \in [Tids -> TraceeSet] /\ Accounted(tr, h)
             /\ r \in TraceeSet /\ r.known /\ OneEach(r) /\ Strings(r) = Strings(tr[cur.tid])
             /\ \A i \in Strings(r) : i \in h
             /\ 0 \notin h
  <1> DEFINE t == cur.tid
             tr == Migrated(cur.stop.msg, t)
             h  == heap \ Replaced(cur.stop.msg, t)
  <1>1. TracerType /\ t \in Tids /\ cur.stop.msg \in Tids /\ tracees \in [Tids -> TraceeSet]
        /\ HeapType /\ pc = "handle"
    BY DEF Sound, Typed, TracerType, AtExec, Handling
  <1>2. tr \in [Tids -> TraceeSet] BY <1>1, MovedType
  <1>3. Accounted(tr, h) BY <1>1, MigratedAccounted DEF Owned
  <1>4. 0 \notin h BY <1>1 DEF HeapType
  <1> HIDE DEF tr, h
  <1>5. OneEach(tr[t]) /\ \A i \in Strings(tr[t]) : i \in h BY <1>1, <1>3 DEF Accounted
  <1> DEFINE r == ExecTracee(tr[t])
  <1>6. r \in TraceeSet /\ r.known /\ OneEach(r) /\ Strings(r) = Strings(tr[t])
    <2>1. CASE tr[t].known
      <3>1. r = tr[t] BY <2>1 DEF ExecTracee
      <3> QED BY <1>1, <1>2, <1>5, <2>1, <3>1
    <2>2. CASE ~tr[t].known
      <3>1. r = Fresh(TRUE) BY <2>2 DEF ExecTracee
      <3>2. Strings(tr[t]) = {} BY <1>5, <2>2 DEF OneEach, Strings
      <3> QED BY <3>1, <3>2, FreshType, FreshOwns
    <2> QED BY <2>1, <2>2
  <1> HIDE DEF r
  <1> QED BY <1>1, <1>2, <1>3, <1>4, <1>5, <1>6 DEF tr, h, r

LEMMA ExecOwned ==
  ASSUME Sound, Owned, ExecStop
  PROVE  Owned'
  <1> DEFINE tr == Migrated(cur.stop.msg, cur.tid)
             h  == heap \ Replaced(cur.stop.msg, cur.tid)
             r  == ExecTracee(tr[cur.tid])
             e  == Ended(r)
             x  == [e EXCEPT !.newborn = FALSE]
  <1>1. AtExec BY DEF ExecStop
  <1>2. /\ cur.tid \in Tids /\ tr \in [Tids -> TraceeSet] /\ Accounted(tr, h)
        /\ r \in TraceeSet /\ r.known /\ OneEach(r) /\ Strings(r) = Strings(tr[cur.tid])
        /\ \A i \in Strings(r) : i \in h
        /\ 0 \notin h
    BY <1>1, ExecLeaves
  <1>3. /\ tracees' = [tr EXCEPT ![cur.tid] = [x EXCEPT !.inStop = TRUE]] /\ pc' = "resume"
        /\ heap' = h \ IF r.pend # NoCall THEN {r.pendArgs} ELSE {}
    BY DEF ExecStop, ToResume
  <1> HIDE DEF tr, h, r
  <1>4. /\ e \in TraceeSet /\ e.pend = NoCall /\ e.pendArgs = 0 /\ e.intr = r.intr
        /\ e.intrArgs = r.intrArgs /\ e.known = r.known
    BY <1>2, EndedIs
  <1> HIDE DEF e
  <1>5. /\ x \in TraceeSet /\ x.pend = NoCall /\ x.pendArgs = 0 /\ x.intr = r.intr
        /\ x.intrArgs = r.intrArgs /\ x.known = r.known
    BY <1>4 DEF TraceeSet
  <1> HIDE DEF x
  <1>6. OneEach(x) BY <1>2, <1>5 DEF OneEach
  <1>7. /\ \A i : i \in heap' <=> (i \in h /\ i \notin Strings(r)) \/ i \in Strings(x)
        /\ \A i \in Strings(x) : i \in Strings(r)
    <2>1. \A i : i \in heap' <=> i \in h /\ i # r.pendArgs BY <1>2, <1>3 DEF OneEach
    <2>2. \A i : i \in Strings(x) <=> i = r.intrArgs /\ i # 0 BY <1>5 DEF Strings
    <2>3. \A i : i \in Strings(r) <=> (i = r.pendArgs \/ i = r.intrArgs) /\ i # 0 BY DEF Strings
    <2>4. r.pendArgs = r.intrArgs => r.pendArgs = 0 BY <1>2 DEF OneEach
    <2>5. r.intrArgs # 0 => r.intrArgs \in h BY <1>2, <2>3
    <2> QED BY <1>2, <2>1, <2>2, <2>3, <2>4, <2>5
  <1> QED BY <1>2, <1>3, <1>5, <1>6, <1>7, HandledOwned

(* A handler that keeps the strings of its record. *)
LEMMA KeepsOwned ==
  ASSUME TracerType, Owned, pc # "done", pc' # "done", cur.tid \in Tids, heap' = heap,
         NEW r \in TraceeSet, OneEach(r), Strings(r) = Strings(tracees[cur.tid]),
         tracees' = [tracees EXCEPT ![cur.tid] = [r EXCEPT !.inStop = TRUE]]
  PROVE  Owned'
  <1>1. Accounted(tracees, heap) /\ tracees \in [Tids -> TraceeSet] BY DEF Owned, TracerType
  <1>2. \A i \in Strings(r) : i \in heap BY <1>1 DEF Accounted
  <1>3. \A i : i \in heap' <=> (i \in heap /\ i \notin Strings(tracees[cur.tid])) \/ i \in Strings(r)
    BY <1>2
  <1> QED BY <1>1, <1>3, HandledOwned

(* A fork event, whose child has no strings yet. *)
LEMMA ForkedOwned ==
  ASSUME TracerType, Owned, pc # "done", pc' # "done", cur.tid \in Tids, heap' = heap,
         tracees' = [add_tracee(tracees, Now.msg) EXCEPT ![cur.tid] = [Tracee EXCEPT !.inStop = TRUE]]
  PROVE  Owned'
  <1> DEFINE tr == add_tracee(tracees, Now.msg)
  <1>1. Accounted(tracees, heap) /\ tracees \in [Tids -> TraceeSet] BY DEF Owned, TracerType
  <1>2. /\ Tracee \in TraceeSet /\ OneEach(Tracee) /\ Strings(Tracee) = Strings(tracees[cur.tid])
        /\ \A i \in Strings(Tracee) : i \in heap
    BY <1>1, TraceeOwns
  <1>3. tr = [tracees EXCEPT ![Now.msg] = IF tracees[Now.msg].known THEN tracees[Now.msg] ELSE Fresh(TRUE)]
    BY DEF add_tracee
  <1>4. tr \in [Tids -> TraceeSet] BY <1>1, <1>3, FreshType
  <1>5. \A u \in Tids : Strings(tr[u]) = Strings(tracees[u]) /\ OneEach(tr[u])
    <2> SUFFICES ASSUME NEW u \in Tids PROVE Strings(tr[u]) = Strings(tracees[u]) /\ OneEach(tr[u])
      OBVIOUS
    <2>1. OneEach(tracees[u]) BY <1>1 DEF Accounted
    <2>2. CASE tr[u] = tracees[u] BY <2>1, <2>2
    <2>3. CASE ~tracees[u].known /\ tr[u] = Fresh(TRUE)
      <3>1. Strings(tracees[u]) = {} BY <2>1, <2>3 DEF OneEach, Strings
      <3> QED BY <2>3, <3>1, FreshOwns
    <2> QED BY <1>1, <1>3, <2>2, <2>3
  <1> HIDE DEF tr
  <1>6. Accounted(tr, heap) BY <1>1, <1>5, SameAccounted
  <1>7. \A i : i \in heap' <=> (i \in heap /\ i \notin Strings(tr[cur.tid])) \/ i \in Strings(Tracee)
    BY <1>2, <1>5
  <1>8. \A i \in Strings(Tracee) : i \in Strings(tr[cur.tid]) BY <1>2, <1>5
  <1>9. tracees' = [tr EXCEPT ![cur.tid] = [Tracee EXCEPT !.inStop = TRUE]] BY DEF tr
  <1> QED BY <1>2, <1>4, <1>6, <1>7, <1>8, <1>9, HandledOwned

LEMMA MarkedOwned ==
  ASSUME Sound, Owned, EventStop \/ ForkStop \/ NewbornStop \/ SignalStop \/ GroupStop
  PROVE  Owned'
  <1> DEFINE N == [Tracee EXCEPT !.newborn = FALSE]
             S == [Tracee EXCEPT !.newborn = FALSE, !.sig = cur.stop.sig]
  <1>1. TracerType /\ cur.tid \in Tids /\ pc = "handle" /\ heap' = heap /\ pc' = "resume"
    BY DEF Sound, Typed, TracerType, EventStop, ForkStop, NewbornStop, SignalStop, GroupStop,
           Handling, ToResume
  <1>2. Accounted(tracees, heap) BY <1>1 DEF Owned
  <1>3. /\ Tracee \in TraceeSet /\ OneEach(Tracee) /\ Strings(Tracee) = Strings(tracees[cur.tid])
        /\ cur.stop.sig \in Nat
    BY <1>1, <1>2, TraceeOwns DEF TracerType, CurSet, EventSet
  <1>4. N \in TraceeSet /\ OneEach(N) /\ Strings(N) = Strings(tracees[cur.tid])
    BY <1>3 DEF TraceeSet, Strings, OneEach
  <1>5. S \in TraceeSet /\ OneEach(S) /\ Strings(S) = Strings(tracees[cur.tid])
    BY <1>3 DEF TraceeSet, Strings, OneEach
  <1>6. CASE EventStop \/ NewbornStop \/ SignalStop \/ GroupStop
    <2>1. \/ tracees' = [tracees EXCEPT ![cur.tid] = [N EXCEPT !.inStop = TRUE]]
          \/ tracees' = [tracees EXCEPT ![cur.tid] = [S EXCEPT !.inStop = TRUE]]
          \/ tracees' = [tracees EXCEPT ![cur.tid] = [Tracee EXCEPT !.inStop = TRUE]]
      BY <1>6 DEF EventStop, NewbornStop, SignalStop, GroupStop, ToResume
    <2> HIDE DEF N, S
    <2> QED BY <1>1, <1>3, <1>4, <1>5, <2>1, KeepsOwned
  <1>7. CASE ForkStop
    <2>1. tracees' = [add_tracee(tracees, Now.msg) EXCEPT ![cur.tid] = [Tracee EXCEPT !.inStop = TRUE]]
      BY <1>7 DEF ForkStop, ToResume
    <2> QED BY <1>1, <2>1, ForkedOwned
  <1> QED BY <1>6, <1>7

LEMMA WriteFailsOwned ==
  ASSUME Sound, Owned, WriteFails
  PROVE  Owned'
  <1> DEFINE S == [Tracee EXCEPT !.newborn = FALSE, !.sig = cur.stop.sig]
  <1>1. TracerType /\ cur.tid \in Tids /\ pc = "handle" /\ pc' = "finish"
    BY FailingEnds DEF Failing, Sound, Typed, TracerType
  <1>2. Accounted(tracees, heap) BY <1>1 DEF Owned
  <1>3. /\ Tracee \in TraceeSet /\ OneEach(Tracee) /\ Strings(Tracee) = Strings(tracees[cur.tid])
        /\ cur.stop.sig \in Nat
    BY <1>1, <1>2, TraceeOwns DEF TracerType, CurSet, EventSet
  <1>4. S \in TraceeSet /\ OneEach(S) /\ Strings(S) = Strings(tracees[cur.tid])
    BY <1>3 DEF TraceeSet, Strings, OneEach
  <1>5. CASE Fails(tracees, Tracee) /\ heap' = heap
    BY <1>1, <1>3, <1>5, KeepsOwned DEF Fails
  <1>6. CASE Fails(tracees, S) /\ heap' = heap
    <2>1. tracees' = [tracees EXCEPT ![cur.tid] = [S EXCEPT !.inStop = TRUE]] BY <1>6 DEF Fails
    <2> HIDE DEF S
    <2> QED BY <1>1, <1>4, <1>6, <2>1, KeepsOwned
  <1>7. CASE Fails(add_tracee(tracees, Now.msg), Tracee) /\ heap' = heap
    BY <1>1, <1>7, ForkedOwned DEF Fails
  <1>8. ASSUME AtExec, NEW tr, tr = Migrated(cur.stop.msg, cur.tid), Fails(tr, ExecTracee(tr[cur.tid])),
               heap' = heap \ Replaced(cur.stop.msg, cur.tid)
        PROVE  Owned'
    <2> DEFINE h == heap \ Replaced(cur.stop.msg, cur.tid)
               r == ExecTracee(tr[cur.tid])
    <2>1. /\ tr \in [Tids -> TraceeSet] /\ Accounted(tr, h)
          /\ r \in TraceeSet /\ OneEach(r) /\ Strings(r) = Strings(tr[cur.tid])
          /\ \A i \in Strings(r) : i \in h
      BY <1>8, ExecLeaves
    <2>2. tracees' = [tr EXCEPT ![cur.tid] = [r EXCEPT !.inStop = TRUE]] /\ heap' = h
      BY <1>8 DEF Fails
    <2> HIDE DEF h, r
    <2>3. \A i : i \in heap' <=> (i \in h /\ i \notin Strings(tr[cur.tid])) \/ i \in Strings(r)
      BY <2>1, <2>2
    <2> QED BY <1>1, <2>1, <2>2, <2>3, HandledOwned
  <1> QED BY <1>5, <1>6, <1>7, <1>8 DEF WriteFails

LEMMA FailedOwned ==
  ASSUME Sound, Owned, RequestFails \/ ExitWriteFails \/ Exited \/ NoMemory \/ StartLaunch \/ Resume
  PROVE  Owned'
  <1> DEFINE t == cur.tid
  <1>1. TracerType /\ tracees \in [Tids -> TraceeSet] /\ Root \in Tids /\ HeapType
    BY RootType DEF Sound, Typed, TracerType, KernelInv, KernelBase
  <1>2. pc # "done" /\ pc' # "done"
    BY DEF RequestFails, ExitWriteFails, Exited, NoMemory, StartLaunch, Resume, Finish, Handling
  <1>3. Accounted(tracees, heap) BY <1>2 DEF Owned
  <1>4. CASE heap' = heap /\ tracees' = tracees BY <1>2, <1>3, <1>4 DEF Owned
  <1>5. CASE heap' = heap /\ tracees' = [tracees EXCEPT ![t] = [Tracee EXCEPT !.inStop = TRUE]]
    <2>1. CASE t \in Tids BY <1>1, <1>2, <1>3, <1>5, <2>1, TraceeOwns, KeepsOwned
    <2>2. CASE t \notin Tids
      <3>1. tracees' = tracees BY <1>1, <1>5, <2>2
      <3> QED BY <1>4, <1>5, <3>1
    <2> QED BY <2>1, <2>2
  <1>6. CASE heap' = heap /\ \E u : \/ tracees' = [tracees EXCEPT ![u].inStop = FALSE]
                                    \/ tracees' = [tracees EXCEPT ![u].inStop = FALSE, ![u].sig = 0]
    <2>1. PICK u : \/ tracees' = [tracees EXCEPT ![u].inStop = FALSE]
                   \/ tracees' = [tracees EXCEPT ![u].inStop = FALSE, ![u].sig = 0]
      BY <1>6
    <2>2. \A v \in Tids : /\ tracees'[v].known = tracees[v].known
                          /\ tracees'[v].pend = tracees[v].pend
                          /\ tracees'[v].intr = tracees[v].intr
                          /\ tracees'[v].pendArgs = tracees[v].pendArgs
                          /\ tracees'[v].intrArgs = tracees[v].intrArgs
      BY <1>1, <2>1 DEF TraceeSet
    <2>3. \A v \in Tids : OneEach(tracees[v]) BY <1>3 DEF Accounted
    <2>4. \A v \in Tids : Strings(tracees'[v]) = Strings(tracees[v]) BY <2>2 DEF Strings
    <2>5. \A v \in Tids : OneEach(tracees'[v]) BY <2>2, <2>3 DEF OneEach
    <2>6. Accounted(tracees', heap) BY <1>3, <2>4, <2>5, SameAccounted
    <2> QED BY <1>2, <1>6, <2>6 DEF Owned, Accounted, Strings, OneEach, NoCall
  <1>7. ASSUME NEW u \in Tids, NEW tr \in [Tids -> TraceeSet], NEW h, Accounted(tr, h)
        PROVE  Accounted([tr EXCEPT ![u] = Absent], h \ Strings(tr[u]))
    <2>1. \A i : i \in h \ Strings(tr[u]) <=> (i \in h /\ i \notin Strings(tr[u])) \/ i \in Strings(Absent)
      BY FreshOwns
    <2>2. \A i \in Strings(Absent) : i \in Strings(tr[u]) \/ i \notin h BY FreshOwns
    <2> QED BY <1>7, <2>1, <2>2, FreshOwns, ReplaceAccounted
  <1>8. CASE RequestFails BY <1>4, <1>5, <1>8 DEF RequestFails
  <1>9. CASE ExitWriteFails BY <1>6, <1>9 DEF ExitWriteFails
  <1>10. CASE StartLaunch BY <1>4, <1>6, <1>10 DEF StartLaunch
  <1>11. CASE Resume BY <1>6, <1>11 DEF Resume
  <1>12. CASE Exited
    <2>1. \/ heap' = heap /\ tracees' = tracees
          \/ heap' = heap \ Strings(tracees[t]) /\ tracees' = [tracees EXCEPT ![t] = Absent]
      BY <1>12 DEF Exited, release_tracee
    <2>2. t \in Tids BY <1>1, <1>12 DEF Exited, Handling, TracerType
    <2>3. CASE heap' = heap \ Strings(tracees[t]) /\ tracees' = [tracees EXCEPT ![t] = Absent]
      <3>1. Accounted(tracees', heap') BY <1>1, <1>3, <1>7, <2>2, <2>3
      <3> QED BY <1>2, <3>1 DEF Owned, Accounted, Strings, OneEach, NoCall
    <2> QED BY <1>4, <2>1, <2>3
  <1>13. CASE NoMemory
    <2> DEFINE f == cur.stop.msg
               tr == [tracees EXCEPT ![f] = Absent]
               h == heap \ Strings(tracees[f])
    <2>1. \/ heap' = heap /\ tracees' = tracees
          \/ heap' = heap /\ tracees' = [tracees EXCEPT ![t] = [Tracee EXCEPT !.inStop = TRUE]]
          \/ /\ heap' = heap \ (Strings(tracees[f]) \cup Strings(tracees[t]))
             /\ tracees' = [tracees EXCEPT ![f] = Absent, ![t] = Absent]
             /\ Handling({"exec"}) /\ f # t
      BY <1>13 DEF NoMemory
    <2>2. CASE /\ heap' = heap \ (Strings(tracees[f]) \cup Strings(tracees[t]))
               /\ tracees' = [tracees EXCEPT ![f] = Absent, ![t] = Absent]
               /\ Handling({"exec"}) /\ f # t
      <3>1. f \in Tids /\ t \in Tids BY <1>1, <2>2 DEF Handling, TracerType
      <3>2. Accounted(tr, h) BY <1>1, <1>3, <1>7, <3>1
      <3>3. tr \in [Tids -> TraceeSet] /\ tr[t] = tracees[t] BY <1>1, <2>2, <3>1, FreshType
      <3>4. tracees' = [tr EXCEPT ![t] = Absent] /\ heap' = h \ Strings(tr[t]) BY <2>2, <3>3
      <3> HIDE DEF tr, h
      <3>5. Accounted(tracees', heap') BY <1>7, <3>1, <3>2, <3>3, <3>4
      <3> QED BY <1>2, <3>5 DEF Owned, Accounted, Strings, OneEach, NoCall
    <2> QED BY <1>4, <1>5, <2>1, <2>2
  <1> QED BY <1>8, <1>9, <1>10, <1>11, <1>12, <1>13

LEMMA QuietOwned ==
  ASSUME Owned, UNCHANGED <<tracees, heap>>, pc' = "done" <=> pc = "done"
  PROVE  Owned'
  BY DEF Owned, Accounted, Strings, OneEach, NoCall

LEMMA DoneOwned ==
  ASSUME Owned, Done, pc # "done"
  PROVE  Owned'
  <1>1. heap' = {}
    <2> SUFFICES ASSUME NEW i \in heap PROVE i \in UNION {Strings(tracees[t]) : t \in Known}
      BY DEF Done, release_all_tracees
    <2>1. PICK t \in Tids : i \in Strings(tracees[t]) /\ OneEach(tracees[t])
      BY DEF Owned, Accounted
    <2>2. tracees[t].known BY <2>1 DEF OneEach, Strings
    <2> QED BY <2>1, <2>2 DEF Known
  <1> QED BY <1>1 DEF Owned, Done

LEMMA OwnedNext ==
  ASSUME Sound, Owned, [Next]_vars
  PROVE  Owned'
  <1>1. CASE SyscallEntry \/ EntryFails \/ SyscallExit \/ ExecStop \/ WriteFails
    BY <1>1, EntryOwned, EntryFailsOwned, ExitOwned, ExecOwned, WriteFailsOwned
  <1>2. CASE EventStop \/ ForkStop \/ NewbornStop \/ SignalStop \/ GroupStop
    BY <1>2, MarkedOwned
  <1>3. CASE RequestFails \/ ExitWriteFails \/ Exited \/ NoMemory \/ StartLaunch \/ Resume
    BY <1>3, FailedOwned
  <1>4. CASE TasksStep \/ (\E t \in Tids : TracerGone(t)) \/ UNCHANGED vars
    BY <1>4, QuietOwned DEF TasksStep, TracerGone, vars, tracer
  <1>5. CASE LoopEnds \/ Block \/ WaitFails \/ ListenFails \/ Untracked \/ ResumeTooLate \/ KillAll
             \/ InterruptRunning \/ DetachWaited
             \/ (\E s \in ShutdownSignals : ShutdownArrives(s))
    <2>1. UNCHANGED <<tracees, heap>> /\ pc # "done" /\ pc' # "done"
      BY <1>5 DEF LoopEnds, Block, WaitFails, ListenFails, Untracked, ResumeTooLate, KillAll,
             InterruptRunning, DetachWaited, ShutdownArrives, Finish
    <2> QED BY <2>1, QuietOwned
  <1>6. CASE \E t \in Tids : InterruptOne(t) \/ Wait(t) \/ Reap(t) \/ DetachStopped(t)
                             \/ DetachNext(t)
    <2>1. UNCHANGED <<tracees, heap>> /\ pc # "done" /\ pc' # "done"
      BY <1>6 DEF InterruptOne, Wait, Reap, DetachStopped, DetachNext, tracer
    <2> QED BY <2>1, QuietOwned
  <1>7. CASE CleanUp \/ AllReaped \/ Detached
    <2>1. \/ Done /\ pc # "done"
          \/ UNCHANGED <<tracees, heap>> /\ pc # "done" /\ pc' # "done"
      BY <1>7 DEF CleanUp, AllReaped, Detached
    <2> QED BY <2>1, QuietOwned, DoneOwned
  <1> QED BY <1>1, <1>2, <1>3, <1>4, <1>5, <1>6, <1>7
          DEF Next, TracerStep, Outside, Terminated, Stopped

LEMMA OwnedInit ==
  ASSUME Init
  PROVE  Owned
  <1> DEFINE y == [Fresh(FALSE) EXCEPT !.inStop = TRUE]
  <1>1. y.pendArgs = 0 /\ y.intrArgs = 0 /\ y.known BY DEF Fresh
  <1>2. Strings(y) = {} /\ OneEach(y) BY <1>1 DEF Strings, OneEach
  <1>3. tracees = [t \in Tids |-> IF t \notin InitTasks THEN Absent
                                  ELSE IF Mode = "attach" THEN Fresh(TRUE) ELSE y]
    BY DEF Init
  <1> HIDE DEF y
  <1>4. \A t \in Tids : Strings(tracees[t]) = {} /\ OneEach(tracees[t]) BY <1>2, <1>3, FreshOwns
  <1>5. Accounted(tracees, {}) BY <1>4 DEF Accounted
  <1> QED BY <1>5 DEF Init, Owned

(* No string sg_decoder_capture_entry allocates is leaked or freed twice,  *)
(* however calls are completed, given up, interrupted and entered again,   *)
(* moved to another tid by an exec or cut off, and whatever fails on the   *)
(* way: at every step the allocated ones are those the records point to,   *)
(* each from one place, and sg_trace_run leaves none behind.               *)
THEOREM NoStringLeaks == Spec => []StringsOwned
  <1>1. Init => Owned BY OwnedInit
  <1>2. Sound /\ Owned /\ [Next]_vars => Owned' BY OwnedNext
  <1>3. Owned => StringsOwned
    <2> SUFFICES ASSUME Owned PROVE StringsOwned OBVIOUS
    <2>1. CASE pc = "done" BY <2>1 DEF Owned, StringsOwned
    <2>2. CASE pc # "done"
      <3>1. Accounted(tracees, heap) BY <2>2 DEF Owned
      <3>2. \A t \in Tids : OneEach(tracees[t]) BY <3>1 DEF Accounted
      <3>3. heap = UNION {Strings(tracees[t]) : t \in Known}
        <4>1. ASSUME NEW i \in heap PROVE i \in UNION {Strings(tracees[t]) : t \in Known}
          <5>1. PICK t \in Tids : i \in Strings(tracees[t]) BY <3>1, <4>1 DEF Accounted
          <5>2. tracees[t].known BY <3>2, <5>1 DEF OneEach, Strings
          <5> QED BY <5>1, <5>2 DEF Known
        <4>2. ASSUME NEW t \in Known PROVE Strings(tracees[t]) \subseteq heap
          BY <3>1 DEF Accounted, Known
        <4> QED BY <4>1, <4>2
      <3>4. \A t \in Known : tracees[t].pendArgs = tracees[t].intrArgs => Strings(tracees[t]) = {}
        BY <3>2 DEF Known, OneEach, Strings
      <3>5. \A t, u \in Known : t # u => Strings(tracees[t]) \cap Strings(tracees[u]) = {}
        BY <3>1 DEF Accounted, Known
      <3> QED BY <2>2, <3>3, <3>4, <3>5 DEF StringsOwned
    <2> QED BY <2>1, <2>2
  <1> QED BY <1>1, <1>2, <1>3, AlwaysSound, PTL DEF Spec

-----------------------------------------------------------------------------
(* What no step undoes (Ages). *)
LEMMA TasksAge ==
  ASSUME Typed, TasksStep
  PROVE  \A u \in Tids : Ages(task', u)
  <1>1. KernelBase /\ Groups(task) /\ GoodTasks /\ 0 \notin Tids
    BY KernelAssumption DEF Typed, KernelInv, KernelBase
  <1>2. \/ Everyone(task')
        \/ \E t, c \in Tids : Forked(t, c, task')
        \/ \E t \in Tids : TakenOver(t, task[t].tg, task')
    BY <1>1, TasksEffect
  <1>3. CASE Everyone(task') BY <1>3, PlainAges DEF Everyone
  <1>4. CASE \E t, c \in Tids : Forked(t, c, task') BY <1>4 DEF Forked, Ages, At
  <1>5. ASSUME NEW t \in Tids, TakenOver(t, task[t].tg, task')
        PROVE  \A u \in Tids : Ages(task', u)
    <2>1. task[t].st = "exec" /\ task[t].tg \in Tids
      BY <1>1, <1>5 DEF TakenOver, GoodTasks, GoodTask
    <2>2. task[task[t].tg].st # "gone" /\ task[task[t].tg].tg = task[t].tg
      BY <1>1, <2>1 DEF Groups, Grouped
    <2> QED BY <1>5, <2>1, <2>2 DEF TakenOver, Ages, At
  <1> QED BY <1>2, <1>3, <1>4, <1>5

LEMMA EveryoneAges ==
  ASSUME Typed, NEW f, Everyone(f)
  PROVE  \A u \in Tids : Ages(f, u)
  BY PlainAges DEF Everyone

LEMMA EveryStepAges ==
  ASSUME Sound, [Next]_vars
  PROVE  \A u \in Tids : Ages(task', u)
  <1>1. Typed /\ TracerType /\ GoodTasks /\ Root \in Tids
    BY RootType DEF Sound, Typed, KernelInv, KernelBase
  <1>2. task' = task => \A u \in Tids : Ages(task', u) BY DEF Ages
  <1>3. CASE TasksStep BY <1>1, <1>3, TasksAge
  <1>4. CASE StartLaunch
    <2> DEFINE h == ResumeRequest(tracees[Root])
    <2>1. CASE InStop(Root)
      <3>1. PtraceResume(Root, 0, h) BY <1>4, <2>1 DEF StartLaunch
      <3>2. h \in {"CONT", "SYSCALL", "free"} /\ 0 \in Nat BY ResumeRequestType
      <3> HIDE DEF h
      <3>3. SetGoing(Root, h, task') BY <1>1, <3>1, <3>2, ResumeEffect
      <3> QED BY <1>1, <3>3, GoingAges
    <2>2. CASE ~InStop(Root) BY <1>2, <1>4, <2>2 DEF StartLaunch, kernel
    <2> QED BY <2>1, <2>2
  <1>5. CASE Resume
    <2> DEFINE t == cur.tid
               h == ResumeRequest(tracees[t])
    <2>1. t \in Tids /\ cur.deliver \in Nat BY <1>1, <1>5 DEF Resume, TracerType, CurSet
    <2>2. CASE cur.listen
      <3>1. PtraceListen(t) BY <1>5, <2>2 DEF Resume
      <3>2. Listens(task[t], task'[t]) /\ \A u \in Tids \ {t} : task'[u] = task[u]
        BY <1>1, <2>1, <3>1, ListenEffect
      <3> QED BY <3>2 DEF Listens, Ages, At
    <2>3. CASE ~cur.listen
      <3>1. PtraceResume(t, cur.deliver, h) BY <1>5, <2>3 DEF Resume
      <3>2. h \in {"CONT", "SYSCALL", "free"} BY ResumeRequestType
      <3> HIDE DEF h
      <3>3. SetGoing(t, h, task') BY <1>1, <2>1, <3>1, <3>2, ResumeEffect
      <3> QED BY <2>1, <3>3, GoingAges
    <2> QED BY <2>2, <2>3
  <1>6. CASE InterruptRunning \/ KillAll \/ \E t \in Tids : InterruptOne(t)
    <2>1. (\E T : task' = Trapped(T)) \/ task' = Killed(ToKill)
      BY <1>6 DEF InterruptRunning, KillAll, InterruptOne
    <2> QED BY <1>1, <2>1, TrappedEffect, KilledEffect, EveryoneAges
  <1>7. CASE \E t \in Tids : Wait(t) \/ Reap(t)
    BY <1>1, <1>7, ReportAges DEF Wait, Reap
  <1>8. CASE NoMemory
    <2>1. \/ task' = task \/ task' = Killed({Now.msg})
          \/ /\ pc = "handle" /\ cur.stop.kind = "fork" /\ InStop(cur.tid)
             /\ PtraceDetach(Now.msg, 0)
      BY <1>8 DEF NoMemory, Handling, kernel
    <2>2. CASE /\ pc = "handle" /\ cur.stop.kind = "fork" /\ InStop(cur.tid)
               /\ PtraceDetach(Now.msg, 0)
      <3>1. At(task[cur.tid], "fork") \/ At(task[cur.tid], "exec")
        BY <2>2 DEF Sound, Held, HeldTask, At, InStop
      <3>2. cur.tid \in Tids BY <1>1, <2>2 DEF TracerType
      <3>3. Now.msg \in Tids /\ 0 \in Nat
        BY <1>1, <3>1, <3>2 DEF GoodTasks, GoodTask, StopAgrees, Now
      <3> QED BY <1>1, <2>2, <3>3, DetachAges
    <2> QED BY <1>1, <1>2, <2>1, <2>2, KilledEffect, EveryoneAges
  <1>9. ASSUME NEW t \in Tids, DetachStopped(t) PROVE \A u \in Tids : Ages(task', u)
    <2>1. tracees[t].sig \in Nat BY <1>1 DEF TracerType, TraceeSet
    <2> QED BY <1>1, <1>2, <1>9, <2>1, DetachAges DEF DetachStopped, kernel
  <1>10. \A t \in Tids : DetachSignal(task[t].stop) \in Nat
    BY <1>1, DetachSignalType DEF GoodTasks, TaskSet
  <1>11. CASE DetachWaited
    <2>1. cur.tid \in Tids BY <1>1, <1>11 DEF DetachWaited, TracerType
    <2>2. \/ PtraceDetach(cur.tid, DetachSignal(task[cur.tid].stop))
          \/ Waitable(cur.tid) /\ task' = Report(cur.tid)
          \/ task' = task
      BY <1>11 DEF DetachWaited
    <2> QED BY <1>1, <1>2, <1>10, <2>1, <2>2, DetachAges, ReportAges
  <1>12. ASSUME NEW t \in Tids, TracerGone(t) PROVE \A u \in Tids : Ages(task', u)
    <2>1. \/ PtraceDetach(t, DetachSignal(task[t].stop))
          \/ Alive(t) /\ task' = [task EXCEPT ![t].how = "free", ![t].trap = FALSE]
      BY <1>12 DEF TracerGone
    <2>2. CASE Alive(t) /\ task' = [task EXCEPT ![t].how = "free", ![t].trap = FALSE]
      <3>1. \A u \in Tids : /\ task'[u].tg = task[u].tg /\ task'[u].st = task[u].st
                            /\ task'[u].stop = task[u].stop
        BY <1>1, <2>2, LetGoEffect
      <3>2. \A u \in Tids \ {t} : task'[u] = task[u] BY <1>1, <2>2 DEF GoodTasks
      <3> QED BY <2>2, <3>1, <3>2 DEF Ages, Alive, At
    <2> QED BY <1>1, <1>10, <2>1, <2>2, DetachAges
  <1>13. CASE \/ SyscallEntry \/ SyscallExit \/ EventStop \/ ForkStop \/ ExecStop
              \/ NewbornStop \/ SignalStop \/ GroupStop
    BY <1>1, <1>2, <1>13, HandlerHandsOn DEF HandsOn
  <1>14. CASE \/ LoopEnds \/ Block \/ WaitFails \/ ListenFails \/ Exited \/ Untracked \/ RequestFails
              \/ ExitWriteFails \/ ResumeTooLate \/ CleanUp \/ AllReaped \/ Detached
              \/ (\E s \in ShutdownSignals : ShutdownArrives(s))
              \/ (\E t \in Tids : DetachNext(t)) \/ UNCHANGED vars
    BY <1>2, <1>14 DEF LoopEnds, Block, WaitFails, ListenFails, Exited, Untracked, RequestFails,
           ExitWriteFails, ResumeTooLate, CleanUp, AllReaped, Detached, ShutdownArrives, DetachNext,
           vars, kernel
  <1>15. CASE Failing BY <1>2, <1>15, FailingEnds DEF kernel
  <1> QED BY <1>3, <1>4, <1>5, <1>6, <1>7, <1>8, <1>9, <1>11, <1>12, <1>13, <1>14, <1>15
          DEF Next, TracerStep, Outside, Terminated, Stopped, Failing

-----------------------------------------------------------------------------
(* has_pending_syscall is in step with the kernel (Before, After). *)

(* The stop the tracer is about to resume from. *)
Answered(t) == (pc = "resume" /\ t = cur.tid) \/ (pc = "start" /\ t = Root)

StepOf(t) ==
  /\ Alive(t) => IF Answered(t) THEN After(task[t], tracees[t].pend)
                 ELSE Before(task[t], tracees[t].pend)
  /\ task[t].st = "none" \/ ~tracees[t].known => tracees[t].pend = NoCall

InStep ==
  pc \in Loop => /\ \A t \in Tids : StepOf(t)
                 /\ pc = "start" => task[Root].st \in {"stop", "zombie", "gone"}

LEMMA AnsweredStopped ==
  ASSUME Sound, InStep, NEW t \in Tids, Answered(t)
  PROVE  task[t].st \in {"stop", "zombie", "gone"}
  BY DEF Sound, InStep, Answered, Held, HeldTask, Loop, At

(* What holds of the tasks after a step of theirs, or an interrupt. *)
LEMMA PlainInStep ==
  ASSUME Sound, InStep, pc \in Loop, NEW t \in Tids, Plain(task[t], task'[t])
  PROVE  /\ Alive(t)' => /\ Answered(t) => After(task'[t], tracees[t].pend)
                         /\ ~Answered(t) => Before(task'[t], tracees[t].pend)
         /\ task'[t].st = "none" => tracees[t].pend = NoCall
         /\ Answered(t) => task'[t].st \in {"stop", "zombie", "gone"}
  <1> DEFINE r == task[t]
             s == task'[t]
             p == tracees[t].pend
  <1>1. GoodTask(r) /\ r.how # "free"
    BY DEF Sound, Typed, KernelInv, KernelBase, GoodTasks, NoneFree
  <1>2. StepOf(t) BY DEF InStep
  <1>3. Alive(t) <=> Living(r) BY DEF Alive, Living
  <1>4. Alive(t)' <=> Living(s) BY DEF Alive, Living
  <1>5. s.st = "none" => p = NoCall BY <1>2, PlainKept DEF Kept, StepOf
  <1>6. CASE Answered(t)
    <2>1. r.st \in {"stop", "zombie", "gone"} BY <1>6, AnsweredStopped
    <2>2. /\ s.st \in {"stop", "zombie", "gone"}
          /\ s.st = "stop" => /\ r.st = "stop" /\ s.stop = r.stop
                              /\ s.how = r.how /\ s.call = r.call
      BY <2>1, PlainStopped
    <2>3. Alive(t)' => After(s, p)
      <3> SUFFICES ASSUME Living(s) PROVE After(s, p) BY <1>4
      <3>1. s.st = "stop" BY <2>2 DEF Living
      <3>2. After(r, p) BY <1>2, <1>6, <2>2, <3>1 DEF StepOf, Alive
      <3> QED BY <2>2, <3>1, <3>2, SameAfter
    <2> QED BY <1>5, <1>6, <2>2, <2>3
  <1>7. CASE ~Answered(t)
    <2>1. Alive(t)' => Before(s, p)
      <3> SUFFICES ASSUME Living(s) PROVE Before(s, p) BY <1>4
      <3>1. Living(r) BY DEF Plain, Stays, Dies, Moves, Living
      <3>2. Before(r, p) BY <1>2, <1>3, <1>7, <3>1 DEF StepOf
      <3> QED BY <1>1, <3>2, PlainBefore
    <2> QED BY <1>5, <1>7, <2>1
  <1> QED BY <1>6, <1>7

LEMMA StepKept ==
  ASSUME config' = config, NEW t \in Tids,
         Alive(t)' => IF Answered(t)' THEN After(task'[t], tracees'[t].pend)
                      ELSE Before(task'[t], tracees'[t].pend),
         task'[t].st = "none" \/ ~tracees'[t].known => tracees'[t].pend = NoCall
  PROVE  StepOf(t)'
  <1>1. Seccomp' = Seccomp BY DEF Seccomp
  <1>2. After(task[t], tracees[t].pend)' <=> After(task'[t], tracees'[t].pend)
    BY <1>1 DEF After, Before, Within, Ends, At
  <1>3. Before(task[t], tracees[t].pend)' <=> Before(task'[t], tracees'[t].pend)
    BY <1>1 DEF Before, Within, Ends, At
  <1> QED BY <1>2, <1>3 DEF StepOf

LEMMA TasksInStep ==
  ASSUME Sound, InStep, TasksStep, pc \in Loop
  PROVE  InStep'
  <1>1. KernelBase /\ GoodTasks /\ Root \in Tids /\ 0 \notin Tids
    BY RootType, KernelAssumption DEF Sound, Typed, KernelInv, KernelBase
  <1>2. /\ config' = config /\ UNCHANGED <<tracees, pc, cur>>
        /\ \/ Everyone(task')
           \/ \E t, c \in Tids : Forked(t, c, task')
           \/ \E t \in Tids : TakenOver(t, task[t].tg, task')
    BY <1>1, TasksEffect DEF TasksStep, tracer
  <1>3. Root' = Root BY <1>2 DEF Root, InitTasks
  <1>4. \A t \in Tids : Answered(t)' <=> Answered(t) BY <1>2, <1>3 DEF Answered
  <1> DEFINE Good(t) == /\ Alive(t)' => /\ Answered(t) => After(task'[t], tracees[t].pend)
                                        /\ ~Answered(t) => Before(task'[t], tracees[t].pend)
                        /\ task'[t].st = "none" => tracees[t].pend = NoCall
                        /\ Answered(t) => task'[t].st \in {"stop", "zombie", "gone"}
  <1>5. \A t \in Tids : Plain(task[t], task'[t]) => Good(t) BY PlainInStep
  <1>6. \A t \in Tids : task'[t] = task[t] => Good(t) BY <1>5 DEF Plain
  <1>7. \A t \in Tids : StepOf(t) /\ task[t].how # "free" /\ GoodTask(task[t])
    BY <1>1 DEF InStep, Sound, NoneFree, GoodTasks
  <1>8. \A t \in Tids : Answered(t) => task[t].st \in {"stop", "zombie", "gone"}
    BY AnsweredStopped
  <1>9. \A t \in Tids : Good(t)
    <2>1. CASE Everyone(task') BY <1>5, <2>1 DEF Everyone
    <2>2. ASSUME NEW a \in Tids, NEW c \in Tids, Forked(a, c, task') PROVE \A t \in Tids : Good(t)
      <3>1. \A t \in Tids \ {a, c} : Good(t) BY <1>6, <2>2 DEF Forked
      <3>2. Good(a)
        <4>1. /\ task[a].st = "sys" /\ task'[a].st = "spawned" /\ task'[a].how = task[a].how
              /\ ~Answered(a) /\ Alive(a) /\ StepOf(a)
          BY <1>7, <1>8, <2>2 DEF Forked, Alive
        <4>2. Before(task[a], tracees[a].pend) BY <4>1 DEF StepOf
        <4>3. Before(task'[a], tracees[a].pend) BY <4>1, <4>2 DEF Before, Within, Ends, At
        <4> QED BY <4>1, <4>3
      <3>3. Good(c)
        <4>1. /\ task[c].st = "none" /\ task'[c].st = "user" /\ task'[c].how = "CONT"
              /\ ~Answered(c) /\ StepOf(c)
          BY <1>7, <1>8, <2>2 DEF Forked
        <4>2. Before(task'[c], tracees[c].pend) BY <4>1 DEF StepOf, Before, Within, At
        <4> QED BY <4>1, <4>2
      <3> QED BY <3>1, <3>2, <3>3
    <2>3. ASSUME NEW a \in Tids, NEW l, l = task[a].tg, TakenOver(a, l, task')
          PROVE  \A t \in Tids : Good(t)
      <3>1. task[a].st = "exec" /\ l \in Tids BY <1>7, <2>3 DEF TakenOver, GoodTask
      <3>2. \A t \in Tids \ {a, l} : Good(t) BY <1>6, <2>3 DEF TakenOver
      <3>3. At(task'[l], "exec") BY <1>7, <2>3 DEF TakenOver
      <3>4. Good(l) BY <3>3 DEF After, Before, At
      <3>5. a # l => Good(a) BY <1>8, <2>3, <3>1 DEF TakenOver, Alive
      <3> QED BY <3>2, <3>4, <3>5
    <2> QED BY <1>2, <2>1, <2>2, <2>3
  <1> HIDE DEF Good
  <1>10. ASSUME NEW t \in Tids PROVE StepOf(t)'
    <2>1. Good(t) /\ StepOf(t) BY <1>7, <1>9
    <2>2. Alive(t)' => IF Answered(t)' THEN After(task'[t], tracees'[t].pend)
                      ELSE Before(task'[t], tracees'[t].pend)
      BY <1>2, <1>4, <2>1 DEF Good
    <2>3. task'[t].st = "none" \/ ~tracees'[t].known => tracees'[t].pend = NoCall
      BY <1>2, <2>1 DEF Good, StepOf
    <2> QED BY <1>2, <2>2, <2>3, StepKept
  <1>11. pc = "start" => task'[Root].st \in {"stop", "zombie", "gone"}
    BY <1>1, <1>9 DEF Good, Answered
  <1> QED BY <1>2, <1>3, <1>10, <1>11 DEF InStep

LEMMA InterruptInStep ==
  ASSUME Sound, InStep, config' = config, NEW u \in Tids, InterruptOne(u)
  PROVE  InStep'
  <1>1. GoodTasks BY DEF Sound, Typed, KernelInv, KernelBase
  <1>2. /\ task' = Trapped({u}) /\ pc = "interrupt" /\ pc' \in {"interrupt", "wait"}
        /\ UNCHANGED <<tracees, cur>>
    BY DEF InterruptOne
  <1>3. Everyone(task') BY <1>1, <1>2, TrappedEffect
  <1>4. \A t \in Tids : ~Answered(t) /\ ~Answered(t)' BY <1>2 DEF Answered
  <1>5. ASSUME NEW t \in Tids PROVE StepOf(t)'
    <2>1. Plain(task[t], task'[t]) /\ pc \in Loop /\ StepOf(t)
      BY <1>2, <1>3 DEF Everyone, Loop, InStep
    <2>2. /\ Alive(t)' => Before(task'[t], tracees[t].pend)
          /\ task'[t].st = "none" => tracees[t].pend = NoCall
      BY <1>4, <2>1, PlainInStep
    <2>3. task'[t].st = "none" \/ ~tracees'[t].known => tracees'[t].pend = NoCall
      BY <1>2, <2>1, <2>2 DEF StepOf
    <2> QED BY <1>2, <1>4, <2>2, <2>3, StepKept
  <1> QED BY <1>2, <1>5 DEF InStep

(* The tracer sets the task whose stop it has answered going. *)
LEMMA ResumeInStep ==
  ASSUME Sound, InStep, config' = config, pc \in Loop, NEW t \in Tids, Answered(t), InStop(t),
         \/ SetGoing(t, ResumeRequest(tracees[t]), task')
         \/ Listens(task[t], task'[t]) /\ \A u \in Tids \ {t} : task'[u] = task[u],
         \A u \in Tids : tracees'[u].pend = tracees[u].pend /\ tracees'[u].known = tracees[u].known,
         pc' = "wait"
  PROVE  InStep'
  <1>1. GoodTask(task[t]) /\ task[t].how # "free" /\ task[t].st = "stop"
    BY DEF Sound, Typed, KernelInv, KernelBase, GoodTasks, NoneFree, InStop
  <1>2. \A u \in Tids : ~Answered(u)' BY DEF Answered
  <1>3. \A u \in Tids : StepOf(u) BY DEF InStep
  <1>4. After(task[t], tracees[t].pend) BY <1>1, <1>3 DEF StepOf, Alive
  <1>5. ASSUME NEW u \in Tids
        PROVE  /\ Alive(u)' => Before(task'[u], tracees[u].pend)
               /\ task'[u].st = "none" => tracees[u].pend = NoCall
    <2>1. CASE u # t
      <3>1. Plain(task[u], task'[u]) BY <2>1 DEF SetGoing, Plain
      <3>2. ~Answered(u) BY <2>1 DEF Answered
      <3> QED BY <3>1, <3>2, PlainInStep
    <2>2. CASE u = t /\ SetGoing(t, ResumeRequest(tracees[t]), task')
      <3>1. Dies(task[t], task'[t]) \/ GoesOn(task[t], task'[t], ResumeRequest(tracees[t]))
        BY <2>2 DEF SetGoing
      <3>2. CASE Dies(task[t], task'[t]) BY <2>2, <3>2 DEF Dies, Alive
      <3>3. CASE GoesOn(task[t], task'[t], ResumeRequest(tracees[t]))
        <4>1. Before(task'[t], tracees[t].pend)
          BY <1>1, <1>4, <3>3, GoesOnBefore DEF ResumeRequest
        <4>2. task'[t].st # "none" BY <3>3 DEF GoesOn, At
        <4> QED BY <2>2, <4>1, <4>2
      <3> QED BY <3>1, <3>2, <3>3
    <2>3. CASE u = t /\ Listens(task[t], task'[t])
      <3>1. At(task[t], "event_stop") /\ task'[t].how = task[t].how BY <2>3 DEF Listens
      <3>2. task'[t].st = "listen" \/ At(task'[t], "event_stop") BY <2>3 DEF Listens
      <3>3. Before(task[t], tracees[t].pend) BY <1>4, <3>1 DEF After, At
      <3>4. Before(task'[t], tracees[t].pend) BY <3>1, <3>2, <3>3 DEF Before, Within, At
      <3> QED BY <2>3, <3>2, <3>4 DEF At
    <2> QED BY <2>1, <2>2, <2>3
  <1>6. ASSUME NEW u \in Tids PROVE StepOf(u)'
    <2>1. task'[u].st = "none" \/ ~tracees'[u].known => tracees'[u].pend = NoCall
      BY <1>3, <1>5 DEF StepOf
    <2>2. Alive(u)' => Before(task'[u], tracees'[u].pend) BY <1>5
    <2> QED BY <1>2, <2>1, <2>2, StepKept
  <1> QED BY <1>6 DEF InStep

LEMMA StartInStep ==
  ASSUME Sound, InStep, config' = config, StartLaunch, pc' \in Loop
  PROVE  InStep'
  <1>1. GoodTasks /\ Root \in Tids /\ tracees \in [Tids -> TraceeSet]
    BY RootType DEF Sound, Typed, KernelInv, KernelBase, TracerType
  <1>2. InStop(Root) /\ pc = "start" /\ pc' = "wait"
        /\ PtraceResume(Root, 0, ResumeRequest(tracees[Root]))
        /\ tracees' = [tracees EXCEPT ![Root].inStop = FALSE]
    BY DEF StartLaunch, Loop
  <1>3. ResumeRequest(tracees[Root]) \in {"CONT", "SYSCALL", "free"} /\ 0 \in Nat
    BY ResumeRequestType
  <1>4. SetGoing(Root, ResumeRequest(tracees[Root]), task') BY <1>1, <1>2, <1>3, ResumeEffect
  <1>5. \A u \in Tids : tracees'[u].pend = tracees[u].pend /\ tracees'[u].known = tracees[u].known
    BY <1>1, <1>2 DEF TraceeSet
  <1>6. Answered(Root) /\ pc \in Loop BY <1>2 DEF Answered, Loop
  <1> QED BY <1>1, <1>2, <1>4, <1>5, <1>6, ResumeInStep

LEMMA ResumedInStep ==
  ASSUME Sound, InStep, config' = config, Resume, pc' \in Loop
  PROVE  InStep'
  <1> DEFINE t == cur.tid
  <1>1. /\ GoodTasks /\ t \in Tids /\ cur.deliver \in Nat /\ tracees \in [Tids -> TraceeSet]
    BY DEF Sound, Typed, KernelInv, KernelBase, TracerType, Resume, CurSet
  <1>2. /\ pc = "resume" /\ InStop(t) /\ pc' = "wait"
        /\ tracees' = [tracees EXCEPT ![t].inStop = FALSE, ![t].sig = 0]
    BY DEF Resume, Finish, Loop
  <1>3. \A u \in Tids : tracees'[u].pend = tracees[u].pend /\ tracees'[u].known = tracees[u].known
    BY <1>1, <1>2 DEF TraceeSet
  <1>4. Answered(t) /\ pc \in Loop BY <1>2 DEF Answered, Loop
  <1>5. \/ SetGoing(t, ResumeRequest(tracees[t]), task')
        \/ Listens(task[t], task'[t]) /\ \A u \in Tids \ {t} : task'[u] = task[u]
    <2>1. CASE cur.listen
      <3>1. PtraceListen(t) BY <2>1 DEF Resume
      <3> QED BY <1>1, <3>1, ListenEffect
    <2>2. CASE ~cur.listen
      <3>1. PtraceResume(t, cur.deliver, ResumeRequest(tracees[t])) BY <2>2 DEF Resume
      <3>2. ResumeRequest(tracees[t]) \in {"CONT", "SYSCALL", "free"} BY ResumeRequestType
      <3> QED BY <1>1, <3>1, <3>2, ResumeEffect
    <2> QED BY <2>1, <2>2
  <1> HIDE DEF t
  <1> QED BY <1>1, <1>2, <1>3, <1>4, <1>5, ResumeInStep

-----------------------------------------------------------------------------
(* What an exec's event says of the thread whose execve it was, while the  *)
(* task is in that stop and while the loop acts on it.                     *)
ExecLeft ==
  /\ \A t \in Tids : At(task[t], "exec") => \/ task[t].stop.msg = t
                                            \/ task[task[t].stop.msg].st = "gone"
  /\ pc = "handle" /\ cur.stop.kind = "exec" =>
       /\ task[cur.stop.msg].tg = cur.tid
       /\ cur.stop.msg = cur.tid \/ task[cur.stop.msg].st = "gone"

(* What the two syscall handlers leave of the record, and an exec of the   *)
(* one it goes on with.                                                    *)
LEMMA EntryActs ==
  ASSUME Sound, SyscallEntry
  PROVE  \E b \in TraceeSet : /\ SameTask(Tracee, b) /\ root' = root
                              /\ \E o : ToResume(tracees, b, o, 0, FALSE)
  <1> DEFINE r == Tracee
             c == Entered
             b == begin_tracee(r, c)
  <1>1. cur.tid \in Tids /\ tracees \in [Tids -> TraceeSet] /\ HeapType
    BY DEF Sound, Typed, TracerType, SyscallEntry, AtEntry, Handling
  <1>2. GoodTask(task[cur.tid]) BY <1>1 DEF Sound, Typed, KernelInv, KernelBase, GoodTasks
  <1>3. c \in CallSet BY <1>2 DEF Entered, GoodTask, TaskSet
  <1>4. r \in TraceeSet BY <1>1, FreshType DEF Tracee
  <1>5. root' = root /\ \E o : ToResume(tracees, b, o, 0, FALSE) BY DEF SyscallEntry
  <1> HIDE DEF r, c
  <1>6. b \in TraceeSet /\ SameTask(r, b) BY <1>1, <1>3, <1>4, BeginIs
  <1> HIDE DEF b
  <1> QED BY <1>5, <1>6 DEF r

LEMMA ExitActs ==
  ASSUME Sound, SyscallExit
  PROVE  \E b \in TraceeSet : /\ SameTask(Tracee, b) /\ root' = root
                              /\ \E o : ToResume(tracees, b, o, 0, FALSE)
  <1> DEFINE r == Tracee
             b == finish_tracee(r, Now.val)
  <1>1. cur.tid \in Tids /\ tracees \in [Tids -> TraceeSet]
    BY DEF Sound, Typed, TracerType, SyscallExit, AtExit, Handling
  <1>2. r \in TraceeSet BY <1>1, FreshType DEF Tracee
  <1>3. root' = root /\ \E o : ToResume(tracees, b, o, 0, FALSE) BY DEF SyscallExit
  <1> HIDE DEF r
  <1>4. b \in TraceeSet /\ SameTask(r, b) BY <1>2, FinishIs
  <1> HIDE DEF b
  <1> QED BY <1>3, <1>4 DEF r

LEMMA ExecEnds ==
  ASSUME NEW tr \in [Tids -> TraceeSet], NEW t \in Tids
  PROVE  LET x == [Ended(ExecTracee(tr[t])) EXCEPT !.newborn = FALSE]
         IN  x \in TraceeSet /\ x.known /\ x.pend = NoCall
  <1> DEFINE r == ExecTracee(tr[t])
             e == Ended(r)
  <1>1. r \in TraceeSet /\ r.known
    <2>1. CASE tr[t].known
      <3>1. r = tr[t] BY <2>1 DEF ExecTracee
      <3> QED BY <2>1, <3>1
    <2>2. CASE ~tr[t].known
      <3>1. r = Fresh(TRUE) BY <2>2 DEF ExecTracee
      <3> QED BY <3>1, FreshType
    <2> QED BY <2>1, <2>2
  <1> HIDE DEF r
  <1>2. e \in TraceeSet /\ e.known /\ e.pend = NoCall BY <1>1, EndedIs
  <1> HIDE DEF e
  <1>3. LET x == [e EXCEPT !.newborn = FALSE] IN x \in TraceeSet /\ x.known /\ x.pend = NoCall
    BY <1>2 DEF TraceeSet
  <1> QED BY <1>3 DEF e, r

(* Only waitpid starts the handling of an event. *)
LEMMA HandleStarts ==
  ASSUME TracerType, [Next]_vars, pc' = "handle", ~\E t \in Tids : Wait(t)
  PROVE  pc = "handle" /\ cur' = cur
  <1>1. CASE TasksStep \/ UNCHANGED vars BY <1>1 DEF TasksStep, tracer, vars
  <1>2. CASE \/ SyscallEntry \/ SyscallExit \/ EventStop \/ ForkStop \/ ExecStop
             \/ NewbornStop \/ SignalStop \/ GroupStop
    BY <1>2, HandlerHandsOn DEF HandsOn
  <1>3. CASE \/ StartLaunch \/ LoopEnds \/ Block \/ WaitFails \/ ListenFails \/ Exited \/ Untracked
             \/ RequestFails \/ ExitWriteFails \/ NoMemory \/ Resume \/ ResumeTooLate
             \/ CleanUp \/ KillAll \/ AllReaped \/ InterruptRunning \/ DetachWaited \/ Detached
    BY <1>3 DEF StartLaunch, LoopEnds, Block, WaitFails, ListenFails, Exited, Untracked, RequestFails,
           ExitWriteFails, NoMemory, Resume, ResumeTooLate, CleanUp, KillAll, AllReaped,
           InterruptRunning, DetachWaited, Detached, Done, Finish
  <1>4. CASE \/ \E t \in Tids : \/ InterruptOne(t) \/ Reap(t) \/ DetachStopped(t)
                                \/ DetachNext(t) \/ TracerGone(t)
             \/ \E s \in ShutdownSignals : ShutdownArrives(s)
    BY <1>4 DEF InterruptOne, Reap, DetachStopped, DetachNext, TracerGone, ShutdownArrives,
           Finish, tracer
  <1>5. CASE Failing BY <1>5, FailingEnds
  <1> QED BY <1>1, <1>2, <1>3, <1>4, <1>5
          DEF Next, TracerStep, Outside, Terminated, Stopped, Failing

(* What waitpid reports about t. *)
LEMMA WaitReports ==
  ASSUME GoodTasks, NEW t \in Tids, Wait(t)
  PROVE  /\ cur'.tid = t /\ pc' = "handle"
         /\ InStop(t) => cur'.stop = task[t].stop /\ cur'.stop.kind # "exited"
         /\ ~InStop(t) => cur'.stop.kind = "exited" /\ cur'.stop.msg = task[t].code
  <1> DEFINE d == [NoStop EXCEPT !.kind = "exited", !.msg = task[t].code]
             s == IF InStop(t) THEN task[t].stop ELSE d
  <1>1. d.kind = "exited" /\ d.msg = task[t].code BY DEF NoStop
  <1> HIDE DEF d
  <1>2. cur' = [NoEvent EXCEPT !.tid = t, !.stop = s] /\ pc' = "handle" BY DEF Wait, d
  <1> HIDE DEF s
  <1>3. cur'.tid = t /\ cur'.stop = s BY <1>2 DEF NoEvent
  <1>4. InStop(t) => task[t].stop.kind # "exited" BY StopIsEvent DEF GoodTasks, TaskSet
  <1> QED BY <1>1, <1>2, <1>3, <1>4 DEF s

LEMMA ExecLeftInit ==
  ASSUME Init
  PROVE  ExecLeft
  <1> DEFINE r == [NoTask EXCEPT !.st = "user", !.tg = Root]
             h == [Halt(r, "signal", SIGSTOP, 0, "auto") EXCEPT !.seen = TRUE]
  <1>1. \A t \in Tids : task[t] = NoTask \/ task[t] = r \/ task[t] = h BY DEF Init, KernelInit
  <1>2. NoTask.st = "none" /\ r.st = "user" /\ h.stop.kind = "signal" BY DEF NoTask, Halt
  <1> HIDE DEF r, h
  <1>3. \A t \in Tids : ~At(task[t], "exec") BY <1>1, <1>2 DEF At
  <1>4. pc # "handle" BY DEF Init
  <1> QED BY <1>3, <1>4 DEF ExecLeft

LEMMA ExecLeftNext ==
  ASSUME Sound, ExecLeft, [Next]_vars
  PROVE  ExecLeft'
  <1>1. /\ GoodTasks /\ Groups(task) /\ TracerType /\ 0 \notin Tids
        /\ GoodTasks' /\ TracerType' /\ Groups(task)'
    BY SoundNext, KernelAssumption DEF Sound, Typed, KernelInv, KernelBase
  <1>2. \A u \in Tids : Ages(task', u) BY EveryStepAges
  <1>3. \A u \in Tids : task[u].st # "none" => task'[u].tg = task[u].tg
    BY <1>2 DEF Ages
  <1>4. \A u \in Tids : task[u].st = "gone" => task'[u] = task[u] BY <1>2 DEF Ages
  <1>5. \A u \in Tids : task[u].tg \in Tids => task[u].st # "none"
    BY <1>1 DEF GoodTasks, GoodTask, NoTask
  <1>6. ASSUME NEW t \in Tids, At(task'[t], "exec")
        PROVE  task'[t].stop.msg = t \/ task'[task'[t].stop.msg].st = "gone"
    <2>1. CASE At(task[t], "exec") /\ task'[t].stop.msg = task[t].stop.msg
      <3>1. task[t].stop.msg \in Tids BY <1>1, <2>1 DEF GoodTasks, GoodTask, StopAgrees
      <3> QED BY <1>4, <2>1, <3>1 DEF ExecLeft
    <2> QED BY <1>2, <1>6, <2>1 DEF Ages
  <1>7. ASSUME pc' = "handle", cur'.stop.kind = "exec"
        PROVE  /\ task'[cur'.stop.msg].tg = cur'.tid
               /\ cur'.stop.msg = cur'.tid \/ task'[cur'.stop.msg].st = "gone"
    <2>1. ASSUME NEW t \in Tids, Wait(t)
          PROVE  /\ task'[cur'.stop.msg].tg = cur'.tid
                 /\ cur'.stop.msg = cur'.tid \/ task'[cur'.stop.msg].st = "gone"
      <3>1. InStop(t) /\ cur'.tid = t /\ cur'.stop = task[t].stop
        BY <1>1, <1>7, <2>1, WaitReports
      <3>2. At(task[t], "exec") BY <1>7, <3>1 DEF At, InStop
      <3>3. task[t].stop.msg \in Tids BY <1>1, <3>2 DEF GoodTasks, GoodTask, StopAgrees
      <3>4. task[task[t].stop.msg].tg = t BY <1>1, <3>2 DEF Groups, Grouped
      <3> QED BY <1>3, <1>4, <1>5, <3>1, <3>2, <3>3, <3>4 DEF ExecLeft
    <2>2. CASE ~\E t \in Tids : Wait(t)
      <3>1. pc = "handle" /\ cur' = cur BY <1>1, <1>7, <2>2, HandleStarts
      <3>2. cur.stop.msg \in Tids /\ cur.tid \in Tids BY <1>1, <1>7, <3>1 DEF TracerType
      <3> QED BY <1>3, <1>4, <1>5, <1>7, <3>1, <3>2 DEF ExecLeft
    <2> QED BY <2>1, <2>2
  <1> QED BY <1>6, <1>7 DEF ExecLeft, At

-----------------------------------------------------------------------------
(* The handlers keep the records in step: the event of cur.tid is          *)
(* accounted for, and nobody else's record changes unless it is gone.      *)
SameStep(tr, u) ==
  \/ tr[u].pend = tracees[u].pend /\ (~tr[u].known => ~tracees[u].known)
  \/ ~Alive(u) /\ tr[u].pend = NoCall

LEMMA ToResumeInStep ==
  ASSUME Sound, InStep, config' = config, pc = "handle",
         NEW tr \in [Tids -> TraceeSet], NEW r \in TraceeSet, NEW o, NEW d, NEW l,
         ToResume(tr, r, o, d, l),
         \A u \in Tids \ {cur.tid} : SameStep(tr, u),
         InStop(cur.tid) => After(task[cur.tid], r.pend), r.known
  PROVE  InStep'
  <1> DEFINE t == cur.tid
             x == [r EXCEPT !.inStop = TRUE]
  <1>1. TracerType /\ t \in Tids /\ HeldTask(task[t], cur.stop)
    BY DEF Sound, Typed, TracerType, Held
  <1>2. x.pend = r.pend /\ x.known BY DEF TraceeSet
  <1>3. tracees' = [tr EXCEPT ![t] = x] BY DEF ToResume
  <1> HIDE DEF x
  <1>4. tracees'[t] = x /\ \A u \in Tids \ {t} : tracees'[u] = tr[u] BY <1>1, <1>3
  <1>5. HandsOn BY <1>1, ToResumeHandsOn
  <1>6. task' = task /\ pc' = "resume" /\ cur'.tid = t BY <1>5 DEF HandsOn
  <1>7. \A u \in Tids : StepOf(u) BY DEF InStep, Loop
  <1>8. ASSUME NEW u \in Tids PROVE StepOf(u)'
    <2>1. CASE u = t
      <3>1. Answered(u)' BY <1>6, <2>1 DEF Answered
      <3>2. task[t].st # "none" BY <1>1 DEF HeldTask, At
      <3>3. Alive(u)' => InStop(t) BY <1>1, <1>6, <2>1 DEF HeldTask, At, Alive, InStop
      <3>4. Alive(u)' => IF Answered(u)' THEN After(task'[u], tracees'[u].pend)
                         ELSE Before(task'[u], tracees'[u].pend)
        BY <1>2, <1>4, <1>6, <2>1, <3>1, <3>3
      <3>5. task'[u].st = "none" \/ ~tracees'[u].known => tracees'[u].pend = NoCall
        BY <1>2, <1>4, <1>6, <2>1, <3>2
      <3> QED BY <3>4, <3>5, StepKept
    <2>2. CASE u # t
      <3>1. ~Answered(u)' /\ ~Answered(u) BY <1>6, <2>2 DEF Answered
      <3>2. SameStep(tr, u) /\ tracees'[u] = tr[u] BY <1>4, <2>2
      <3>3. Alive(u)' <=> Alive(u) BY <1>6 DEF Alive
      <3>4. Alive(u)' => IF Answered(u)' THEN After(task'[u], tracees'[u].pend)
                         ELSE Before(task'[u], tracees'[u].pend)
        BY <1>6, <1>7, <3>1, <3>2, <3>3 DEF StepOf, SameStep
      <3>5. task'[u].st = "none" \/ ~tracees'[u].known => tracees'[u].pend = NoCall
        BY <1>6, <1>7, <3>2 DEF StepOf, SameStep
      <3> QED BY <3>4, <3>5, StepKept
    <2> QED BY <2>1, <2>2
  <1> QED BY <1>6, <1>8 DEF InStep

(* What a handler finds. *)
LEMMA Found ==
  ASSUME Sound, InStep, pc = "handle"
  PROVE  /\ cur.tid \in Tids /\ Tracee \in TraceeSet /\ Tracee.known
         /\ Tracee.pend = tracees[cur.tid].pend
         /\ GoodTask(task[cur.tid]) /\ HeldTask(task[cur.tid], cur.stop)
         /\ InStop(cur.tid) => Before(task[cur.tid], Tracee.pend)
         /\ \A u \in Tids : SameStep(tracees, u)
  <1>1. cur.tid \in Tids /\ TracerType /\ GoodTasks /\ HeldTask(task[cur.tid], cur.stop)
    BY DEF Sound, Typed, TracerType, KernelInv, KernelBase, Held
  <1>2. StepOf(cur.tid) /\ ~Answered(cur.tid) BY <1>1 DEF InStep, Answered, Loop
  <1>3. Fresh(TRUE).known /\ Fresh(TRUE).pend = NoCall BY DEF Fresh
  <1>4. Tracee.known /\ Tracee.pend = tracees[cur.tid].pend
    BY <1>2, <1>3 DEF Tracee, StepOf
  <1>5. InStop(cur.tid) => Before(task[cur.tid], Tracee.pend)
    BY <1>2, <1>4 DEF StepOf, InStop, Alive
  <1> QED BY <1>1, <1>4, <1>5, TraceeType DEF GoodTasks, SameStep

LEMMA EntryInStep ==
  ASSUME Sound, InStep, config' = config, SyscallEntry
  PROVE  InStep'
  <1> DEFINE r == Tracee
             c == task[cur.tid].call
             b == begin_tracee(r, c)
             o == begin_output(out, r, c)
  <1>1. /\ pc = "handle" /\ InStop(cur.tid)
        /\ Now.kind = (IF cur.stop.kind = "seccomp" THEN "seccomp" ELSE "entry")
        /\ ToResume(tracees, b, o, 0, FALSE)
    BY DEF SyscallEntry, AtEntry, Handling, Entered
  <1>2. /\ cur.tid \in Tids /\ r \in TraceeSet /\ r.known /\ GoodTask(task[cur.tid])
        /\ Before(task[cur.tid], r.pend) /\ \A u \in Tids : SameStep(tracees, u)
    BY <1>1, Found
  <1>3. At(task[cur.tid], "entry") \/ At(task[cur.tid], "seccomp")
    BY <1>1 DEF At, InStop, Now
  <1>4. c \in CallSet /\ c # NoCall BY <1>2, <1>3 DEF GoodTask, TaskSet, CallAgrees, At
  <1>5. /\ b \in TraceeSet /\ SameTask(r, b)
        /\ Restarts(r, c) => b.pend = r.intr
        /\ ~Restarts(r, c) => b.pend = c
    <2>1. HeapType BY DEF Sound
    <2> HIDE DEF r, c
    <2> QED BY <1>2, <1>4, <2>1, BeginIs
  <1> HIDE DEF r, c, b
  <1>6. b.known /\ b.pend # NoCall BY <1>2, <1>4, <1>5 DEF SameTask, Restarts
  <1>7. After(task[cur.tid], b.pend) BY <1>2, <1>3, <1>6 DEF After, Before, At
  <1>8. tracees \in [Tids -> TraceeSet] BY DEF Sound, Typed, TracerType
  <1> HIDE DEF o
  <1> QED BY <1>1, <1>2, <1>5, <1>6, <1>7, <1>8, ToResumeInStep

LEMMA ExitInStep ==
  ASSUME Sound, InStep, config' = config, SyscallExit
  PROVE  InStep'
  <1> DEFINE r == Tracee
             b == finish_tracee(r, Now.val)
  <1>1. /\ pc = "handle" /\ InStop(cur.tid) /\ Now.kind = "exit"
        /\ \E o : ToResume(tracees, b, o, 0, FALSE)
    BY DEF SyscallExit, AtExit, Handling
  <1>2. /\ cur.tid \in Tids /\ r \in TraceeSet /\ r.known
        /\ \A u \in Tids : SameStep(tracees, u)
    BY <1>1, Found
  <1>3. At(task[cur.tid], "exit") BY <1>1 DEF At, InStop, Now
  <1>5. b \in TraceeSet /\ SameTask(r, b) /\ b.pend = NoCall BY <1>2, FinishIs
  <1> HIDE DEF r, b
  <1>6. b.known /\ b.pend = NoCall BY <1>2, <1>5 DEF SameTask
  <1>7. After(task[cur.tid], b.pend) BY <1>3, <1>6 DEF After, At
  <1>8. tracees \in [Tids -> TraceeSet] BY DEF Sound, Typed, TracerType
  <1> QED BY <1>1, <1>2, <1>5, <1>6, <1>7, <1>8, ToResumeInStep

(* The handlers of the other stops leave the pending call alone. *)
LEMMA OtherInStep ==
  ASSUME Sound, InStep, config' = config, pc = "handle",
         cur.stop.kind \notin {"entry", "exit", "seccomp"},
         NEW tr \in [Tids -> TraceeSet], NEW r \in TraceeSet, NEW o, NEW d, NEW l,
         ToResume(tr, r, o, d, l), r.known, r.pend = Tracee.pend,
         \A u \in Tids : SameStep(tr, u)
  PROVE  InStep'
  <1>1. HeldTask(task[cur.tid], cur.stop) /\ (InStop(cur.tid) => Before(task[cur.tid], Tracee.pend))
    BY Found
  <1>2. InStop(cur.tid) => task[cur.tid].stop.kind \notin {"entry", "exit", "seccomp"}
    BY <1>1 DEF HeldTask, At, InStop
  <1>3. InStop(cur.tid) => After(task[cur.tid], r.pend) BY <1>1, <1>2 DEF After, At
  <1> QED BY <1>3, ToResumeInStep

LEMMA ForkInStep ==
  ASSUME Sound, InStep, config' = config, ForkStop
  PROVE  InStep'
  <1> DEFINE m  == Now.msg
             tr == add_tracee(tracees, m)
  <1>1. /\ pc = "handle" /\ cur.stop.kind = "fork" /\ InStop(cur.tid)
        /\ \E o : ToResume(tr, Tracee, o, 0, FALSE)
    BY DEF ForkStop, Handling
  <1>2. /\ cur.tid \in Tids /\ Tracee \in TraceeSet /\ Tracee.known
        /\ HeldTask(task[cur.tid], cur.stop) /\ GoodTask(task[cur.tid])
        /\ \A u \in Tids : SameStep(tracees, u) /\ StepOf(u)
    BY <1>1, Found DEF InStep, Loop
  <1>3. At(task[cur.tid], "fork") \/ At(task[cur.tid], "exec")
    BY <1>1, <1>2 DEF HeldTask, At, InStop
  <1>4. m \in Tids BY <1>2, <1>3 DEF GoodTask, StopAgrees, Now
  <1>5. tracees \in [Tids -> TraceeSet] /\ Fresh(TRUE) \in TraceeSet
    BY FreshType DEF Sound, Typed, TracerType
  <1> HIDE DEF m
  <1>6. tr \in [Tids -> TraceeSet] BY <1>4, <1>5 DEF add_tracee
  <1>7. /\ tr[m] = IF tracees[m].known THEN tracees[m] ELSE Fresh(TRUE)
        /\ \A u \in Tids \ {m} : tr[u] = tracees[u]
    BY <1>4, <1>5 DEF add_tracee
  <1>8. Fresh(TRUE).pend = NoCall /\ Fresh(TRUE).known BY DEF Fresh
  <1>9. \A u \in Tids : SameStep(tr, u) BY <1>2, <1>4, <1>7, <1>8 DEF SameStep, StepOf
  <1> HIDE DEF tr
  <1> QED BY <1>1, <1>2, <1>6, <1>9, OtherInStep

LEMMA ExecInStep ==
  ASSUME Sound, InStep, ExecLeft, config' = config, ExecStop
  PROVE  InStep'
  <1> DEFINE t == cur.tid
             former == cur.stop.msg
             tr == Migrated(former, t)
             r  == ExecTracee(tr[t])
             e  == Ended(r)
             x  == [e EXCEPT !.newborn = FALSE]
  <1>1. pc = "handle" /\ cur.stop.kind = "exec" /\ InStop(t) BY DEF ExecStop, AtExec, Handling
  <1>2. \E o : ToResume(tr, x, o, 0, FALSE) BY DEF ExecStop
  <1>3. /\ t \in Tids /\ former \in Tids /\ HeldTask(task[t], cur.stop)
        /\ tracees \in [Tids -> TraceeSet] /\ \A u \in Tids : SameStep(tracees, u)
    BY <1>1, Found DEF Sound, Typed, TracerType
  <1>4. former # t => task[former].st = "gone" BY <1>1 DEF ExecLeft
  <1>5. tr \in [Tids -> TraceeSet] BY <1>3, MovedType
  <1>6. \A u \in Tids \ {t} : SameStep(tr, u)
    <2>1. \A u \in Tids \ {t, former} : tr[u] = tracees[u] BY <1>3 DEF Migrated
    <2>2. former # t => tr[former] = Absent BY <1>3 DEF Migrated
    <2>3. Absent.pend = NoCall BY DEF Absent, Fresh
    <2> HIDE DEF tr
    <2> QED BY <1>3, <1>4, <2>1, <2>2, <2>3 DEF SameStep, Alive
  <1> HIDE DEF tr
  <1>7. r \in TraceeSet /\ r.known
    <2>1. Fresh(TRUE) \in TraceeSet /\ Fresh(TRUE).known BY FreshType DEF Fresh
    <2> QED BY <1>3, <1>5, <2>1 DEF ExecTracee
  <1> HIDE DEF r
  <1>8. x \in TraceeSet /\ x.known
    <2>1. e \in TraceeSet /\ e.known BY <1>7, EndedIs
    <2> HIDE DEF e
    <2> QED BY <2>1 DEF TraceeSet
  <1> HIDE DEF x
  <1>9. At(task[t], "exec") BY <1>1, <1>3 DEF HeldTask, At, InStop
  <1>10. After(task[t], x.pend) BY <1>9 DEF After, Before, At
  <1> HIDE DEF former
  <1> QED BY <1>1, <1>2, <1>5, <1>6, <1>8, <1>10, ToResumeInStep

LEMMA HandlersInStep ==
  ASSUME Sound, InStep, ExecLeft, config' = config, pc' \in Loop,
         \/ SyscallEntry \/ SyscallExit \/ EventStop \/ ForkStop \/ ExecStop
         \/ NewbornStop \/ SignalStop \/ GroupStop
  PROVE  InStep'
  <1> DEFINE N == [Tracee EXCEPT !.newborn = FALSE]
             S == [Tracee EXCEPT !.newborn = FALSE, !.sig = cur.stop.sig]
  <1>1. CASE EventStop \/ NewbornStop \/ SignalStop \/ GroupStop
    <2>1. pc = "handle" /\ cur.stop.kind \notin {"entry", "exit", "seccomp"}
      BY <1>1 DEF EventStop, NewbornStop, SignalStop, GroupStop, Handling
    <2>2. Tracee \in TraceeSet /\ Tracee.known /\ \A u \in Tids : SameStep(tracees, u)
      BY <2>1, Found
    <2>3. tracees \in [Tids -> TraceeSet] /\ cur.stop.sig \in Nat
      BY DEF Sound, Typed, TracerType, CurSet, EventSet
    <2>4. \E r \in {Tracee, N, S} : \E o, d, l : ToResume(tracees, r, o, d, l)
      BY <1>1 DEF EventStop, NewbornStop, SignalStop, GroupStop
    <2>5. /\ N \in TraceeSet /\ N.known /\ N.pend = Tracee.pend
          /\ S \in TraceeSet /\ S.known /\ S.pend = Tracee.pend
      BY <2>2, <2>3 DEF TraceeSet
    <2> HIDE DEF N, S
    <2>6. \A r \in {Tracee, N, S} : r \in TraceeSet /\ r.known /\ r.pend = Tracee.pend
      BY <2>2, <2>5
    <2> QED BY <2>1, <2>2, <2>3, <2>4, <2>6, OtherInStep
  <1> QED BY <1>1, EntryInStep, ExitInStep, ForkInStep, ExecInStep

(* waitpid changes nothing that matters, but what it reports is then still *)
(* to be acted on.                                                         *)
LEMMA WaitInStep ==
  ASSUME Sound, InStep, config' = config, NEW u \in Tids, Wait(u)
  PROVE  InStep'
  <1>1. GoodTasks BY DEF Sound, Typed, KernelInv, KernelBase
  <1>2. /\ pc \in {"wait", "blocked"} /\ pc' = "handle" /\ tracees' = tracees
        /\ Waitable(u) /\ task' = Report(u)
    BY DEF Wait
  <1>3. Reported(task[u], task'[u]) /\ \A t \in Tids \ {u} : task'[t] = task[t]
    BY <1>1, <1>2, ReportEffect
  <1>4. ASSUME NEW t \in Tids PROVE StepOf(t)'
    <2>1. StepOf(t) /\ ~Answered(t) /\ ~Answered(t)' BY <1>2 DEF InStep, Loop, Answered
    <2>2. CASE t # u
      <3>1. task'[t] = task[t] BY <1>3, <2>2
      <3> QED BY <1>2, <2>1, <3>1, StepKept DEF StepOf, Alive
    <2>3. CASE t = u
      <3>1. Alive(t)' => Alive(t) /\ (Before(task[t], tracees[t].pend)
                                      => Before(task'[t], tracees[t].pend))
        BY <1>3, <2>3 DEF Reported, Alive, Before, Within, Ends, At
      <3>2. task'[t].st # "none" BY <1>3, <2>3 DEF Reported
      <3>3. Alive(t)' => IF Answered(t)' THEN After(task'[t], tracees'[t].pend)
                         ELSE Before(task'[t], tracees'[t].pend)
        BY <1>2, <2>1, <3>1 DEF StepOf
      <3>4. task'[t].st = "none" \/ ~tracees'[t].known => tracees'[t].pend = NoCall
        BY <1>2, <2>1, <3>2 DEF StepOf
      <3> QED BY <3>3, <3>4, StepKept
    <2> QED BY <2>2, <2>3
  <1> QED BY <1>2, <1>4 DEF InStep

(* Steps that leave the tasks alone, and the records but for one that is   *)
(* gone.                                                                   *)
LEMMA QuietInStep ==
  ASSUME Sound, InStep, config' = config, pc \in Loop, task' = task,
         \A u \in Tids : tracees'[u] = tracees[u] \/ (~Alive(u) /\ tracees'[u] = Absent),
         \A u \in Tids : Alive(u) => (Answered(u)' <=> Answered(u)), pc' # "start" \/ pc = "start"
  PROVE  InStep'
  <1>1. Absent.pend = NoCall BY FreshType
  <1>2. \A u \in Tids : Alive(u)' <=> Alive(u) BY DEF Alive
  <1>3. Root' = Root BY DEF Root, InitTasks
  <1>4. ASSUME NEW u \in Tids PROVE StepOf(u)'
    <2>1. StepOf(u) BY DEF InStep
    <2>2. Alive(u)' => IF Answered(u)' THEN After(task'[u], tracees'[u].pend)
                       ELSE Before(task'[u], tracees'[u].pend)
      BY <1>2, <2>1 DEF StepOf
    <2>3. task'[u].st = "none" \/ ~tracees'[u].known => tracees'[u].pend = NoCall
      BY <1>1, <2>1 DEF StepOf
    <2> QED BY <2>2, <2>3, StepKept
  <1> QED BY <1>3, <1>4 DEF InStep

LEMMA RestInStep ==
  ASSUME Sound, InStep, config' = config, pc' \in Loop,
         \/ LoopEnds \/ Block \/ WaitFails \/ ListenFails \/ Exited \/ Untracked \/ RequestFails
         \/ Failing \/ ExitWriteFails \/ NoMemory \/ ResumeTooLate
         \/ \E s \in ShutdownSignals : ShutdownArrives(s)
  PROVE  InStep'
  <1>1. TracerType BY DEF Sound, Typed
  <1>2. ~(LoopEnds \/ WaitFails \/ ListenFails \/ RequestFails \/ Failing \/ ExitWriteFails \/ NoMemory)
    BY FailingEnds DEF LoopEnds, WaitFails, ListenFails, RequestFails, ExitWriteFails, NoMemory, Finish,
                       Loop
  <1>3. CASE Block \/ Untracked
    <2>1. /\ pc \in {"wait", "handle"} /\ pc' \in {"wait", "blocked"} /\ task' = task
          /\ tracees' = tracees
      BY <1>3 DEF Block, Untracked, kernel
    <2>2. \A u \in Tids : ~Answered(u) /\ ~Answered(u)' BY <2>1 DEF Answered
    <2> QED BY <2>1, <2>2, QuietInStep DEF Loop
  <1>4. CASE Exited
    <2> DEFINE t == cur.tid
    <2>1. /\ pc = "handle" /\ cur.stop.kind = "exited" /\ task' = task /\ pc' = "wait"
          /\ tracees' = [tracees EXCEPT ![t] = Absent]
      BY <1>4 DEF Exited, Handling, Finish, Loop, kernel
    <2>2. t \in Tids /\ task[t].st = "gone"
      BY <1>1, <2>1 DEF Sound, Held, HeldTask, TracerType
    <2>3. \A u \in Tids : ~Answered(u) /\ ~Answered(u)' BY <2>1 DEF Answered
    <2>4. \A u \in Tids : tracees'[u] = tracees[u] \/ (~Alive(u) /\ tracees'[u] = Absent)
      BY <1>1, <2>1, <2>2 DEF TracerType, Alive
    <2> QED BY <2>1, <2>3, <2>4, QuietInStep DEF Loop
  <1>5. CASE ResumeTooLate
    <2>1. pc = "resume" /\ ~InStop(cur.tid) /\ pc' = "wait" /\ task' = task /\ tracees' = tracees
      BY <1>5 DEF ResumeTooLate, kernel
    <2>2. ~Alive(cur.tid) BY <2>1 DEF Sound, Held, HeldTask, At, InStop, Alive
    <2>3. \A u \in Tids : Alive(u) => ~Answered(u) /\ ~Answered(u)' BY <2>1, <2>2 DEF Answered
    <2> QED BY <2>1, <2>3, QuietInStep DEF Loop
  <1>6. CASE \E s \in ShutdownSignals : ShutdownArrives(s)
    <2>1. task' = task /\ tracees' = tracees /\ cur' = cur /\ pc' = pc
      BY <1>6 DEF ShutdownArrives, Finish, Loop, kernel
    <2>2. Root' = Root BY DEF Root, InitTasks
    <2>3. \A u \in Tids : Answered(u)' <=> Answered(u) BY <2>1, <2>2 DEF Answered
    <2> QED BY <2>1, <2>3, QuietInStep
  <1> QED BY <1>2, <1>3, <1>4, <1>5, <1>6

LEMMA InStepInit ==
  ASSUME Init
  PROVE  InStep
  <1> DEFINE r == [NoTask EXCEPT !.st = "user", !.tg = Root]
             h == [Halt(r, "signal", SIGSTOP, 0, "auto") EXCEPT !.seen = TRUE]
             w == [Fresh(FALSE) EXCEPT !.inStop = TRUE]
  <1>1. \A t \in Tids : \/ task[t] = NoTask \/ task[t] = r \/ task[t] = h
    BY DEF Init, KernelInit
  <1>2. /\ NoTask.st = "none" /\ r.st = "user" /\ r.how = "CONT"
        /\ h.st = "stop" /\ h.stop.kind = "signal" /\ h.how = "CONT"
    BY DEF NoTask, Halt
  <1>3. w.pend = NoCall BY DEF Fresh
  <1>4. \A t \in Tids : tracees[t] \in {Absent, Fresh(TRUE), w}
    BY DEF Init
  <1>5. pc = "start" => task[Root] = h
    <2>1. Root \in InitTasks /\ Root \in Tids BY RootType DEF Init, KernelInit
    <2> QED BY <2>1 DEF Init, KernelInit
  <1> HIDE DEF r, h, w
  <1>6. \A t \in Tids : tracees[t].pend = NoCall BY <1>3, <1>4, FreshType
  <1>7. ASSUME NEW t \in Tids, Alive(t)
        PROVE  Before(task[t], NoCall) /\ After(task[t], NoCall)
    <2>1. task[t] = r \/ task[t] = h BY <1>1, <1>2, <1>7 DEF Alive
    <2>2. CASE task[t] = r BY <1>2, <2>2 DEF Before, After, Within, At
    <2>3. CASE task[t] = h BY <1>2, <2>3 DEF Before, After, Within, At
    <2> QED BY <2>1, <2>2, <2>3
  <1> QED BY <1>2, <1>5, <1>6, <1>7 DEF InStep, StepOf

LEMMA InStepNext ==
  ASSUME Sound, InStep, ExecLeft, [Next]_vars
  PROVE  InStep'
  <1>1. SUFFICES ASSUME pc' \in Loop PROVE InStep' BY DEF InStep
  <1>2. TracerType BY DEF Sound, Typed
  <1>3. CASE TasksStep
    <2>1. pc \in Loop BY <1>1, <1>3 DEF TasksStep, tracer
    <2> QED BY <1>3, <2>1, TasksInStep
  <1>4. CASE UNCHANGED vars
    <2>1. config' = config /\ task' = task /\ tracees' = tracees /\ cur' = cur /\ pc' = pc
      BY <1>4 DEF vars, kernel, tracer
    <2>2. Root' = Root BY <2>1 DEF Root, InitTasks
    <2>3. \A u \in Tids : Answered(u)' <=> Answered(u) BY <2>1, <2>2 DEF Answered
    <2> QED BY <1>1, <2>1, <2>3, QuietInStep
  <1>5. CASE Outside
    <2>1. config' = config BY <1>5 DEF Outside
    <2>2. ~\E t \in Tids : TracerGone(t) BY <1>1 DEF TracerGone, tracer, Loop
    <2> QED BY <1>1, <1>5, <2>1, <2>2, RestInStep DEF Outside
  <1>6. CASE TracerStep
    <2>1. config' = config BY <1>6 DEF TracerStep
    <2>2. ~(\/ CleanUp \/ KillAll \/ AllReaped \/ InterruptRunning \/ DetachWaited \/ Detached
            \/ \E t \in Tids : Reap(t) \/ DetachStopped(t) \/ DetachNext(t))
      BY <1>1 DEF CleanUp, KillAll, AllReaped, InterruptRunning, DetachWaited, Detached,
             Reap, DetachStopped, DetachNext, Done, tracer, Loop
    <2>3. CASE \/ SyscallEntry \/ SyscallExit \/ EventStop \/ ForkStop \/ ExecStop
               \/ NewbornStop \/ SignalStop \/ GroupStop
      BY <1>1, <2>1, <2>3, HandlersInStep
    <2>4. CASE \/ LoopEnds \/ Block \/ WaitFails \/ ListenFails \/ Exited \/ Untracked \/ RequestFails
               \/ Failing \/ ExitWriteFails \/ NoMemory \/ ResumeTooLate
      BY <1>1, <2>1, <2>4, RestInStep
    <2>5. CASE StartLaunch \/ Resume \/ \E t \in Tids : Wait(t) \/ InterruptOne(t)
      BY <1>1, <2>1, <2>5, StartInStep, ResumedInStep, WaitInStep, InterruptInStep
    <2> QED BY <1>6, <2>2, <2>3, <2>4, <2>5 DEF TracerStep, Failing
  <1> QED BY <1>3, <1>4, <1>5, <1>6 DEF Next, Terminated, Stopped

(* Sound, and in step. *)
Inv == Sound /\ ExecLeft /\ InStep

LEMMA AlwaysInStep == Spec => []Inv
  <1>1. Init => Inv BY SoundInit, ExecLeftInit, InStepInit DEF Inv
  <1>2. Inv /\ [Next]_vars => Inv' BY SoundNext, ExecLeftNext, InStepNext DEF Inv
  <1> QED BY <1>1, <1>2, PTL DEF Spec

(* has_pending_syscall is in step with the kernel whenever the loop waits: *)
(* for every program, any number of threads, forks, execs and signals,     *)
(* with or without --seccomp-bpf, and for a process attached to in the     *)
(* middle of whatever it was doing.                                        *)
THEOREM StaysInStep == Spec => []PendingInStep
  <1>1. ASSUME Inv PROVE PendingInStep
    <2> SUFFICES ASSUME pc \in {"wait", "blocked"}, NEW t \in Known, Alive(t),
                        task[t].how = "SYSCALL", ~Ending(t)
                 PROVE  InCall(t) <=> tracees[t].pend # NoCall
      BY DEF PendingInStep
    <2>1. t \in Tids /\ StepOf(t) /\ ~Answered(t) BY <1>1 DEF Known, Inv, InStep, Loop, Answered
    <2>2. Before(task[t], tracees[t].pend) BY <2>1 DEF StepOf
    <2>3. GoodTask(task[t]) BY <1>1, <2>1 DEF Inv, Sound, Typed, KernelInv, KernelBase, GoodTasks
    <2>4. ~At(task[t], "exec") BY <2>3 DEF GoodTask, CallAgrees, Ending, At, InStop
    <2>5. InCall(t) <=> Within(task[t]) BY DEF InCall, Within, At, InStop
    <2>6. Ending(t) <=> Ends(task[t]) BY DEF Ending, Ends, At, InStop
    <2> QED BY <2>2, <2>4, <2>5, <2>6 DEF Before
  <1> QED BY <1>1, AlwaysInStep, PTL

-----------------------------------------------------------------------------
(* The status of a launched command.  Its first task keeps the tid Root    *)
(* for life, is in the table until its death is recorded, and has then     *)
(* been reaped with the status recorded.                                   *)
Told ==
  Mode = "launch" =>
    /\ root.tid = Root
    /\ root.status >= 0 => task[Root].st = "gone" /\ root.status = CommandsStatus
    /\ pc \in Loop => tracees[Root].known \/ root.status >= 0
    /\ pc \notin Loop /\ end.ok /\ shutdown = 0 =>
         root.status >= 0 /\ end.status = root.status

LEMMA ConfigStays ==
  ASSUME [Next]_vars
  PROVE  config' = config /\ Root' = Root /\ Mode' = Mode /\ Seccomp' = Seccomp
         /\ Follow' = Follow
  <1>1. config' = config
    BY DEF Next, TracerStep, TasksStep, Outside, Terminated, Stopped, vars
  <1> QED BY <1>1 DEF Root, InitTasks, Mode, Seccomp, Follow

(* A step that leaves the status alone. *)
LEMMA ToldKept ==
  ASSUME Sound, Told, [Next]_vars, Mode = "launch" =>
           /\ root'.tid = root.tid /\ root'.status = root.status
           /\ pc' \in Loop => pc \in Loop /\ (tracees[Root].known => tracees'[Root].known)
           /\ pc' \notin Loop /\ end'.ok /\ shutdown' = 0 =>
                \/ pc \notin Loop /\ end' = end /\ shutdown = 0
                \/ root.status >= 0 /\ end'.status = root.status
  PROVE  Told'
  <1>1. Root \in Tids BY RootType DEF Sound, Typed, KernelInv, KernelBase
  <1>2. Ages(task', Root) BY <1>1, EveryStepAges
  <1>3. Root' = Root /\ Mode' = Mode BY ConfigStays
  <1>4. task[Root].st = "gone" => task'[Root] = task[Root] BY <1>2 DEF Ages
  <1>5. task[Root].st = "gone" => CommandsStatus' = CommandsStatus
    BY <1>3, <1>4 DEF CommandsStatus
  <1> QED BY <1>3, <1>4, <1>5 DEF Told

LEMMA ToldInit ==
  ASSUME Init
  PROVE  Told
  <1>1. root = [tid |-> Root, status |-> -1, exec |-> FALSE] BY DEF Init
  <1>2. Root \in Tids /\ Root \in InitTasks BY RootType DEF Init, KernelInit
  <1>3. Mode = "launch" => tracees[Root] = [Fresh(FALSE) EXCEPT !.inStop = TRUE]
    BY <1>2 DEF Init
  <1>4. [Fresh(FALSE) EXCEPT !.inStop = TRUE].known BY DEF Fresh
  <1>5. pc \in Loop BY DEF Init, Loop
  <1>6. root.tid = Root /\ ~(root.status >= 0) BY <1>1
  <1>7. Mode = "launch" => tracees[Root].known BY <1>3, <1>4
  <1> QED BY <1>5, <1>6, <1>7 DEF Told

(* The handlers that lead to a resumption. *)
LEMMA HandlersTold ==
  ASSUME Sound, ExecLeft, Told, [Next]_vars,
         \/ SyscallEntry \/ SyscallExit \/ EventStop \/ ForkStop \/ ExecStop
         \/ NewbornStop \/ SignalStop \/ GroupStop
  PROVE  Told'
  <1> SUFFICES ASSUME Mode = "launch" PROVE Told'
    BY ConfigStays DEF Told
  <1>1. /\ Root \in Tids /\ tracees \in [Tids -> TraceeSet] /\ TracerType /\ task[Root].tg = Root
    BY RootType DEF Sound, Typed, KernelInv, KernelBase, TracerType
  <1>2. pc = "handle" /\ cur.tid \in Tids
    BY <1>1, HandlerHandsOn DEF HandsOn, TracerType
  <1>3. Tracee \in TraceeSet /\ Tracee.known BY <1>1, <1>2, TraceeType, FreshType DEF Tracee
  <1>4. ASSUME NEW tr \in [Tids -> TraceeSet], NEW r \in TraceeSet, NEW o, NEW d, NEW l,
               ToResume(tr, r, o, d, l), r.known, tracees[Root].known /\ Root # cur.tid => tr[Root].known,
               root'.tid = root.tid, root'.status = root.status
        PROVE  Told'
    <2> DEFINE x == [r EXCEPT !.inStop = TRUE]
    <2>1. x.known BY <1>4 DEF TraceeSet
    <2>2. tracees' = [tr EXCEPT ![cur.tid] = x] /\ pc' = "resume" BY <1>4 DEF ToResume
    <2> HIDE DEF x
    <2>3. tracees[Root].known => tracees'[Root].known BY <1>1, <1>2, <1>4, <2>1, <2>2
    <2>4. pc \in Loop /\ pc' \in Loop BY <1>2, <2>2 DEF Loop
    <2> QED BY <1>4, <2>3, <2>4, ToldKept
  <1> DEFINE N == [Tracee EXCEPT !.newborn = FALSE]
             S == [Tracee EXCEPT !.newborn = FALSE, !.sig = cur.stop.sig]
  <1>5. N \in TraceeSet /\ N.known /\ S \in TraceeSet /\ S.known
    <2>1. cur.stop.sig \in Nat BY <1>1 DEF TracerType, CurSet, EventSet
    <2> QED BY <1>3, <2>1 DEF TraceeSet
  <1>6. CASE EventStop \/ NewbornStop \/ SignalStop \/ GroupStop
    <2>1. root' = root /\ \E r \in {Tracee, N, S} : \E o, d, l : ToResume(tracees, r, o, d, l)
      BY <1>6 DEF EventStop, NewbornStop, SignalStop, GroupStop
    <2> HIDE DEF N, S
    <2> QED BY <1>1, <1>3, <1>4, <1>5, <2>1
  <1>7. CASE SyscallEntry \/ SyscallExit
    <2>1. PICK b \in TraceeSet : /\ SameTask(Tracee, b) /\ root' = root
                                 /\ \E o : ToResume(tracees, b, o, 0, FALSE)
      BY <1>7, EntryActs, ExitActs
    <2>2. b.known BY <1>3, <2>1 DEF SameTask
    <2> QED BY <1>1, <1>4, <2>1, <2>2
  <1>9. CASE ForkStop
    <2> DEFINE tr == add_tracee(tracees, Now.msg)
    <2>1. root' = root /\ \E o, d, l : ToResume(tr, Tracee, o, d, l) BY <1>9 DEF ForkStop
    <2>2. tr \in [Tids -> TraceeSet] /\ (tracees[Root].known => tr[Root].known)
      BY <1>1, FreshType DEF add_tracee
    <2> HIDE DEF tr
    <2> QED BY <1>3, <1>4, <2>1, <2>2
  <1>10. CASE ExecStop
    <2> DEFINE t == cur.tid
               former == cur.stop.msg
               tr == Migrated(former, t)
               x  == [Ended(ExecTracee(tr[t])) EXCEPT !.newborn = FALSE]
               rootTid == IF tracees[former].known /\ root.tid = former THEN t ELSE root.tid
               ex == root.exec \/ ExecOfRoot(rootTid, t)
    <2>1. /\ root' = [root EXCEPT !.tid = rootTid, !.exec = ex]
          /\ \E o, d, l : ToResume(tr, x, o, d, l)
      BY <1>10 DEF ExecStop, RootAfterExec
    <2>2. former \in Tids /\ task[former].tg = t
      BY <1>1, <1>10 DEF ExecStop, AtExec, Handling, TracerType, ExecLeft
    <2>3. former = Root => t = Root BY <1>1, <2>2
    <2>4. rootTid = root.tid BY <2>3 DEF Told
    <2>5. tr \in [Tids -> TraceeSet] BY <1>1, <1>2, <2>2, MovedType
    <2>6. tracees[Root].known /\ Root # t => tr[Root].known
      BY <1>1, <2>2, <2>3 DEF Migrated
    <2> HIDE DEF tr, rootTid, ex
    <2>8. x \in TraceeSet /\ x.known BY <1>2, <2>5, ExecEnds
    <2> HIDE DEF x
    <2>9. root'.tid = root.tid /\ root'.status = root.status
      BY <1>1, <2>1, <2>4 DEF TracerType, RootSet
    <2> HIDE DEF t, former
    <2> QED BY <1>4, <2>1, <2>5, <2>6, <2>8, <2>9 DEF t
  <1> QED BY <1>6, <1>7, <1>9, <1>10

LEMMA ExitedTold ==
  ASSUME Sound, Told, [Next]_vars, Exited
  PROVE  Told'
  <1> SUFFICES ASSUME Mode = "launch" PROVE Told'
    BY ConfigStays DEF Told
  <1> DEFINE t == cur.tid
             code == cur.stop.msg
  <1>1. /\ Root \in Tids /\ tracees \in [Tids -> TraceeSet] /\ TracerType /\ root.tid = Root
        /\ root \in RootSet
    BY RootType DEF Sound, Typed, KernelInv, KernelBase, TracerType, Told
  <1>2. pc = "handle" /\ cur.stop.kind = "exited" /\ t \in Tids /\ task' = task
    BY <1>1 DEF Exited, Handling, TracerType, kernel
  <1>3. task[t].st = "gone" /\ task[t].code = code /\ code \in Int
    BY <1>1, <1>2 DEF Sound, Held, HeldTask, TracerType, CurSet, EventSet
  <1>4. CASE pc' = "finish"
    <2>1. end' = [ok |-> FALSE, status |-> end.status] /\ root' = root
      BY <1>4 DEF Exited, Finish
    <2> QED BY <1>4, <2>1, ToldKept DEF Loop
  <1>5. CASE pc' # "finish"
    <2>1. /\ pc' = "wait" /\ root' = record_exit_status(root, t, code)
          /\ tracees' = [tracees EXCEPT ![t] = Absent]
      BY <1>5 DEF Exited, Finish
    <2>2. CASE t # Root
      <3>1. root' = root /\ tracees'[Root] = tracees[Root]
        BY <1>1, <2>1, <2>2 DEF record_exit_status
      <3> QED BY <1>2, <2>1, <3>1, ToldKept DEF Loop
    <2>3. CASE t = Root
      <3> DEFINE st == IF code >= 0 THEN code ELSE 128 - code
      <3>1. root' = [root EXCEPT !.status = st] BY <1>1, <2>1, <2>3 DEF record_exit_status
      <3>2. st = CommandsStatus /\ st >= 0 BY <1>3, <2>3 DEF CommandsStatus
      <3> HIDE DEF st
      <3>3. root'.tid = Root /\ root'.status = CommandsStatus /\ root'.status >= 0
        BY <1>1, <3>1, <3>2 DEF RootSet
      <3>4. Root' = Root /\ CommandsStatus' = CommandsStatus
        BY <1>2, ConfigStays DEF CommandsStatus
      <3>5. pc' \in Loop BY <2>1 DEF Loop
      <3> QED BY <1>2, <1>3, <2>3, <3>3, <3>4, <3>5 DEF Told
    <2> QED BY <2>2, <2>3
  <1> QED BY <1>4, <1>5

(* An exec never moves the root of a launched command. *)
LEMMA RootStays ==
  ASSUME Sound, ExecLeft, Told, Mode = "launch", AtExec
  PROVE  RootAfterExec.tid = root.tid /\ RootAfterExec.status = root.status
  <1> DEFINE t == cur.tid
             former == cur.stop.msg
             rootTid == IF tracees[former].known /\ root.tid = former THEN t ELSE root.tid
             ex == root.exec \/ ExecOfRoot(rootTid, t)
  <1>1. Root \in Tids /\ TracerType /\ task[Root].tg = Root
    BY RootType DEF Sound, Typed, KernelInv, KernelBase
  <1>2. former \in Tids /\ task[former].tg = t BY <1>1 DEF AtExec, Handling, TracerType, ExecLeft
  <1>3. rootTid = root.tid BY <1>1, <1>2 DEF Told
  <1>4. RootAfterExec = [root EXCEPT !.tid = rootTid, !.exec = ex] BY DEF RootAfterExec
  <1> HIDE DEF rootTid, ex
  <1> QED BY <1>1, <1>3, <1>4 DEF TracerType, RootSet

LEMMA FailingTold ==
  ASSUME Sound, ExecLeft, Told, [Next]_vars, Failing
  PROVE  Told'
  <1>1. TracerType BY DEF Sound, Typed
  <1>2. pc' = "finish" /\ end' = [ok |-> FALSE, status |-> end.status] BY FailingEnds
  <1>3. root' = root \/ (AtExec /\ root' = RootAfterExec)
    BY <1>1, FailingLeaves DEF LeftPlain, LeftForked, LeftMigrated
  <1>4. Mode = "launch" => root'.tid = root.tid /\ root'.status = root.status BY <1>3, RootStays
  <1> QED BY <1>2, <1>4, ToldKept DEF Loop

LEMMA ToldNext ==
  ASSUME Sound, ExecLeft, Told, [Next]_vars
  PROVE  Told'
  <1>1. /\ Root \in Tids /\ tracees \in [Tids -> TraceeSet] /\ TracerType /\ end \in EndSet
        /\ config \in Configs
    BY RootType DEF Sound, Typed, KernelInv, KernelBase, TracerType
  <1>2. CASE \/ SyscallEntry \/ SyscallExit \/ EventStop \/ ForkStop \/ ExecStop
             \/ NewbornStop \/ SignalStop \/ GroupStop
    BY <1>2, HandlersTold
  <1>3. CASE Exited BY <1>3, ExitedTold
  <1>4. CASE LoopEnds
    <2>1. /\ pc = "wait" /\ Known = {} /\ pc' = "finish" /\ root' = root
          /\ end' = [ok |-> TRUE, status |->
                       IF Mode = "attach" \/ root.status < 0 THEN 0 ELSE root.status]
      BY <1>4 DEF LoopEnds, Finish
    <2>2. ~tracees[Root].known BY <1>1, <2>1 DEF Known
    <2>3. Mode = "launch" => root.status >= 0 BY <2>1, <2>2 DEF Told, Loop
    <2>4. root.status \in Int BY <1>1 DEF TracerType, RootSet
    <2>5. Mode = "launch" => end'.status = root.status BY <2>1, <2>3, <2>4
    <2> QED BY <2>1, <2>3, <2>5, ToldKept DEF Loop
  <1>5. CASE StartLaunch
    <2>1. root' = root /\ pc = "start" BY <1>5 DEF StartLaunch
    <2>2. CASE InStop(Root)
      <3>1. pc' = "wait" /\ tracees' = [tracees EXCEPT ![Root].inStop = FALSE]
        BY <1>5, <2>2 DEF StartLaunch
      <3>2. tracees'[Root].known = tracees[Root].known BY <1>1, <3>1 DEF TraceeSet
      <3> QED BY <2>1, <3>1, <3>2, ToldKept DEF Loop
    <2>3. CASE ~InStop(Root)
      <3>1. pc' = "finish" /\ ~end'.ok BY <1>1, <1>5, <2>3 DEF StartLaunch, EndSet
      <3> QED BY <2>1, <3>1, ToldKept DEF Loop
    <2> QED BY <2>2, <2>3
  <1>6. CASE Resume
    <2> DEFINE t == cur.tid
    <2>1. /\ root' = root /\ pc = "resume" /\ shutdown' = shutdown /\ t \in Tids
          /\ tracees' = [tracees EXCEPT ![t].inStop = FALSE, ![t].sig = 0]
      BY <1>1, <1>6 DEF Resume, TracerType
    <2>2. tracees'[Root].known = tracees[Root].known BY <1>1, <2>1 DEF TraceeSet
    <2>3. (shutdown # 0 /\ pc' = "finish") \/ pc' = "wait" BY <1>6 DEF Resume, Finish
    <2> QED BY <2>1, <2>2, <2>3, ToldKept DEF Loop
  <1>7. CASE WaitFails \/ ListenFails \/ RequestFails \/ ExitWriteFails \/ NoMemory
    <2>1. root' = root /\ pc' = "finish" /\ end' = [ok |-> FALSE, status |-> end.status]
      BY <1>7 DEF WaitFails, ListenFails, RequestFails, ExitWriteFails, NoMemory, Finish
    <2> QED BY <2>1, ToldKept DEF Loop
  <1>8. CASE \E s \in ShutdownSignals : ShutdownArrives(s)
    <2>1. /\ shutdown' \in {2, 15} /\ root' = root /\ tracees' = tracees
          /\ pc' = pc \/ pc' = "finish"
      BY <1>1, <1>8, TracerAssumption DEF ShutdownArrives, ShutdownSignals, Finish
    <2> QED BY <2>1, ToldKept DEF Loop
  <1>9. CASE TasksStep \/ UNCHANGED vars
    <2>1. UNCHANGED tracer BY <1>9 DEF TasksStep, vars
    <2> QED BY <2>1, ToldKept DEF tracer
  <1>10. CASE Block \/ Untracked \/ ResumeTooLate \/ \E t \in Tids : InterruptOne(t) \/ Wait(t)
    <2>1. pc \in Loop /\ pc' \in Loop /\ root' = root /\ tracees' = tracees
      BY <1>10 DEF Block, Untracked, ResumeTooLate, InterruptOne, Wait, Loop
    <2> QED BY <2>1, ToldKept
  <1>11. CASE \/ CleanUp \/ KillAll \/ AllReaped \/ InterruptRunning \/ DetachWaited \/ Detached
              \/ \E t \in Tids : Reap(t) \/ DetachStopped(t) \/ DetachNext(t) \/ TracerGone(t)
    <2>1. pc \notin Loop /\ pc' \notin Loop /\ root' = root /\ end' = end /\ shutdown' = shutdown
      BY <1>11 DEF CleanUp, KillAll, AllReaped, InterruptRunning, DetachWaited, Detached, Reap,
             DetachStopped, DetachNext, TracerGone, Done, tracer, Loop
    <2> QED BY <2>1, ToldKept
  <1> QED BY <1>2, <1>3, <1>4, <1>5, <1>6, <1>7, <1>8, <1>9, <1>10, <1>11, FailingTold
          DEF Next, TracerStep, Outside, Terminated, Stopped, Failing

LEMMA EveryStepPrograms ==
  ASSUME Sound, [Next]_vars
  PROVE  \/ SameProgram(task')
         \/ \E t \in Tids : ExecEvent(t) /\ UNCHANGED tracer
  <1>1. Typed /\ TracerType /\ GoodTasks /\ Root \in Tids /\ KernelBase
    BY RootType DEF Sound, Typed, KernelInv, KernelBase
  <1>2. task' = task => SameProgram(task') BY DEF SameProgram
  <1>3. CASE TasksStep BY <1>1, <1>3, TasksPrograms DEF TasksStep
  <1>4. \A t \in Tids : task[t] \in TaskSet BY <1>1 DEF GoodTasks
  <1>5. CASE StartLaunch \/ Resume
    <2>1. \/ task' = task
          \/ \E t \in Tids : \E s, h : PtraceResume(t, s, h)
          \/ PtraceListen(cur.tid) /\ cur.tid \in Tids
      BY <1>1, <1>5 DEF StartLaunch, Resume, kernel, TracerType
    <2>2. ASSUME NEW t \in Tids, NEW s, NEW h, PtraceResume(t, s, h) PROVE SameProgram(task')
      BY <1>1, <1>4, <2>2, GoOnPrograms DEF PtraceResume
    <2>3. CASE PtraceListen(cur.tid) /\ cur.tid \in Tids
      <3> DEFINE t == cur.tid
                 x == [task[t] EXCEPT !.st = "listen", !.stop = NoStop, !.seen = FALSE]
                 y == Halt(task[t], "event_stop", SIGTRAP, 0, "none")
      <3>1. task' = [task EXCEPT ![t] = x] \/ task' = [task EXCEPT ![t] = y]
        BY <2>3 DEF PtraceListen
      <3>2. x.execd = task[t].execd BY <1>4, <2>3 DEF TaskSet
      <3>3. y.execd = task[t].execd BY <1>4, <2>3, RecordPrograms
      <3> HIDE DEF x, y
      <3> QED BY <1>1, <2>3, <3>1, <3>2, <3>3, OneProgram
    <2> QED BY <1>2, <2>1, <2>2, <2>3
  <1>6. CASE InterruptRunning \/ KillAll \/ \E t \in Tids : InterruptOne(t)
    BY <1>1, <1>6, TrapPrograms DEF InterruptRunning, KillAll, InterruptOne
  <1>7. CASE \E t \in Tids : Wait(t) \/ Reap(t)
    BY <1>1, <1>7, ReportPrograms DEF Wait, Reap
  <1>8. CASE NoMemory
    <2>1. \/ task' = task \/ task' = Killed({Now.msg})
          \/ /\ pc = "handle" /\ cur.stop.kind = "fork" /\ InStop(cur.tid)
             /\ PtraceDetach(Now.msg, 0)
      BY <1>8 DEF NoMemory, Handling, kernel
    <2>2. CASE /\ pc = "handle" /\ cur.stop.kind = "fork" /\ InStop(cur.tid)
               /\ PtraceDetach(Now.msg, 0)
      <3>1. At(task[cur.tid], "fork") \/ At(task[cur.tid], "exec")
        BY <2>2 DEF Sound, Held, HeldTask, At, InStop
      <3>2. cur.tid \in Tids BY <1>1, <2>2 DEF TracerType
      <3>3. Now.msg \in Tids
        BY <1>1, <3>1, <3>2 DEF GoodTasks, GoodTask, StopAgrees, Now
      <3> QED BY <1>1, <2>2, <3>3, DetachPrograms
    <2> QED BY <1>1, <1>2, <2>1, <2>2, TrapPrograms
  <1>9. CASE \E t \in Tids : DetachStopped(t)
    BY <1>1, <1>2, <1>9, DetachPrograms DEF DetachStopped, kernel
  <1>10. CASE DetachWaited
    <2>1. cur.tid \in Tids BY <1>1, <1>10 DEF DetachWaited, TracerType
    <2>2. \/ PtraceDetach(cur.tid, DetachSignal(task[cur.tid].stop))
          \/ task' = Report(cur.tid)
          \/ task' = task
      BY <1>10 DEF DetachWaited
    <2> QED BY <1>1, <1>2, <2>1, <2>2, DetachPrograms, ReportPrograms
  <1>11. ASSUME NEW t \in Tids, TracerGone(t) PROVE SameProgram(task')
    <2>1. \/ PtraceDetach(t, DetachSignal(task[t].stop))
          \/ task' = [task EXCEPT ![t].how = "free", ![t].trap = FALSE]
      BY <1>11 DEF TracerGone
    <2>2. CASE task' = [task EXCEPT ![t].how = "free", ![t].trap = FALSE]
      BY <1>1, <2>2 DEF SameProgram, GoodTasks, TaskSet
    <2> QED BY <1>1, <2>1, <2>2, DetachPrograms
  <1>12. CASE \/ SyscallEntry \/ SyscallExit \/ EventStop \/ ForkStop \/ ExecStop
              \/ NewbornStop \/ SignalStop \/ GroupStop
    BY <1>1, <1>2, <1>12, HandlerHandsOn DEF HandsOn
  <1>13. CASE \/ LoopEnds \/ Block \/ WaitFails \/ ListenFails \/ Exited \/ Untracked \/ RequestFails
              \/ ExitWriteFails \/ ResumeTooLate \/ CleanUp \/ AllReaped \/ Detached
              \/ (\E s \in ShutdownSignals : ShutdownArrives(s))
              \/ (\E t \in Tids : DetachNext(t)) \/ UNCHANGED vars
    BY <1>2, <1>13 DEF LoopEnds, Block, WaitFails, ListenFails, Exited, Untracked, RequestFails,
           ExitWriteFails, ResumeTooLate, CleanUp, AllReaped, Detached, ShutdownArrives, DetachNext,
           vars, kernel
  <1>14. CASE Failing BY <1>2, <1>14, FailingEnds DEF kernel
  <1> QED BY <1>3, <1>5, <1>6, <1>7, <1>8, <1>9, <1>10, <1>11, <1>12, <1>13, <1>14
          DEF Next, TracerStep, Outside, Terminated, Stopped, Failing

(* Of the command's first task, in particular. *)
LEMMA RootsProgram ==
  ASSUME Sound, [Next]_vars
  PROVE  \/ task'[Root].execd = task[Root].execd
         \/ /\ UNCHANGED tracer /\ task'[Root].execd
            /\ \E t \in Tids : /\ task[t].st = "exec" /\ task[t].tg = Root
                               /\ task[t].how # "free" => At(task'[Root], "exec")
  <1>1. /\ KernelBase /\ Root \in Tids /\ task[Root].tg = Root /\ GoodTask(task[Root])
        /\ 0 \notin Tids
    BY RootType, KernelAssumption DEF Sound, Typed, KernelInv, KernelBase, GoodTasks
  <1>2. task[Root].st # "none" BY <1>1 DEF GoodTask, NoTask
  <1>3. CASE SameProgram(task') BY <1>1, <1>2, <1>3 DEF SameProgram
  <1>4. ASSUME NEW t \in Tids, ExecEvent(t), UNCHANGED tracer
        PROVE  \/ task'[Root].execd = task[Root].execd
               \/ /\ UNCHANGED tracer /\ task'[Root].execd
                  /\ \E u \in Tids : /\ task[u].st = "exec" /\ task[u].tg = Root
                                     /\ task[u].how # "free" => At(task'[Root], "exec")
    <2>1. TakenOver(t, task[t].tg, task') BY <1>1, <1>4, ExecEventEffect
    <2> QED BY <1>1, <1>4, <2>1 DEF TakenOver
  <1> QED BY <1>3, <1>4, EveryStepPrograms

-----------------------------------------------------------------------------
(* A command that is launched and not followed is alone, and only SIGKILL  *)
(* gets a task out of a ptrace-stop: what the loop acts on is there.       *)
Alone == Mode = "launch" /\ Undisturbed

OnlyRoot ==
  /\ \A t \in Tids \ {Root} : task[t].st = "none" /\ ~tracees[t].known
  /\ pc = "start" => InStop(Root)
  /\ pc = "resume" \/ (pc = "handle" /\ cur.stop.kind # "exited") =>
       InStop(Root) /\ task[Root].stop = cur.stop
  /\ pc \in {"wait", "blocked"} /\ tracees[Root].known => task[Root].st # "gone"
  /\ pc = "resume" => ~cur.listen
  /\ pc # "interrupt"

(* install_seccomp_program has failed. *)
FailedSetup ==
  Seccomp /\ task[Root].st = "gone" /\ task[Root].code = 126 /\ ~task[Root].execd

Unharmed ==
  Alone => /\ pc \in Loop => OnlyRoot
           /\ pc \notin Loop /\ shutdown = 0 => end.ok \/ FailedSetup

(* Once the command has executed its program, the tracer knows it or is    *)
(* about to learn it.                                                      *)
Noticed ==
  Alone /\ pc \in Loop /\ task[Root].execd =>
    root.exec \/ (At(task[Root], "exec") /\ pc \in {"wait", "blocked", "handle"})

LEMMA FailedStays ==
  ASSUME Sound, [Next]_vars, FailedSetup
  PROVE  FailedSetup'
  <1>1. Root \in Tids BY RootType DEF Sound, Typed, KernelInv, KernelBase
  <1>2. task'[Root] = task[Root] BY <1>1, EveryStepAges DEF FailedSetup, Ages
  <1> QED BY <1>2, ConfigStays DEF FailedSetup

LEMMA StopStays ==
  ASSUME KernelBase, SIGKILL \notin Signals, \A t \in Tids \ {Root} : task[t].st = "none",
         InStop(Root), TasksStep
  PROVE  task'[Root].st = "stop" /\ task'[Root].stop = task[Root].stop
  <1>1. GoodTasks /\ Root \in Tids BY RootType DEF KernelBase
  <1>2. \A t \in Tids : task[t].st \in {"none", "stop"} BY DEF InStop
  <1>3. ~SetupFails BY <1>1, <1>2 DEF SetupFails, InUserMode
  <1>4. PICK t \in Tids : KernelStep(t) \/ ProgramStep(t) BY <1>3 DEF TasksStep
  <1>5. task[t].st \in {"none", "stop"} BY <1>2
  <1>6. ~KernelStep(t)
    BY <1>5 DEF KernelStep, DecideRestart, Restart, Sigreturn, Interrupted, Fork, ForkEvent,
           Complete, ExecEvent, GetSignal, GetSignalUntraced, ExitGroup, ExitThread, InUserMode
  <1>7. PICK s \in Signals : SendSignal(t, s)
    BY <1>4, <1>5, <1>6 DEF ProgramStep, EnterSyscall, Return, ExecBegin, InUserMode
  <1>8. task'[Root] = task[Root] \/ Stays(task[Root], task'[Root])
    BY <1>1, <1>7, SendSignalEffect
  <1> QED BY <1>8 DEF Stays, InStop

LEMMA TasksUnharmed ==
  ASSUME Sound, Unharmed, TasksStep
  PROVE  Unharmed'
  <1>1. config' = config /\ UNCHANGED tracer BY DEF TasksStep
  <1>2. Root' = Root /\ (Alone' <=> Alone)
    BY <1>1 DEF Root, InitTasks, Alone, Undisturbed, Mode, Seccomp, Follow, Signals, WritesFail,
           MemoryFails
  <1>3. UNCHANGED <<tracees, pc, cur, shutdown, end>> BY <1>1 DEF tracer
  <1>3a. FailedSetup => FailedSetup' BY FailedStays DEF Next
  <1> SUFFICES ASSUME Alone, pc \in Loop, OnlyRoot PROVE OnlyRoot'
    BY <1>2, <1>3, <1>3a DEF Unharmed
  <1>4. /\ KernelBase /\ GoodTasks /\ Root \in Tids /\ task[Root].tg = Root
        /\ ~Follow /\ SIGKILL \notin Signals
    BY RootType DEF Sound, Typed, KernelInv, KernelBase, Alone, Undisturbed
  <1>5. \A t \in Tids \ {Root} : task[t].st = "none" BY DEF OnlyRoot
  <1>6. InStop(Root) => task'[Root].st = "stop" /\ task'[Root].stop = task[Root].stop
    BY <1>4, <1>5, StopStays
  <1>7. \/ Everyone(task')
        \/ \E t, c \in Tids : Forked(t, c, task')
        \/ \E t \in Tids : TakenOver(t, task[t].tg, task')
    BY <1>4, TasksEffect
  <1>8. /\ \A t \in Tids \ {Root} : task'[t].st = "none"
        /\ task[Root].st # "gone" => task'[Root].st # "gone"
    <2>1. CASE Everyone(task')
      <3>1. \A t \in Tids : Kept(task[t], task'[t]) BY <2>1, PlainKept DEF Everyone
      <3> QED BY <1>4, <1>5, <3>1 DEF Kept
    <2>2. CASE \E t, c \in Tids : Forked(t, c, task') BY <1>4, <2>2 DEF Forked
    <2>3. ASSUME NEW t \in Tids, TakenOver(t, task[t].tg, task')
          PROVE  /\ \A u \in Tids \ {Root} : task'[u].st = "none"
                 /\ task[Root].st # "gone" => task'[Root].st # "gone"
      <3>1. t = Root BY <1>5, <2>3 DEF TakenOver
      <3> QED BY <1>4, <1>5, <2>3, <3>1 DEF TakenOver, At
    <2> QED BY <1>7, <2>1, <2>2, <2>3
  <1> QED BY <1>2, <1>3, <1>6, <1>8 DEF OnlyRoot, InStop

(* Steps that leave the tasks alone, or only their status as seen. *)
LEMMA UnharmedKept ==
  ASSUME config' = config, Alone => /\ pc' \in Loop => OnlyRoot'
                                    /\ pc' \notin Loop /\ shutdown' = 0 =>
                                         end'.ok \/ FailedSetup'
  PROVE  Unharmed'
  <1>1. Alone' <=> Alone
    BY DEF Alone, Undisturbed, Mode, Seccomp, Follow, Signals, WritesFail, MemoryFails
  <1> QED BY <1>1 DEF Unharmed

(* The event the loop acts on is Root's. *)
LEMMA RootsEvent ==
  ASSUME Sound, Unharmed, Alone, pc \in {"handle", "resume"}
  PROVE  /\ cur.tid = Root /\ OnlyRoot /\ Root \in Tids
         /\ pc = "resume" \/ cur.stop.kind # "exited" => InStop(cur.tid) /\ Now = cur.stop
  <1>1. OnlyRoot BY DEF Unharmed, Loop
  <1>2. cur.tid \in Tids /\ HeldTask(task[cur.tid], cur.stop) /\ Root \in Tids
    BY RootType DEF Sound, Typed, TracerType, Held, KernelInv, KernelBase
  <1>3. task[cur.tid].st # "none" BY <1>2 DEF HeldTask, At
  <1>4. cur.tid = Root BY <1>1, <1>2, <1>3 DEF OnlyRoot
  <1> QED BY <1>1, <1>2, <1>4 DEF OnlyRoot, Now

LEMMA HandlersUnharmed ==
  ASSUME Sound, InStep, ExecLeft, Unharmed, config' = config,
         \/ SyscallEntry \/ SyscallExit \/ EventStop \/ ForkStop \/ ExecStop
         \/ NewbornStop \/ SignalStop \/ GroupStop
  PROVE  Unharmed'
  <1>1. pc = "handle" /\ cur.stop.kind # "exited"
    BY DEF SyscallEntry, AtEntry, SyscallExit, AtExit, EventStop, ForkStop, ExecStop, AtExec,
           NewbornStop, SignalStop, GroupStop, Handling
  <1> SUFFICES ASSUME Alone
               PROVE  /\ pc' \in Loop => OnlyRoot'
                      /\ pc' \notin Loop /\ shutdown' = 0 => end'.ok \/ FailedSetup'
    BY UnharmedKept
  <1>2. /\ cur.tid = Root /\ OnlyRoot /\ Root \in Tids /\ InStop(cur.tid) /\ Now = cur.stop
    BY <1>1, RootsEvent
  <1>3. Root' = Root BY DEF Root, InitTasks
  <1>4. /\ TracerType /\ tracees \in [Tids -> TraceeSet] /\ GoodTask(task[Root])
        /\ Groups(task) /\ 0 \notin Tids
    BY <1>2, KernelAssumption DEF Sound, Typed, TracerType, KernelInv, KernelBase, GoodTasks
  <1>5. ASSUME NEW tr, NEW r, NEW o, NEW d, ToResume(tr, r, o, d, FALSE),
               \A t \in Tids \ {Root} : ~tr[t].known, DOMAIN tr = Tids
        PROVE  OnlyRoot' /\ pc' = "resume"
    <2>1. HandsOn BY <1>1, <1>4, <1>5, ToResumeHandsOn
    <2>2. \A t \in Tids \ {Root} : tracees'[t] = tr[t] BY <1>2, <1>5 DEF ToResume
    <2>3. ~cur'.listen BY <1>4, <1>5 DEF ToResume, TracerType, CurSet
    <2> QED BY <1>1, <1>2, <1>3, <1>5, <2>1, <2>2, <2>3 DEF HandsOn, OnlyRoot, InStop
  <1>6. DOMAIN tracees = Tids /\ \A t \in Tids \ {Root} : ~tracees[t].known
    BY <1>2, <1>4 DEF OnlyRoot
  <1>7. CASE SyscallEntry \/ SyscallExit \/ EventStop \/ NewbornStop \/ SignalStop \/ GroupStop
    <2>1. Listen = FALSE BY DEF Listen, Alone
    <2>2. (cur.stop.sig # SIGTRAP /\ Listen) = FALSE BY <2>1
    <2>3. \E r : \E o, d : ToResume(tracees, r, o, d, FALSE)
      BY <1>7, <2>1, <2>2, Zenon DEF SyscallEntry, SyscallExit, EventStop, NewbornStop, SignalStop,
                                     GroupStop
    <2> QED BY <1>5, <1>6, <2>3 DEF Loop
  <1>9. CASE ForkStop
    <2> DEFINE m  == Now.msg
               tr == add_tracee(tracees, m)
    <2>1. \E r : \E o, d : ToResume(tr, r, o, d, FALSE) BY <1>9 DEF ForkStop
    <2>2. At(task[Root], "fork") BY <1>2, <1>9 DEF ForkStop, Handling, At, InStop, Now
    <2>3. m \in Tids BY <1>2, <1>4, <2>2 DEF GoodTask, StopAgrees, Now
    <2>4. task[m].st # "none" BY <1>2, <1>4, <2>2 DEF Groups, Grouped, Now
    <2>5. m = Root BY <1>2, <2>3, <2>4 DEF OnlyRoot
    <2>6. DOMAIN tr = Tids /\ \A t \in Tids \ {Root} : ~tr[t].known
      BY <1>6, <2>5 DEF add_tracee
    <2> HIDE DEF tr
    <2> QED BY <1>5, <2>1, <2>6 DEF Loop
  <1>10. CASE ExecStop
    <2> DEFINE former == cur.stop.msg
               tr == Migrated(former, cur.tid)
    <2>1. \E r : \E o, d : ToResume(tr, r, o, d, FALSE) BY <1>10 DEF ExecStop
    <2>2. former \in Tids /\ task[former].tg = cur.tid
      BY <1>4, <1>10 DEF ExecStop, AtExec, Handling, TracerType, ExecLeft
    <2>3. task[former].st # "none"
      BY <1>2, <1>4, <2>2 DEF Sound, Typed, KernelInv, KernelBase, GoodTasks, GoodTask, NoTask
    <2>4. former = Root BY <1>2, <2>2, <2>3 DEF OnlyRoot
    <2>5. tr = tracees BY <1>2, <2>4 DEF Migrated
    <2> QED BY <1>5, <1>6, <2>1, <2>5 DEF Loop
  <1> QED BY <1>7, <1>9, <1>10

(* Then no handler fails on its way: no entry is ever found with another   *)
(* call pending.                                                           *)
LEMMA NothingFails ==
  ASSUME Sound, InStep, Unharmed, Alone
  PROVE  ~Failing
  <1> SUFFICES ASSUME Failing PROVE FALSE OBVIOUS
  <1>1. ~Fallible /\ ~MemoryFails BY DEF Fallible, Alone, Undisturbed
  <1>2. EntryFails BY <1>1 DEF Failing, WriteFails
  <1>3. pc = "handle" /\ InStop(cur.tid) /\ Now.kind \in {"entry", "seccomp"}
    BY <1>2 DEF EntryFails, AtEntry, Handling
  <1>4. Before(task[cur.tid], Tracee.pend) BY <1>3, Found
  <1>5. At(task[cur.tid], "entry") \/ At(task[cur.tid], "seccomp") BY <1>3 DEF At, InStop, Now
  <1>6. Tracee.pend = NoCall BY <1>4, <1>5 DEF Before, Within, At
  <1> DEFINE r  == Tracee
             c  == Entered
             f1 == Fallible /\ CompletesExec(r) /\ IsSelected(r.pend)
             f2 == Fallible /\ GivenUp(r, c) /\ IsSelected(r.intr)
             f3 == \/ MemoryFails /\ Captures(c) /\ ~Restarts(r, c)
                   \/ Fallible /\ begin_output(out, r, c) # settled_output(out, r, c)
  <1>7. PICK s \in begin_stages(r, c) : s.fails BY <1>2, <1>6 DEF EntryFails, MayEnter
  <1>8. \/ s = [left |-> r, freed |-> {}, fails |-> f1]
        \/ s = [left |-> WithoutExec(r), freed |-> ExecFreed(r), fails |-> f2]
        \/ s = [left |-> Settled(r, c), freed |-> Freed(r, c), fails |-> f3]
    BY <1>7, Zenon DEF begin_stages
  <1>9. ~f1 /\ ~f2 /\ ~f3 BY <1>1
  <1> HIDE DEF r, c, f1, f2, f3
  <1> QED BY <1>7, <1>8, <1>9

(* The loop sets Root going: it does not come back gone. *)
LEMMA GoingUnharmed ==
  ASSUME Sound, Unharmed, config' = config, StartLaunch \/ Resume
  PROVE  Unharmed'
  <1> SUFFICES ASSUME Alone
               PROVE  /\ pc' \in Loop => OnlyRoot'
                      /\ pc' \notin Loop /\ shutdown' = 0 => end'.ok \/ FailedSetup'
    BY UnharmedKept
  <1>1. /\ Root \in Tids /\ GoodTasks /\ TracerType /\ tracees \in [Tids -> TraceeSet]
        /\ pc \in {"start", "resume"} /\ OnlyRoot
    BY RootType DEF Sound, Typed, KernelInv, KernelBase, TracerType, Unharmed, StartLaunch,
           Resume, Loop
  <1>2. Root' = Root BY DEF Root, InitTasks
  <1>3. pc = "resume" => cur.tid = Root BY <1>1, RootsEvent
  <1>4. ASSUME \/ SetGoing(Root, ResumeRequest(tracees[Root]), task')
               \/ Listens(task[Root], task'[Root]) /\ \A u \in Tids \ {Root} : task'[u] = task[u],
               \A u \in Tids : tracees'[u].known = tracees[u].known, pc' = "wait"
        PROVE  OnlyRoot'
    <2>1. task'[Root].st # "gone" BY <1>4 DEF SetGoing, Dies, GoesOn, Listens, At
    <2>2. \A u \in Tids \ {Root} : task'[u] = task[u] \/ Plain(task[u], task'[u])
      BY <1>4 DEF SetGoing
    <2>3. \A u \in Tids \ {Root} : task'[u].st = "none"
      BY <1>1, <2>2, PlainKept DEF OnlyRoot, Kept
    <2> QED BY <1>1, <1>2, <1>4, <2>1, <2>3 DEF OnlyRoot
  <1>5. CASE StartLaunch
    <2> DEFINE h == ResumeRequest(tracees[Root])
    <2>1. InStop(Root) BY <1>1, <1>5 DEF StartLaunch, OnlyRoot
    <2>2. /\ PtraceResume(Root, 0, h) /\ pc' = "wait"
          /\ tracees' = [tracees EXCEPT ![Root].inStop = FALSE]
      BY <1>5, <2>1 DEF StartLaunch
    <2>3. h \in {"CONT", "SYSCALL", "free"} /\ 0 \in Nat BY ResumeRequestType
    <2>4. \A u \in Tids : tracees'[u].known = tracees[u].known BY <1>1, <2>2 DEF TraceeSet
    <2> HIDE DEF h
    <2>5. SetGoing(Root, h, task') BY <1>1, <2>2, <2>3, ResumeEffect
    <2> QED BY <1>4, <2>2, <2>4, <2>5 DEF h, Loop
  <1>6. CASE Resume
    <2> DEFINE h == ResumeRequest(tracees[Root])
    <2>1. /\ cur.tid = Root /\ cur.deliver \in Nat /\ shutdown' = shutdown
          /\ tracees' = [tracees EXCEPT ![Root].inStop = FALSE, ![Root].sig = 0]
      BY <1>1, <1>3, <1>6 DEF Resume, TracerType, CurSet
    <2>2. \A u \in Tids : tracees'[u].known = tracees[u].known BY <1>1, <2>1 DEF TraceeSet
    <2>3. h \in {"CONT", "SYSCALL", "free"} BY ResumeRequestType
    <2>4. PtraceListen(Root) \/ PtraceResume(Root, cur.deliver, h)
      BY <1>6, <2>1 DEF Resume
    <2> HIDE DEF h
    <2>5. \/ SetGoing(Root, h, task')
          \/ Listens(task[Root], task'[Root]) /\ \A u \in Tids \ {Root} : task'[u] = task[u]
      BY <1>1, <2>1, <2>3, <2>4, ResumeEffect, ListenEffect
    <2>6. (shutdown # 0 /\ pc' = "finish") \/ pc' = "wait" BY <1>6 DEF Resume, Finish
    <2> QED BY <1>4, <2>1, <2>2, <2>5, <2>6 DEF h, Loop
  <1> QED BY <1>5, <1>6

LEMMA WaitUnharmed ==
  ASSUME Sound, Unharmed, config' = config, NEW t \in Tids, Wait(t)
  PROVE  Unharmed'
  <1> SUFFICES ASSUME Alone
               PROVE  /\ pc' \in Loop => OnlyRoot'
                      /\ pc' \notin Loop /\ shutdown' = 0 => end'.ok \/ FailedSetup'
    BY UnharmedKept
  <1>1. /\ GoodTasks /\ pc' = "handle" /\ OnlyRoot /\ Waitable(t) /\ task' = Report(t)
        /\ tracees' = tracees
    BY DEF Sound, Typed, KernelInv, KernelBase, Wait, Unharmed, Loop
  <1>2. Reported(task[t], task'[t]) /\ \A u \in Tids \ {t} : task'[u] = task[u]
    BY <1>1, ReportEffect
  <1>3. t = Root BY <1>1, <1>2 DEF OnlyRoot, Reported
  <1>4. /\ cur'.tid = t
        /\ InStop(t) => cur'.stop = task[t].stop
        /\ ~InStop(t) => cur'.stop.kind = "exited"
    BY <1>1, WaitReports
  <1>5. Root' = Root BY DEF Root, InitTasks
  <1>6. InStop(t) => task'[t].st = "stop" /\ task'[t].stop = task[t].stop
    BY <1>2 DEF Reported, InStop
  <1>7. OnlyRoot'
    <2>1. \A u \in Tids \ {Root} : task'[u].st = "none" /\ ~tracees'[u].known
      BY <1>1, <1>2, <1>3 DEF OnlyRoot
    <2>2. cur'.stop.kind # "exited" => task'[Root].st = "stop" /\ task'[Root].stop = cur'.stop
      BY <1>3, <1>4, <1>6
    <2> QED BY <1>1, <1>5, <2>1, <2>2 DEF OnlyRoot, InStop
  <1> QED BY <1>1, <1>7 DEF Loop

LEMMA RestUnharmed ==
  ASSUME Sound, Unharmed, Noticed, config' = config,
         \/ LoopEnds \/ Block \/ WaitFails \/ ListenFails \/ Exited \/ Untracked \/ RequestFails
         \/ ExitWriteFails \/ NoMemory \/ ResumeTooLate
  PROVE  Unharmed'
  <1> SUFFICES ASSUME Alone
               PROVE  /\ pc' \in Loop => OnlyRoot'
                      /\ pc' \notin Loop /\ shutdown' = 0 => end'.ok \/ FailedSetup'
    BY UnharmedKept
  <1>1. /\ pc \in {"wait", "handle", "resume"} /\ OnlyRoot
    BY DEF LoopEnds, Block, WaitFails, ListenFails, Exited, Untracked, RequestFails, ExitWriteFails,
           NoMemory, ResumeTooLate, Handling, Unharmed, Loop
  <1>2. /\ Root \in Tids /\ TracerType /\ tracees \in [Tids -> TraceeSet] /\ task[Root].tg = Root
        /\ GoodTasks /\ 0 \notin Tids
    BY RootType, KernelAssumption DEF Sound, Typed, KernelInv, KernelBase, TracerType
  <1>3. Root' = Root BY DEF Root, InitTasks
  <1>4. pc \in {"handle", "resume"} => cur.tid = Root BY RootsEvent
  <1>5. /\ pc = "handle" /\ cur.stop.kind # "exited" => InStop(cur.tid) /\ Now = cur.stop
        /\ pc = "resume" => InStop(cur.tid)
    BY RootsEvent
  <1>5a. ~ListenFails BY <1>1 DEF ListenFails, OnlyRoot
  <1>6. ~ExitWriteFails /\ ~NoMemory
    BY DEF ExitWriteFails, Fallible, NoMemory, Alone, Undisturbed
  <1>7. ~ResumeTooLate BY <1>5 DEF ResumeTooLate
  <1>8. ~RequestFails BY <1>5 DEF RequestFails, Handling
  <1>9. ~WaitFails
    <2> SUFFICES ASSUME pc = "wait", Known # {} PROVE HaveChildren BY DEF WaitFails
    <2>1. tracees[Root].known BY <1>1 DEF Known, OnlyRoot
    <2>2. task[Root].st # "gone" BY <1>1, <2>1 DEF OnlyRoot
    <2>3. task[Root].st # "none" BY <1>2 DEF GoodTasks, GoodTask, NoTask
    <2>4. task[Root].how # "free" BY <1>2 DEF Sound, NoneFree, Loop
    <2> QED BY <1>2, <2>2, <2>3, <2>4 DEF HaveChildren, Traced
  <1>10. CASE LoopEnds BY <1>10 DEF LoopEnds, Finish, Loop
  <1>11. CASE Block
    BY <1>1, <1>3, <1>11 DEF Block, OnlyRoot, InStop, Loop, kernel
  <1>12. CASE Untracked
    <2>1. pc' = "wait" /\ task' = task /\ tracees' = tracees /\ ~tracees[cur.tid].known
          /\ pc = "handle"
      BY <1>12 DEF Untracked, IsTracked, kernel
    <2> QED BY <1>1, <1>3, <1>4, <2>1 DEF OnlyRoot, InStop, Loop
  <1>13. CASE Exited /\ pc' = "finish"
    <2>1. Seccomp /\ ~root.exec /\ cur.stop.msg = 126 /\ task' = task
          /\ pc = "handle" /\ cur.stop.kind = "exited"
      BY <1>13 DEF Exited, Handling, kernel
    <2>2. task[Root].st = "gone" /\ task[Root].code = 126
      BY <1>4, <2>1 DEF Sound, Held, HeldTask
    <2>3. ~task[Root].execd BY <2>1, <2>2 DEF Noticed, Loop, At
    <2>4. Seccomp' = Seccomp BY DEF Seccomp
    <2> QED BY <1>3, <1>13, <2>1, <2>2, <2>3, <2>4 DEF FailedSetup, Loop
  <1>14. CASE Exited /\ pc' # "finish"
    <2>1. /\ pc' = "wait" /\ task' = task /\ tracees' = [tracees EXCEPT ![cur.tid] = Absent]
          /\ pc = "handle"
      BY <1>14 DEF Exited, Handling, Finish, kernel
    <2>2. ~tracees'[Root].known /\ \A u \in Tids \ {Root} : tracees'[u] = tracees[u]
      BY <1>2, <1>4, <2>1, FreshType
    <2> QED BY <1>1, <1>3, <2>1, <2>2 DEF OnlyRoot, InStop, Loop
  <1> QED BY <1>5a, <1>6, <1>7, <1>8, <1>9, <1>10, <1>11, <1>12, <1>13, <1>14

LEMMA UnharmedInit ==
  ASSUME Init
  PROVE  Unharmed
  <1> SUFFICES ASSUME Alone PROVE pc = "start" /\ OnlyRoot BY DEF Unharmed, Loop
  <1>1. Mode = "launch" BY DEF Alone
  <1>2. pc = "start" BY <1>1 DEF Init
  <1>3. Root \in Tids /\ Root \in InitTasks BY RootType DEF Init, KernelInit
  <1>4. InitTasks = {Root}
    <2>1. config \in Configs BY DEF Init, KernelInit
    <2>2. \E t \in Tids : InitTasks = {t} BY <1>1, <2>1, KernelAssumption DEF Mode, InitTasks
    <2> QED BY <1>3, <2>2
  <1>5. \A t \in Tids \ {Root} : task[t] = NoTask /\ tracees[t] = Absent
    BY <1>4 DEF Init, KernelInit
  <1> DEFINE r == [NoTask EXCEPT !.st = "user", !.tg = Root]
             h == [Halt(r, "signal", SIGSTOP, 0, "auto") EXCEPT !.seen = TRUE]
  <1>6. task[Root] = h BY <1>1, <1>3 DEF Init, KernelInit
  <1>7. h.st = "stop" /\ NoTask.st = "none" BY DEF Halt, NoTask
  <1> HIDE DEF h
  <1> QED BY <1>2, <1>5, <1>6, <1>7, FreshType DEF OnlyRoot, InStop

LEMMA UnharmedNext ==
  ASSUME Sound, ExecLeft, InStep, Unharmed, Noticed, [Next]_vars
  PROVE  Unharmed'
  <1>1. config' = config /\ (FailedSetup => FailedSetup') BY ConfigStays, FailedStays
  <1>2. CASE TasksStep BY <1>2, TasksUnharmed
  <1>3. CASE \/ SyscallEntry \/ SyscallExit \/ EventStop \/ ForkStop \/ ExecStop
             \/ NewbornStop \/ SignalStop \/ GroupStop
    BY <1>1, <1>3, HandlersUnharmed
  <1>4. CASE StartLaunch \/ Resume BY <1>1, <1>4, GoingUnharmed
  <1>5. CASE \E t \in Tids : Wait(t) BY <1>1, <1>5, WaitUnharmed
  <1>6. CASE \/ LoopEnds \/ Block \/ WaitFails \/ ListenFails \/ Exited \/ Untracked \/ RequestFails
             \/ ExitWriteFails \/ NoMemory \/ ResumeTooLate
    BY <1>1, <1>6, RestUnharmed
  <1>7. CASE \E t \in Tids : InterruptOne(t)
    <2>1. pc = "interrupt" BY <1>7 DEF InterruptOne
    <2>2. ~Alone BY <2>1 DEF Unharmed, OnlyRoot, Loop
    <2> QED BY <1>1, <2>2, UnharmedKept
  <1>8. CASE \E s \in ShutdownSignals : ShutdownArrives(s)
    <2>1. config \in Configs BY DEF Sound, Typed, KernelInv, KernelBase
    <2>2. /\ shutdown' \in {2, 15} /\ task' = task /\ tracees' = tracees /\ cur' = cur
          /\ pc' = pc \/ pc' = "finish"
      BY <1>8, <2>1, TracerAssumption DEF ShutdownArrives, ShutdownSignals, Finish, kernel
    <2>3. Root' = Root BY ConfigStays
    <2>4. pc' \in Loop => pc' = pc BY <2>2 DEF Loop
    <2>5. Alone => (pc' \in Loop => OnlyRoot')
      BY <2>2, <2>3, <2>4 DEF Unharmed, OnlyRoot, InStop
    <2> QED BY <1>1, <2>2, <2>5, UnharmedKept
  <1>9. CASE UNCHANGED vars
    <2>1. /\ task' = task /\ tracees' = tracees /\ cur' = cur /\ pc' = pc
          /\ shutdown' = shutdown /\ end' = end
      BY <1>9 DEF vars, kernel, tracer
    <2>2. Root' = Root BY ConfigStays
    <2> QED BY <1>1, <2>1, <2>2, UnharmedKept DEF Unharmed, OnlyRoot, InStop
  <1>10. CASE \/ CleanUp \/ KillAll \/ AllReaped \/ InterruptRunning \/ DetachWaited \/ Detached
              \/ \E t \in Tids : Reap(t) \/ DetachStopped(t) \/ DetachNext(t) \/ TracerGone(t)
    <2>1. pc \notin Loop /\ pc' \notin Loop /\ end' = end /\ shutdown' = shutdown
      BY <1>10 DEF CleanUp, KillAll, AllReaped, InterruptRunning, DetachWaited, Detached, Reap,
             DetachStopped, DetachNext, TracerGone, Done, tracer, Loop
    <2> QED BY <1>1, <2>1, UnharmedKept DEF Unharmed
  <1>11. CASE Failing
    <2>1. ~Alone BY <1>11, NothingFails
    <2> QED BY <1>1, <2>1, UnharmedKept
  <1> QED BY <1>2, <1>3, <1>4, <1>5, <1>6, <1>7, <1>8, <1>9, <1>10, <1>11
          DEF Next, TracerStep, Outside, Terminated, Stopped, Failing

LEMMA LaunchedInit ==
  ASSUME Init, Mode = "launch"
  PROVE  ~task[Root].execd /\ ~At(task[Root], "exec")
  <1> DEFINE r == [NoTask EXCEPT !.st = "user", !.tg = Root]
             h == [Halt(r, "signal", SIGSTOP, 0, "auto") EXCEPT !.seen = TRUE]
  <1>1. Root \in Tids /\ Root \in InitTasks BY RootType DEF Init, KernelInit
  <1>2. task[Root] = h BY <1>1 DEF Init, KernelInit
  <1>3. h.execd = FALSE /\ h.stop.kind = "signal" BY DEF Halt, NoTask
  <1> HIDE DEF h
  <1> QED BY <1>2, <1>3 DEF At

LEMMA NoticedInit ==
  ASSUME Init
  PROVE  Noticed
  <1>1. Mode = "launch" => ~task[Root].execd BY LaunchedInit
  <1> QED BY <1>1 DEF Noticed, Alone

(* The steps of the tasks: only the command's own execve changes whether   *)
(* it has executed its program, and leaves it in the stop that tells.      *)
LEMMA TasksNoticed ==
  ASSUME Sound, Unharmed, Noticed, TasksStep
  PROVE  Noticed'
  <1>1. config' = config /\ UNCHANGED tracer /\ [Next]_vars BY DEF TasksStep, Next
  <1>2. Root' = Root /\ (Alone' <=> Alone)
    BY <1>1 DEF Root, InitTasks, Alone, Undisturbed, Mode, Seccomp, Follow, Signals, WritesFail,
           MemoryFails
  <1>3. UNCHANGED <<pc, root>> BY <1>1 DEF tracer
  <1> SUFFICES ASSUME Alone, pc \in Loop, task'[Root].execd, ~root.exec
               PROVE  At(task'[Root], "exec") /\ pc \in {"wait", "blocked", "handle"}
    BY <1>2, <1>3 DEF Noticed, At
  <1>4. OnlyRoot /\ KernelBase /\ SIGKILL \notin Signals
    BY DEF Unharmed, Alone, Undisturbed, Sound, Typed, KernelInv
  <1>5. CASE task'[Root].execd = task[Root].execd
    <2>1. At(task[Root], "exec") /\ pc \in {"wait", "blocked", "handle"} BY <1>5 DEF Noticed
    <2>2. task'[Root].st = "stop" /\ task'[Root].stop = task[Root].stop
      BY <1>4, <2>1, StopStays DEF OnlyRoot, At, InStop
    <2> QED BY <2>1, <2>2 DEF At
  <1>6. CASE task'[Root].execd # task[Root].execd
    <2>1. PICK t \in Tids : /\ task[t].st = "exec" /\ task[t].tg = Root
                            /\ task[t].how # "free" => At(task'[Root], "exec")
      BY <1>1, <1>6, RootsProgram
    <2>2. task[t].how # "free" BY DEF Sound, NoneFree
    <2>3. t = Root BY <1>4, <2>1 DEF OnlyRoot
    <2>4. pc \notin {"start", "resume", "interrupt"} BY <1>4, <2>1, <2>3 DEF OnlyRoot, InStop
    <2> QED BY <2>1, <2>2, <2>4 DEF Loop
  <1> QED BY <1>5, <1>6

(* The handler of that stop takes note; no other handler is called for it. *)
LEMMA HandlersNotice ==
  ASSUME Sound, Told, Unharmed, Noticed, Alone,
         \/ SyscallEntry \/ SyscallExit \/ EventStop \/ ForkStop \/ ExecStop
         \/ NewbornStop \/ SignalStop \/ GroupStop \/ Exited \/ Untracked
  PROVE  /\ task' = task
         /\ task[Root].execd => root'.exec
  <1>1. pc = "handle" /\ TracerType /\ root \in RootSet
    BY DEF SyscallEntry, AtEntry, SyscallExit, AtExit, EventStop, ForkStop, ExecStop, AtExec,
           NewbornStop, SignalStop, GroupStop, Exited, Untracked, Handling, Sound, Typed, TracerType
  <1>2. /\ cur.tid = Root /\ root.tid = Root
        /\ cur.stop.kind # "exited" => Now = cur.stop
    BY <1>1, RootsEvent DEF Told, Alone
  <1>3. task' = task
    BY DEF SyscallEntry, SyscallExit, EventStop, ForkStop, ExecStop, NewbornStop, SignalStop,
           GroupStop, Exited, Untracked, ToResume, kernel
  <1>4. CASE ExecStop
    <2> DEFINE x == IF tracees[cur.stop.msg].known /\ root.tid = cur.stop.msg THEN cur.tid
                    ELSE root.tid
    <2>1. root' = [root EXCEPT !.tid = x, !.exec = @ \/ ExecOfRoot(x, cur.tid)]
      BY <1>4 DEF ExecStop, RootAfterExec
    <2>2. x = cur.tid BY <1>2
    <2>3. root'.exec = (root.exec \/ ExecOfRoot(x, cur.tid)) BY <1>1, <2>1 DEF RootSet
    <2> QED BY <1>3, <2>2, <2>3 DEF ExecOfRoot
  <1>5. CASE ~ExecStop
    <2>1. cur.stop.kind # "exec"
      BY <1>5 DEF SyscallEntry, AtEntry, SyscallExit, AtExit, EventStop, ForkStop, NewbornStop,
             SignalStop, GroupStop, Exited, Untracked, Handling
    <2>2. ~At(task[Root], "exec")
      <3>1. CASE cur.stop.kind = "exited"
        BY <1>1, <1>2, <3>1 DEF Sound, Held, HeldTask, At
      <3>2. CASE cur.stop.kind # "exited" BY <1>2, <2>1, <3>2 DEF Now, At
      <3> QED BY <3>1, <3>2
    <2>3. task[Root].execd => root.exec BY <1>1, <2>2 DEF Noticed, Loop
    <2>4. root'.exec = root.exec
      BY <1>1, <1>5 DEF SyscallEntry, SyscallExit, EventStop, ForkStop, NewbornStop, SignalStop,
             GroupStop, Exited, Untracked, ToResume, record_exit_status, RootSet
    <2> QED BY <1>3, <2>3, <2>4
  <1> QED BY <1>4, <1>5

LEMMA NoticedNext ==
  ASSUME Sound, Told, Unharmed, Noticed, [Next]_vars
  PROVE  Noticed'
  <1>1. config' = config /\ Root' = Root BY ConfigStays
  <1>2. Alone' <=> Alone
    BY <1>1 DEF Alone, Undisturbed, Mode, Seccomp, Follow, Signals, WritesFail, MemoryFails
  <1>3. CASE TasksStep BY <1>3, TasksNoticed
  <1> SUFFICES ASSUME Alone, pc' \in Loop, task'[Root].execd, ~root'.exec, ~TasksStep
               PROVE  At(task'[Root], "exec") /\ pc' \in {"wait", "blocked", "handle"}
    BY <1>1, <1>2, <1>3 DEF Noticed, At
  <1>4. /\ GoodTasks /\ Root \in Tids /\ config \in Configs
    BY RootType DEF Sound, Typed, KernelInv, KernelBase
  <1>5. ~(\/ SyscallEntry \/ SyscallExit \/ EventStop \/ ForkStop \/ ExecStop
          \/ NewbornStop \/ SignalStop \/ GroupStop \/ Exited \/ Untracked)
    BY HandlersNotice
  <1>6. CASE StartLaunch \/ Resume \/ ResumeTooLate
    <2>1. pc \in {"start", "resume"} /\ pc' = "wait" /\ root' = root
      BY <1>6 DEF StartLaunch, Resume, ResumeTooLate, Finish, Loop
    <2>2. ~task[Root].execd BY <2>1 DEF Noticed, Loop
    <2>3. task'[Root].execd = task[Root].execd BY <2>1, RootsProgram DEF tracer
    <2> QED BY <2>2, <2>3
  <1>7. ASSUME NEW t \in Tids, Wait(t)
        PROVE  At(task'[Root], "exec") /\ pc' \in {"wait", "blocked", "handle"}
    <2>1. /\ Waitable(t) /\ task' = Report(t) /\ pc \in {"wait", "blocked"} /\ pc' = "handle"
          /\ root' = root
      BY <1>7 DEF Wait
    <2>2. Reported(task[t], task'[t]) /\ \A u \in Tids \ {t} : task'[u] = task[u]
      BY <1>4, <2>1, ReportEffect
    <2>3. task'[Root].execd = task[Root].execd BY <2>1, RootsProgram DEF tracer
    <2>4. At(task[Root], "exec") BY <2>1, <2>3 DEF Noticed, Loop
    <2> QED BY <1>4, <2>1, <2>2, <2>4 DEF Reported, At
  <1>8. CASE \E t \in Tids : InterruptOne(t)
    BY <1>8 DEF InterruptOne, Unharmed, OnlyRoot, Loop
  <1>9. CASE Block \/ UNCHANGED vars \/ \E s \in ShutdownSignals : ShutdownArrives(s)
    <2>1. task' = task /\ root' = root /\ (pc' = pc \/ (pc = "wait" /\ pc' = "blocked"))
      BY <1>9 DEF Block, ShutdownArrives, Finish, vars, kernel, tracer, Loop
    <2> QED BY <2>1 DEF Noticed, At, Loop
  <1>10. CASE \/ LoopEnds \/ WaitFails \/ ListenFails \/ RequestFails \/ Failing \/ ExitWriteFails
              \/ NoMemory
    BY <1>10, FailingEnds DEF LoopEnds, WaitFails, ListenFails, RequestFails, ExitWriteFails, NoMemory,
                              Finish, Loop
  <1>11. CASE \/ CleanUp \/ KillAll \/ AllReaped \/ InterruptRunning \/ DetachWaited \/ Detached
              \/ \E t \in Tids : Reap(t) \/ DetachStopped(t) \/ DetachNext(t) \/ TracerGone(t)
    BY <1>11 DEF CleanUp, KillAll, AllReaped, InterruptRunning, DetachWaited, Detached, Reap,
             DetachStopped, DetachNext, TracerGone, Done, tracer, Loop
  <1> QED BY <1>5, <1>6, <1>7, <1>8, <1>9, <1>10, <1>11
          DEF Next, TracerStep, Outside, Terminated, Stopped, Failing

(* What sg_trace_run says of the setup: root_exec_observed is true only of *)
(* a command that has executed its program, and a status is recorded only  *)
(* if it is true or the status is not that of a failed setup.              *)
Execed ==
  Mode = "launch" =>
    /\ root.exec => task[Root].execd
    /\ pc = "handle" /\ cur.tid = Root /\ cur.stop.kind = "exec" => task[Root].execd
    /\ At(task[Root], "exec") => task[Root].execd
    /\ Seccomp /\ root.status >= 0 => root.exec \/ task[Root].code # 126

LEMMA ExecedInit ==
  ASSUME Init
  PROVE  Execed
  <1>1. Mode = "launch" => ~At(task[Root], "exec") BY LaunchedInit
  <1>2. root = [tid |-> Root, status |-> -1, exec |-> FALSE] /\ pc # "handle" BY DEF Init
  <1>3. ~root.exec /\ ~(root.status >= 0) BY <1>2
  <1> QED BY <1>1, <1>2, <1>3 DEF Execed

(* The tracer's notes about the command change in two handlers. *)
LEMMA RootChanges ==
  ASSUME Sound, Told, [Next]_vars, Mode = "launch", ~ExecStop, ~Failing, root' # root
  PROVE  /\ Exited /\ cur.tid = Root /\ root'.exec = root.exec
         /\ Seccomp => root.exec \/ task[Root].code # 126
  <1>1. root.tid = Root /\ root \in RootSet BY DEF Told, Sound, Typed, TracerType
  <1>2. Exited
    BY DEF Next, TracerStep, TasksStep, Outside, Terminated, Stopped, vars, tracer,
           StartLaunch, LoopEnds, Block, WaitFails, ListenFails, SyscallEntry, SyscallExit, EventStop,
           ForkStop, NewbornStop, SignalStop, GroupStop, Untracked, RequestFails, Failing,
           ExitWriteFails, NoMemory, Resume, ResumeTooLate, CleanUp, KillAll, AllReaped,
           InterruptRunning, DetachWaited, Detached, InterruptOne, Wait, Reap, DetachStopped,
           DetachNext, ShutdownArrives, TracerGone
  <1>3. root' = record_exit_status(root, cur.tid, cur.stop.msg) BY <1>2 DEF Exited
  <1>4. cur.tid = Root BY <1>1, <1>3 DEF record_exit_status
  <1>5. root'.exec = root.exec BY <1>1, <1>3 DEF record_exit_status, RootSet
  <1>6. task[Root].code = cur.stop.msg
    BY <1>2, <1>4 DEF Exited, Handling, Sound, Held, HeldTask
  <1>7. Seccomp => root.exec \/ cur.stop.msg # 126
    BY <1>1, <1>2, <1>4 DEF Exited
  <1> QED BY <1>2, <1>4, <1>5, <1>6, <1>7

LEMMA ExecedNext ==
  ASSUME Sound, ExecLeft, Told, Execed, [Next]_vars
  PROVE  Execed'
  <1>1. Root' = Root /\ Mode' = Mode /\ Seccomp' = Seccomp BY ConfigStays
  <1> SUFFICES ASSUME Mode = "launch"
               PROVE  /\ root'.exec => task'[Root].execd
                      /\ pc' = "handle" /\ cur'.tid = Root /\ cur'.stop.kind = "exec" =>
                           task'[Root].execd
                      /\ At(task'[Root], "exec") => task'[Root].execd
                      /\ Seccomp /\ root'.status >= 0 => root'.exec \/ task'[Root].code # 126
    BY <1>1 DEF Execed, At
  <1>2. /\ Root \in Tids /\ GoodTasks /\ TracerType /\ root \in RootSet /\ root.tid = Root
    BY RootType DEF Sound, Typed, KernelInv, KernelBase, TracerType, Told
  <1>3. Ages(task', Root) BY <1>2, EveryStepAges
  <1>4. task[Root].execd => task'[Root].execd BY RootsProgram
  <1>5. At(task'[Root], "exec") => task'[Root].execd BY <1>3, <1>4 DEF Ages, Execed
  <1>6. ASSUME pc' = "handle", cur'.tid = Root, cur'.stop.kind = "exec"
        PROVE  task'[Root].execd
    <2>1. ASSUME NEW t \in Tids, Wait(t) PROVE task'[Root].execd
      <3>1. t = Root /\ InStop(t) /\ task[t].stop.kind = "exec"
        BY <1>2, <1>6, <2>1, WaitReports
      <3> QED BY <1>4, <3>1 DEF Execed, At, InStop
    <2>2. CASE ~\E t \in Tids : Wait(t)
      <3>1. pc = "handle" /\ cur' = cur BY <1>2, <1>6, <2>2, HandleStarts
      <3> QED BY <1>4, <1>6, <3>1 DEF Execed
    <2> QED BY <2>1, <2>2
  <1>7. CASE AtExec /\ root' = RootAfterExec
    <2> DEFINE x == IF tracees[cur.stop.msg].known /\ root.tid = cur.stop.msg THEN cur.tid
                    ELSE root.tid
    <2>1. root' = [root EXCEPT !.tid = x, !.exec = @ \/ ExecOfRoot(x, cur.tid)]
          /\ pc = "handle" /\ cur.stop.kind = "exec"
      BY <1>7 DEF AtExec, RootAfterExec, Handling
    <2>2. root'.tid = Root BY <1>1, ToldNext DEF Told
    <2>3. root'.tid = x /\ root'.status = root.status
          /\ root'.exec = (root.exec \/ ExecOfRoot(x, cur.tid))
      BY <1>2, <2>1 DEF RootSet
    <2>4. root'.exec => root.exec \/ cur.tid = Root BY <2>2, <2>3 DEF ExecOfRoot
    <2>5. root'.exec => task'[Root].execd BY <1>4, <2>1, <2>4 DEF Execed
    <2>6. root.exec => root'.exec BY <2>3
    <2>7. root.status >= 0 => task'[Root] = task[Root] BY <1>3 DEF Told, Ages
    <2> QED BY <1>5, <1>6, <2>3, <2>5, <2>6, <2>7 DEF Execed
  <1>8. CASE ~ExecStop /\ ~Failing /\ root' # root
    <2>1. /\ Exited /\ root'.exec = root.exec /\ (Seccomp => root.exec \/ task[Root].code # 126)
      BY <1>8, RootChanges
    <2>2. task' = task BY <2>1 DEF Exited, kernel
    <2> QED BY <1>4, <1>5, <1>6, <2>1, <2>2 DEF Execed
  <1>9. CASE root' = root
    <2>1. root.status >= 0 => task'[Root] = task[Root] BY <1>3 DEF Told, Ages
    <2> QED BY <1>4, <1>5, <1>6, <1>9, <2>1 DEF Execed
  <1>10. ExecStop => AtExec /\ root' = RootAfterExec BY DEF ExecStop
  <1>11. Failing => root' = root \/ (AtExec /\ root' = RootAfterExec)
    BY <1>2, FailingLeaves DEF LeftPlain, LeftForked, LeftMigrated
  <1> QED BY <1>7, <1>8, <1>9, <1>10, <1>11

StatusInv == Told /\ Unharmed /\ Noticed /\ Execed

LEMMA AlwaysStatusInv == Spec => []StatusInv
  <1>1. Init => StatusInv BY ToldInit, UnharmedInit, NoticedInit, ExecedInit DEF StatusInv
  <1>2. Inv /\ StatusInv /\ [Next]_vars => StatusInv'
    BY ToldNext, UnharmedNext, NoticedNext, ExecedNext DEF Inv, StatusInv
  <1> QED BY <1>1, <1>2, AlwaysInStep, PTL DEF Spec

(* When sg_trace_run succeeds on a launched command, the status it returns *)
(* is the command's, whatever its threads, children, execs and signals do; *)
(* and tracing a command that is not followed, without --seccomp-bpf, does *)
(* succeed unless SIGKILL, an output error or a lack of memory comes in.   *)
THEOREM StatusTrue == Spec => []StatusPropagated
  <1>1. StatusInv => StatusPropagated
    BY DEF StatusInv, Told, Unharmed, StatusPropagated, Alone, FailedSetup, Loop
  <1> QED BY <1>1, AlwaysStatusInv, PTL

(* With --seccomp-bpf, a child that could not install the program is never *)
(* taken for a command that ran, and a command that itself exits with 126  *)
(* never for a failed setup, whatever its tasks, signals and execs do:     *)
(* root_exec_observed is set in the stop of the command's first execve,    *)
(* which nothing but SIGKILL, a failure of the tracer or a shutdown lets   *)
(* it miss.                                                                *)
THEOREM SetupTold == Spec => []SetupFailureTold
  <1>1. ASSUME Inv, StatusInv PROVE SetupFailureTold
    <2> SUFFICES ASSUME pc = "done", Seccomp, shutdown = 0
                 PROVE  /\ end.ok => task[Root].execd \/ task[Root].code # 126
                        /\ Undisturbed /\ (task[Root].execd \/ task[Root].code # 126) => end.ok
      BY DEF SetupFailureTold
    <2>1. Mode = "launch"
      BY <1>1, KernelAssumption DEF Inv, Sound, Typed, KernelInv, KernelBase, Mode, Seccomp
    <2>2. end.ok => task[Root].execd \/ task[Root].code # 126
      BY <1>1, <2>1 DEF StatusInv, Told, Execed, Loop
    <2>3. Undisturbed => end.ok \/ FailedSetup
      BY <1>1, <2>1 DEF StatusInv, Unharmed, Alone, Loop
    <2> QED BY <2>2, <2>3 DEF FailedSetup
  <1> QED BY <1>1, AlwaysInStep, AlwaysStatusInv, PTL

-----------------------------------------------------------------------------
(* Detaching.  A record says in_ptrace_stop only of a task that is in one, *)
(* has died in it, or has been let go; and every tracee in the table was   *)
(* born.                                                                   *)
Marked ==
  \A t \in Tids : /\ tracees[t].inStop => Halting(task[t])
                  /\ tracees[t].known => task[t].st # "none"

LEMMA TasksSteady ==
  ASSUME Typed, TasksStep
  PROVE  \A u \in Tids : Steady(u)
  <1>1. KernelBase /\ Groups(task) /\ GoodTasks /\ 0 \notin Tids
    BY KernelAssumption DEF Typed, KernelInv, KernelBase
  <1>2. \/ Everyone(task')
        \/ \E t, c \in Tids : Forked(t, c, task')
        \/ \E t \in Tids : TakenOver(t, task[t].tg, task')
    BY <1>1, TasksEffect
  <1>3. CASE Everyone(task') BY <1>3, EveryoneSteady
  <1>4. ASSUME NEW t \in Tids, NEW c \in Tids, Forked(t, c, task')
        PROVE  \A u \in Tids : Steady(u)
    <2>1. \A u \in Tids \ {t, c} : Steady(u) BY <1>4 DEF Forked, Steady, LetGo, Alive, At
    <2>2. Steady(t) BY <1>4 DEF Forked, Steady, Halting, LetGo, Alive, At
    <2>3. task[c].how # "free" BY <1>1, <1>4 DEF Forked, GoodTasks, GoodTask, NoTask
    <2>4. Steady(c) BY <1>4, <2>3 DEF Forked, Steady, Halting
    <2> QED BY <2>1, <2>2, <2>4
  <1>5. ASSUME NEW t \in Tids, TakenOver(t, task[t].tg, task')
        PROVE  \A u \in Tids : Steady(u)
    <2> DEFINE l == task[t].tg
    <2>1. \A u \in Tids \ {t, l} : Steady(u) BY <1>5 DEF TakenOver, Steady, LetGo, Alive, At
    <2>2. Halting(task'[l]) /\ LetGo(l)' /\ task'[l].st # "none"
      BY <1>5 DEF TakenOver, Halting, LetGo, Alive, At
    <2>3. t # l => Halting(task'[t]) /\ LetGo(t)' /\ task'[t].st # "none"
      BY <1>5 DEF TakenOver, Halting, LetGo, Alive, At
    <2>4. Steady(l) /\ (t # l => Steady(t)) BY <2>2, <2>3 DEF Steady
    <2> QED BY <2>1, <2>4
  <1> QED BY <1>2, <1>3, <1>4, <1>5

LEMMA MarkedKept ==
  ASSUME Marked, \A t \in Tids : Steady(t),
         \A t \in Tids : /\ tracees'[t].inStop => tracees[t].inStop \/ Halting(task[t])
                         /\ tracees'[t].known => tracees[t].known \/ task[t].st # "none"
  PROVE  Marked'
  BY DEF Marked, Steady, Halting

(* The handlers mark the task they handle, which is in its stop or dead. *)
LEMMA HandlersMarked ==
  ASSUME Sound, Marked,
         \/ SyscallEntry \/ SyscallExit \/ EventStop \/ ForkStop \/ ExecStop
         \/ NewbornStop \/ SignalStop \/ GroupStop \/ Failing
  PROVE  Marked'
  <1>1. /\ TracerType /\ GoodTasks /\ Groups(task) /\ tracees \in [Tids -> TraceeSet]
        /\ 0 \notin Tids
    BY KernelAssumption DEF Sound, Typed, TracerType, KernelInv, KernelBase
  <1>2. pc = "handle" /\ task' = task BY <1>1, HandlerHandsOn, FailingEnds DEF HandsOn, kernel
  <1>3. \A u \in Tids : Steady(u) BY <1>2, SameSteady
  <1>4. cur.tid \in Tids /\ HeldTask(task[cur.tid], cur.stop)
    BY <1>1, <1>2 DEF TracerType, Sound, Held
  <1>5. Halting(task[cur.tid]) /\ task[cur.tid].st # "none"
    BY <1>4 DEF HeldTask, Halting, At
  <1>6. ASSUME NEW tr, NEW x, tracees' = [tr EXCEPT ![cur.tid] = x], DOMAIN tr = Tids,
               \A u \in Tids \ {cur.tid} :
                 /\ tr[u].inStop => tracees[u].inStop \/ Halting(task[u])
                 /\ tr[u].known => tracees[u].known \/ task[u].st # "none"
        PROVE  Marked'
    <2>1. \A u \in Tids \ {cur.tid} : tracees'[u] = tr[u] BY <1>6
    <2> QED BY <1>3, <1>5, <1>6, <2>1, MarkedKept
  <1>7. DOMAIN tracees = Tids BY <1>1
  <1>8. CASE (\E r : LeftPlain(r)) \/ SyscallExit \/ SyscallEntry \/ EventStop \/ NewbornStop \/ SignalStop \/ GroupStop
    <2>1. \E x : tracees' = [tracees EXCEPT ![cur.tid] = x]
      BY <1>8 DEF SyscallExit, SyscallEntry, EventStop, NewbornStop, SignalStop, GroupStop, ToResume,
                 LeftPlain
    <2> QED BY <1>6, <1>7, <2>1
  <1>9. CASE ForkStop \/ LeftForked
    <2> DEFINE m  == Now.msg
               tr == add_tracee(tracees, m)
    <2>1. \E x : tracees' = [tr EXCEPT ![cur.tid] = x] BY <1>9 DEF ForkStop, ToResume, LeftForked
    <2>2. At(task[cur.tid], "fork") \/ At(task[cur.tid], "exec")
      BY <1>4, <1>9 DEF ForkStop, LeftForked, Handling, HeldTask, At, InStop
    <2>3. m \in Tids BY <1>1, <1>4, <2>2 DEF GoodTasks, GoodTask, StopAgrees, Now
    <2>4. At(task[cur.tid], "fork") => task[m].st # "none" BY <1>1, <1>4 DEF Groups, Grouped, Now
    <2>5. At(task[cur.tid], "exec") => task[m].tg \in Tids BY <1>1, <1>4 DEF Groups, Grouped, Now
    <2>6. task[m].st # "none"
      BY <1>1, <2>2, <2>3, <2>4, <2>5 DEF GoodTasks, GoodTask, NoTask
    <2> HIDE DEF m
    <2>7. /\ DOMAIN tr = Tids /\ \A u \in Tids \ {m} : tr[u] = tracees[u]
          /\ tr[m] = tracees[m] \/ tr[m] = Fresh(TRUE)
      BY <1>1, <2>3 DEF add_tracee
    <2>8. ~Fresh(TRUE).inStop BY DEF Fresh
    <2> HIDE DEF tr
    <2>9. ASSUME NEW u \in Tids
          PROVE  /\ tr[u].inStop => tracees[u].inStop \/ Halting(task[u])
                 /\ tr[u].known => tracees[u].known \/ task[u].st # "none"
      BY <2>6, <2>7, <2>8
    <2> QED BY <1>6, <2>1, <2>7, <2>9
  <1>10. CASE ExecStop \/ \E r : LeftMigrated(r)
    <2> DEFINE former == cur.stop.msg
               tr == Migrated(former, cur.tid)
    <2>1. \E x : tracees' = [tr EXCEPT ![cur.tid] = x] BY <1>10 DEF ExecStop, ToResume, LeftMigrated
    <2>2. DOMAIN tr = Tids /\ \A u \in Tids \ {cur.tid} : tr[u] = tracees[u] \/ tr[u] = Absent
      BY <1>1, <1>4 DEF Migrated
    <2>3. ~Absent.inStop /\ ~Absent.known BY DEF Absent, Fresh
    <2> HIDE DEF tr
    <2> QED BY <1>6, <2>1, <2>2, <2>3
  <1> QED BY <1>1, <1>8, <1>9, <1>10, FailingLeaves

LEMMA GoingMarked ==
  ASSUME Sound, Marked, StartLaunch \/ Resume
  PROVE  Marked'
  <1>1. /\ Root \in Tids /\ GoodTasks /\ TracerType /\ tracees \in [Tids -> TraceeSet]
    BY RootType DEF Sound, Typed, KernelInv, KernelBase, TracerType
  <1>2. ASSUME NEW t \in Tids, NEW h, SetGoing(t, h, task'),
               ~tracees'[t].inStop, \A u \in Tids : tracees'[u].known = tracees[u].known,
               \A u \in Tids \ {t} : tracees'[u] = tracees[u]
        PROVE  Marked'
    <2>1. (\A u \in Tids \ {t} : Steady(u)) /\ task'[t].st # "none" BY <1>2, GoingSteady
    <2> QED BY <1>2, <2>1 DEF Marked, Steady, Halting
  <1>3. CASE StartLaunch
    <2> DEFINE h == ResumeRequest(tracees[Root])
    <2>1. CASE InStop(Root)
      <3>1. PtraceResume(Root, 0, h) /\ tracees' = [tracees EXCEPT ![Root].inStop = FALSE]
        BY <1>3, <2>1 DEF StartLaunch
      <3>2. h \in {"CONT", "SYSCALL", "free"} /\ 0 \in Nat BY ResumeRequestType
      <3> HIDE DEF h
      <3>3. SetGoing(Root, h, task') BY <1>1, <3>1, <3>2, ResumeEffect
      <3>4. /\ ~tracees'[Root].inStop /\ \A u \in Tids : tracees'[u].known = tracees[u].known
            /\ \A u \in Tids \ {Root} : tracees'[u] = tracees[u]
        BY <1>1, <3>1 DEF TraceeSet
      <3> QED BY <1>1, <1>2, <3>3, <3>4
    <2>2. CASE ~InStop(Root)
      <3>1. task' = task /\ tracees' = tracees BY <1>3, <2>2 DEF StartLaunch, kernel
      <3> QED BY <3>1, SameSteady, MarkedKept
    <2> QED BY <2>1, <2>2
  <1>4. CASE Resume
    <2> DEFINE t == cur.tid
               h == ResumeRequest(tracees[t])
    <2>1. /\ t \in Tids /\ cur.deliver \in Nat
          /\ tracees' = [tracees EXCEPT ![t].inStop = FALSE, ![t].sig = 0]
      BY <1>1, <1>4 DEF Resume, TracerType, CurSet
    <2>2. /\ ~tracees'[t].inStop /\ \A u \in Tids : tracees'[u].known = tracees[u].known
          /\ \A u \in Tids \ {t} : tracees'[u] = tracees[u]
      BY <1>1, <2>1 DEF TraceeSet
    <2>3. CASE cur.listen
      <3>1. PtraceListen(t) BY <1>4, <2>3 DEF Resume
      <3>2. Listens(task[t], task'[t]) /\ \A u \in Tids \ {t} : task'[u] = task[u]
        BY <1>1, <2>1, <3>1, ListenEffect
      <3> QED BY <2>2, <3>2 DEF Marked, Halting, Listens, At
    <2>4. CASE ~cur.listen
      <3>1. PtraceResume(t, cur.deliver, h) BY <1>4, <2>4 DEF Resume
      <3>2. h \in {"CONT", "SYSCALL", "free"} BY ResumeRequestType
      <3> HIDE DEF h
      <3>3. SetGoing(t, h, task') BY <1>1, <2>1, <3>1, <3>2, ResumeEffect
      <3> QED BY <1>2, <2>1, <2>2, <3>3
    <2> QED BY <2>3, <2>4
  <1> QED BY <1>3, <1>4

LEMMA MarkedInit ==
  ASSUME Init
  PROVE  Marked
  <1> DEFINE r == [NoTask EXCEPT !.st = "user", !.tg = Root]
             h == [Halt(r, "signal", SIGSTOP, 0, "auto") EXCEPT !.seen = TRUE]
             w == [Fresh(FALSE) EXCEPT !.inStop = TRUE]
  <1>1. h.st = "stop" /\ r.st = "user" BY DEF Halt, NoTask
  <1>2. ~Absent.inStop /\ ~Absent.known /\ ~Fresh(TRUE).inStop BY DEF Absent, Fresh
  <1>3. ASSUME NEW t \in Tids
        PROVE  \/ tracees[t] = Absent
               \/ tracees[t] = Fresh(TRUE) /\ task[t] = r
               \/ tracees[t] = w /\ task[t] = h
    BY DEF Init, KernelInit
  <1> HIDE DEF r, h, w
  <1> QED BY <1>1, <1>2, <1>3 DEF Marked, Halting

LEMMA NoMemorySteady ==
  ASSUME Sound, NoMemory
  PROVE  \A u \in Tids : Steady(u)
  <1>1. GoodTasks /\ TracerType BY DEF Sound, Typed, KernelInv, KernelBase
  <1>2. \/ task' = task \/ task' = Killed({Now.msg})
        \/ /\ pc = "handle" /\ cur.stop.kind = "fork" /\ InStop(cur.tid)
           /\ PtraceDetach(Now.msg, 0)
    BY DEF NoMemory, Handling, kernel
  <1>3. CASE /\ pc = "handle" /\ cur.stop.kind = "fork" /\ InStop(cur.tid)
             /\ PtraceDetach(Now.msg, 0)
    <2>1. At(task[cur.tid], "fork") \/ At(task[cur.tid], "exec")
      BY <1>3 DEF Sound, Held, HeldTask, At, InStop
    <2>2. cur.tid \in Tids BY <1>1, <1>3 DEF TracerType
    <2>3. Now.msg \in Tids /\ 0 \in Nat
      BY <1>1, <2>1, <2>2 DEF GoodTasks, GoodTask, StopAgrees, Now
    <2> QED BY <1>1, <1>3, <2>3, DetachSteady
  <1> QED BY <1>1, <1>2, <1>3, SameSteady, KilledEffect, EveryoneSteady

(* The steps after the loop. *)
LEMMA CleanupSteady ==
  ASSUME Sound,
         \/ CleanUp \/ KillAll \/ AllReaped \/ InterruptRunning \/ DetachWaited \/ Detached
         \/ \E t \in Tids : Reap(t) \/ DetachStopped(t) \/ DetachNext(t) \/ TracerGone(t)
  PROVE  \A u \in Tids : Steady(u)
  <1>1. Typed /\ TracerType /\ GoodTasks BY DEF Sound, Typed, KernelInv, KernelBase
  <1>2. CASE CleanUp \/ AllReaped \/ Detached \/ \E t \in Tids : DetachNext(t)
    BY <1>2, SameSteady DEF CleanUp, AllReaped, Detached, DetachNext, kernel
  <1>3. CASE KillAll \/ InterruptRunning
    BY <1>1, <1>3, TrappedEffect, KilledEffect, EveryoneSteady DEF KillAll, InterruptRunning
  <1>4. CASE \E t \in Tids : Reap(t) BY <1>1, <1>4, ReportSteady DEF Reap
  <1>5. \A t \in Tids : DetachSignal(task[t].stop) \in Nat
    BY <1>1, DetachSignalType DEF GoodTasks, TaskSet
  <1>6. ASSUME NEW t \in Tids, DetachStopped(t) PROVE \A u \in Tids : Steady(u)
    <2>1. tracees[t].sig \in Nat BY <1>1 DEF TracerType, TraceeSet
    <2> QED BY <1>1, <1>6, <2>1, DetachSteady, SameSteady DEF DetachStopped, kernel
  <1>7. CASE DetachWaited
    <2>1. cur.tid \in Tids BY <1>1, <1>7 DEF DetachWaited, TracerType
    <2>2. \/ PtraceDetach(cur.tid, DetachSignal(task[cur.tid].stop))
          \/ Waitable(cur.tid) /\ task' = Report(cur.tid)
          \/ task' = task
      BY <1>7 DEF DetachWaited
    <2> QED BY <1>1, <1>5, <2>1, <2>2, DetachSteady, ReportSteady, SameSteady
  <1>8. ASSUME NEW t \in Tids, TracerGone(t) PROVE \A u \in Tids : Steady(u)
    <2>1. \/ PtraceDetach(t, DetachSignal(task[t].stop))
          \/ Alive(t) /\ task' = [task EXCEPT ![t].how = "free", ![t].trap = FALSE]
      BY <1>8 DEF TracerGone
    <2>2. CASE Alive(t) /\ task' = [task EXCEPT ![t].how = "free", ![t].trap = FALSE]
      <3>1. \A u \in Tids \ {t} : Steady(u)
        BY <1>1, <2>2 DEF GoodTasks, Steady, LetGo, Alive, At
      <3>2. task'[t].how = "free" /\ task'[t].st = task[t].st
        BY <1>1, <2>2 DEF GoodTasks, TaskSet
      <3>3. Steady(t) BY <3>2 DEF Steady, Halting, LetGo
      <3> QED BY <3>1, <3>3
    <2> QED BY <1>1, <1>5, <2>1, <2>2, DetachSteady
  <1> QED BY <1>2, <1>3, <1>4, <1>6, <1>7, <1>8

LEMMA RestMarked ==
  ASSUME Sound, Marked,
         \/ LoopEnds \/ Block \/ WaitFails \/ ListenFails \/ Exited \/ Untracked \/ RequestFails
         \/ ExitWriteFails \/ ResumeTooLate
  PROVE  Marked'
  <1>1. TracerType /\ tracees \in [Tids -> TraceeSet] BY DEF Sound, Typed, TracerType
  <1>2. task' = task
    BY DEF LoopEnds, Block, WaitFails, ListenFails, Exited, Untracked, RequestFails,
           ExitWriteFails, ResumeTooLate, kernel
  <1>3. \A u \in Tids : Steady(u) BY <1>2, SameSteady
  <1>4. CASE tracees' = tracees BY <1>3, <1>4, MarkedKept
  <1>5. CASE Exited /\ tracees' = [tracees EXCEPT ![cur.tid] = Absent]
    <2>1. ~Absent.inStop /\ ~Absent.known BY DEF Absent, Fresh
    <2>2. \A u \in Tids : tracees'[u] = tracees[u] \/ tracees'[u] = Absent BY <1>1, <1>5
    <2> QED BY <1>3, <2>1, <2>2, MarkedKept
  <1>6. CASE RequestFails /\ tracees' = [tracees EXCEPT ![cur.tid] = [Tracee EXCEPT !.inStop = TRUE]]
    <2>1. cur.tid \in Tids /\ HeldTask(task[cur.tid], cur.stop)
      BY <1>1, <1>6 DEF RequestFails, Handling, TracerType, Sound, Held
    <2>2. Halting(task[cur.tid]) /\ task[cur.tid].st # "none"
      BY <2>1 DEF HeldTask, Halting, At
    <2>3. \A u \in Tids \ {cur.tid} : tracees'[u] = tracees[u] BY <1>1, <1>6
    <2> QED BY <1>3, <2>2, <2>3, MarkedKept
  <1>7. CASE ExitWriteFails /\ tracees' = [tracees EXCEPT ![cur.tid].inStop = FALSE]
    <2>1. \A u \in Tids : /\ tracees'[u].known = tracees[u].known
                          /\ tracees'[u].inStop => tracees[u].inStop
      BY <1>1, <1>7 DEF TraceeSet
    <2> QED BY <1>3, <2>1, MarkedKept
  <1> QED BY <1>4, <1>5, <1>6, <1>7
          DEF LoopEnds, Block, WaitFails, ListenFails, Exited, Untracked, RequestFails, ExitWriteFails,
              ResumeTooLate

LEMMA NoMemoryMarked ==
  ASSUME Sound, Marked, NoMemory
  PROVE  Marked'
  <1>1. TracerType /\ tracees \in [Tids -> TraceeSet] BY DEF Sound, Typed, TracerType
  <1>2. \A u \in Tids : Steady(u) BY NoMemorySteady
  <1>3. \/ tracees' = tracees
        \/ /\ pc = "handle" /\ InStop(cur.tid)
           /\ tracees' = [tracees EXCEPT ![cur.tid] = [Tracee EXCEPT !.inStop = TRUE]]
        \/ tracees' = [tracees EXCEPT ![cur.stop.msg] = Absent, ![cur.tid] = Absent]
    BY DEF NoMemory, Handling
  <1>4. CASE tracees' = tracees BY <1>2, <1>4, MarkedKept
  <1>5. CASE /\ pc = "handle" /\ InStop(cur.tid)
             /\ tracees' = [tracees EXCEPT ![cur.tid] = [Tracee EXCEPT !.inStop = TRUE]]
    <2>1. Halting(task[cur.tid]) /\ task[cur.tid].st # "none" BY <1>5 DEF InStop, Halting
    <2>2. \A u \in Tids \ {cur.tid} : tracees'[u] = tracees[u] BY <1>1, <1>5
    <2> QED BY <1>2, <2>1, <2>2, MarkedKept
  <1>6. CASE tracees' = [tracees EXCEPT ![cur.stop.msg] = Absent, ![cur.tid] = Absent]
    <2>1. ~Absent.inStop /\ ~Absent.known BY DEF Absent, Fresh
    <2>2. \A u \in Tids : tracees'[u] = tracees[u] \/ tracees'[u] = Absent BY <1>1, <1>6
    <2> QED BY <1>2, <2>1, <2>2, MarkedKept
  <1> QED BY <1>3, <1>4, <1>5, <1>6

LEMMA MarkedNext ==
  ASSUME Sound, Marked, [Next]_vars
  PROVE  Marked'
  <1>1. Typed /\ GoodTasks BY DEF Sound, Typed, KernelInv, KernelBase
  <1>2. CASE TasksStep
    <2>1. tracees' = tracees BY <1>2 DEF TasksStep, tracer
    <2> QED BY <1>1, <1>2, <2>1, TasksSteady, MarkedKept
  <1>3. CASE \/ SyscallEntry \/ SyscallExit \/ EventStop \/ ForkStop \/ ExecStop
             \/ NewbornStop \/ SignalStop \/ GroupStop \/ Failing
    BY <1>3, HandlersMarked
  <1>4. CASE StartLaunch \/ Resume BY <1>4, GoingMarked
  <1>5. CASE \/ LoopEnds \/ Block \/ WaitFails \/ ListenFails \/ Exited \/ Untracked \/ RequestFails
             \/ ExitWriteFails \/ ResumeTooLate
    BY <1>5, RestMarked
  <1>6. CASE NoMemory BY <1>6, NoMemoryMarked
  <1>7. CASE \E t \in Tids : Wait(t)
    <2>1. tracees' = tracees /\ \A u \in Tids : Steady(u)
      BY <1>1, <1>7, ReportSteady DEF Wait
    <2> QED BY <2>1, MarkedKept
  <1>8. CASE \E t \in Tids : InterruptOne(t)
    <2>1. tracees' = tracees /\ \A u \in Tids : Steady(u)
      BY <1>1, <1>8, TrappedEffect, EveryoneSteady DEF InterruptOne
    <2> QED BY <2>1, MarkedKept
  <1>9. CASE UNCHANGED vars \/ \E s \in ShutdownSignals : ShutdownArrives(s)
    <2>1. tracees' = tracees /\ task' = task
      BY <1>9 DEF ShutdownArrives, vars, kernel, tracer
    <2> QED BY <2>1, SameSteady, MarkedKept
  <1>10. CASE \/ CleanUp \/ KillAll \/ AllReaped \/ InterruptRunning \/ DetachWaited \/ Detached
              \/ \E t \in Tids : Reap(t) \/ DetachStopped(t) \/ DetachNext(t) \/ TracerGone(t)
    <2>1. tracees' = tracees
      BY <1>10 DEF CleanUp, KillAll, AllReaped, InterruptRunning, DetachWaited, Detached, Reap,
             DetachStopped, DetachNext, TracerGone, tracer
    <2> QED BY <1>10, <2>1, CleanupSteady, MarkedKept
  <1> QED BY <1>2, <1>3, <1>4, <1>5, <1>6, <1>7, <1>8, <1>9, <1>10
          DEF Next, TracerStep, Outside, Terminated, Stopped, Failing

(* Whoever detach_all_tracees has done with is let go; it is not called    *)
(* only where the loop ended because no tracee was left.                   *)
Released ==
  Mode = "attach" =>
    /\ pc \in {"detaching", "detach_wait"} => \A t \in Known \ todo : LetGo(t)
    /\ pc = "done" => \A t \in Known : LetGo(t)
    /\ pc \notin Loop /\ shutdown = 0 /\ end.ok => Known = {}
    /\ pc \notin {"kill", "reap", "start"}

LEMMA ReleasedInit ==
  ASSUME Init
  PROVE  Released
  BY DEF Init, Released, Loop

(* Up to the cleanup it is only a matter of how the loop ends. *)
LEMMA LoopReleased ==
  ASSUME Released, config' = config, pc \in Loop, pc' \in Loop \/ pc' = "finish", pc' # "start",
         pc' = "finish" /\ shutdown' = 0 /\ end'.ok => Known' = {}
  PROVE  Released'
  BY DEF Released, Loop, Mode

LEMMA CleanupReleased ==
  ASSUME Sound, Marked, Released, config' = config,
         \/ CleanUp \/ KillAll \/ AllReaped \/ InterruptRunning \/ DetachWaited \/ Detached
         \/ \E t \in Tids : Reap(t) \/ DetachStopped(t) \/ DetachNext(t) \/ TracerGone(t)
  PROVE  Released'
  <1> SUFFICES ASSUME Mode = "attach" PROVE Released' BY DEF Released, Mode
  <1>1. Mode' = "attach" BY DEF Mode
  <1>2. /\ tracees' = tracees /\ Known' = Known /\ shutdown' = shutdown /\ end' = end
        /\ pc \notin Loop /\ pc' \notin Loop
    BY DEF CleanUp, KillAll, AllReaped, InterruptRunning, DetachWaited, Detached, Reap,
           DetachStopped, DetachNext, TracerGone, tracer, Known, Done, Loop
  <1>3. /\ Typed /\ TracerType /\ GoodTasks /\ tracees \in [Tids -> TraceeSet]
    BY DEF Sound, Typed, KernelInv, KernelBase, TracerType
  <1>4. \A u \in Tids : Steady(u) BY CleanupSteady
  <1>5. ASSUME NEW u \in Known, LetGo(u) PROVE LetGo(u)'
    BY <1>4, <1>5 DEF Known, Marked, Steady
  <1>6. ASSUME pc' \in {"detaching", "detach_wait"} => \A t \in Known \ todo' : LetGo(t)',
               pc' = "done" => \A t \in Known : LetGo(t)',
               pc' \notin {"kill", "reap"}
        PROVE  Released'
    BY <1>2, <1>6 DEF Released, Loop
  <1>7. CASE CleanUp
    BY <1>2, <1>6, <1>7 DEF CleanUp, Done, Released
  <1>8. CASE KillAll \/ AllReaped \/ \E t \in Tids : Reap(t)
    BY <1>8 DEF KillAll, AllReaped, Reap, Released
  <1>9. CASE InterruptRunning
    <2>1. /\ pc' = "detaching"
          /\ \A t \in Known \ todo' : task[t].st \in {"none", "gone"}
      BY <1>9 DEF InterruptRunning, ToDetach
    <2>2. \A t \in Known \ todo' : LetGo(t) BY <2>1 DEF LetGo, Alive
    <2> QED BY <1>5, <1>6, <2>1, <2>2
  <1>10. ASSUME NEW t \in Tids, DetachStopped(t) PROVE Released'
    <2>1. /\ pc = "detaching" /\ pc' = "detaching" /\ todo' = todo \ {t} /\ tracees[t].inStop
      BY <1>10 DEF DetachStopped
    <2>2. \A u \in Known \ todo : LetGo(u) BY <2>1 DEF Released
    <2>3. LetGo(t)'
      <3>1. CASE InStop(t)
        <4>1. tracees[t].sig \in Nat BY <1>3 DEF TraceeSet
        <4>2. PtraceDetach(t, tracees[t].sig) BY <1>10, <3>1 DEF DetachStopped
        <4> QED BY <1>3, <4>1, <4>2, DetachSteady
      <3>2. CASE ~InStop(t)
        <4>1. task' = task BY <1>10, <3>2 DEF DetachStopped, kernel
        <4>2. Halting(task[t]) BY <2>1 DEF Marked
        <4>3. LetGo(t) BY <3>2, <4>2 DEF Halting, LetGo, Alive, InStop
        <4> QED BY <4>1, <4>3 DEF LetGo, Alive, At
      <3> QED BY <3>1, <3>2
    <2> QED BY <1>5, <1>6, <2>1, <2>2, <2>3
  <1>11. ASSUME NEW t \in Tids, DetachNext(t) PROVE Released'
    BY <1>5, <1>6, <1>11 DEF DetachNext, Released
  <1>12. CASE DetachWaited
    <2>0. PICK t \in Tids : t = cur.tid BY <1>3, <1>12 DEF DetachWaited, TracerType
    <2>1. pc = "detach_wait" /\ pc' = "detaching" /\ todo' = todo \ {t}
      BY <1>12, <2>0 DEF DetachWaited
    <2>2. \A u \in Known \ todo : LetGo(u) BY <2>1 DEF Released
    <2>3. t \in Known => LetGo(t)'
      <3>1. CASE InStop(t)
        <4>1. DetachSignal(task[t].stop) \in Nat
          BY <1>3, <2>1, DetachSignalType DEF GoodTasks, TaskSet
        <4>2. PtraceDetach(t, DetachSignal(task[t].stop)) BY <1>12, <2>0, <3>1 DEF DetachWaited
        <4> QED BY <1>3, <2>1, <4>1, <4>2, DetachSteady
      <3>2. CASE ~InStop(t) /\ Waitable(t)
        <4>1. task' = Report(t) BY <1>12, <2>0, <3>2 DEF DetachWaited
        <4> QED BY <1>3, <2>1, <3>2, <4>1, ReportSteady
      <3>3. CASE ~InStop(t) /\ ~Waitable(t)
        <4>1. task' = task /\ ~Traced(t) BY <1>12, <2>0, <3>3 DEF DetachWaited
        <4>2. LetGo(t) BY <4>1 DEF Traced, LetGo, Alive
        <4> QED BY <4>1, <4>2 DEF LetGo, Alive, At
      <3> QED BY <3>1, <3>2, <3>3
    <2> QED BY <1>5, <1>6, <2>1, <2>2, <2>3
  <1>13. CASE Detached
    <2>1. pc = "detaching" /\ todo = {} /\ pc' = "done" BY <1>13 DEF Detached, Done
    <2>2. \A u \in Known : LetGo(u) BY <2>1 DEF Released
    <2> QED BY <1>5, <1>6, <2>1, <2>2
  <1>14. ASSUME NEW t \in Tids, TracerGone(t) PROVE Released'
    <2>1. pc = "done" /\ pc' = "done" BY <1>14 DEF TracerGone, tracer
    <2>2. \A u \in Known : LetGo(u) BY <2>1 DEF Released
    <2> QED BY <1>5, <1>6, <2>1, <2>2
  <1> QED BY <1>7, <1>8, <1>9, <1>10, <1>11, <1>12, <1>13, <1>14

LEMMA ReleasedNext ==
  ASSUME Sound, Marked, Released, [Next]_vars
  PROVE  Released'
  <1>1. config' = config BY ConfigStays
  <1>2. CASE TasksStep
    <2>1. UNCHANGED tracer /\ \A u \in Tids : Steady(u)
      BY <1>2, TasksSteady DEF TasksStep, Sound
    <2>2. \A u \in Known : LetGo(u) => LetGo(u)' BY <2>1 DEF Known, Marked, Steady
    <2> QED BY <1>1, <2>1, <2>2 DEF Released, tracer, Mode, Known
  <1>3. CASE UNCHANGED vars
    BY <1>1, <1>3 DEF Released, vars, kernel, tracer, Mode, Known, LetGo, Alive, At
  <1>4. CASE \E s \in ShutdownSignals : ShutdownArrives(s)
    <2>1. config \in Configs BY DEF Sound, Typed, KernelInv, KernelBase
    <2>2. /\ shutdown' # 0 /\ task' = task /\ tracees' = tracees /\ todo' = todo
          /\ pc' = pc \/ pc' = "finish"
      BY <1>4, <2>1, TracerAssumption DEF ShutdownArrives, ShutdownSignals, Finish, kernel
    <2> QED BY <1>1, <2>2 DEF Released, Mode, Known, LetGo, Alive, At
  <1>5. CASE \/ CleanUp \/ KillAll \/ AllReaped \/ InterruptRunning \/ DetachWaited \/ Detached
              \/ \E t \in Tids : Reap(t) \/ DetachStopped(t) \/ DetachNext(t) \/ TracerGone(t)
    BY <1>1, <1>5, CleanupReleased
  <1>6. CASE LoopEnds
    <2>1. Known' = {} /\ pc = "wait" /\ pc' = "finish" BY <1>6 DEF LoopEnds, Known, Finish
    <2> QED BY <1>1, <2>1, LoopReleased DEF Loop
  <1>7. CASE Resume
    <2>1. pc = "resume" /\ (pc' = "wait" \/ (pc' = "finish" /\ shutdown' # 0))
      BY <1>7 DEF Resume, Finish
    <2> QED BY <1>1, <2>1, LoopReleased DEF Loop
  <1>8. ASSUME pc \in Loop, \/ pc' \in {"interrupt", "wait", "blocked", "handle", "resume"}
                            \/ pc' = "finish" /\ ~end'.ok
        PROVE  Released'
    BY <1>1, <1>8, LoopReleased DEF Loop
  <1>9. CASE StartLaunch
    <2>1. end \in EndSet BY DEF Sound, Typed, TracerType
    <2>2. pc = "start" /\ (pc' = "wait" \/ (pc' = "finish" /\ ~end'.ok))
      BY <1>9, <2>1 DEF StartLaunch, EndSet
    <2> QED BY <1>8, <2>2 DEF Loop
  <1>10. CASE \/ SyscallEntry \/ SyscallExit \/ EventStop \/ ForkStop \/ ExecStop
              \/ NewbornStop \/ SignalStop \/ GroupStop
    <2>1. TracerType BY DEF Sound, Typed
    <2>2. pc = "handle" /\ pc' = "resume" BY <1>10, <2>1, HandlerHandsOn DEF HandsOn
    <2> QED BY <1>8, <2>2 DEF Loop
  <1>11. CASE \/ Block \/ WaitFails \/ ListenFails \/ Exited \/ Untracked \/ RequestFails \/ Failing
              \/ ExitWriteFails \/ NoMemory \/ ResumeTooLate
              \/ \E t \in Tids : InterruptOne(t) \/ Wait(t)
    <2>1. pc \in Loop
      BY <1>11, FailingEnds DEF Block, WaitFails, ListenFails, Exited, Untracked, RequestFails,
             ExitWriteFails, NoMemory, ResumeTooLate, InterruptOne, Wait, Handling, Loop
    <2>2. CASE WaitFails \/ ListenFails \/ RequestFails \/ Failing \/ ExitWriteFails \/ NoMemory
      BY <1>8, <2>1, <2>2, FailingEnds
         DEF WaitFails, ListenFails, RequestFails, ExitWriteFails, NoMemory, Finish
    <2>3. CASE Block \/ Exited \/ Untracked \/ ResumeTooLate
      BY <1>8, <2>1, <2>3 DEF Block, Exited, Untracked, ResumeTooLate, Finish
    <2>4. CASE \E t \in Tids : InterruptOne(t) \/ Wait(t)
      BY <1>8, <2>1, <2>4 DEF InterruptOne, Wait
    <2> QED BY <1>11, <2>2, <2>3, <2>4
  <1> QED BY <1>2, <1>3, <1>4, <1>5, <1>6, <1>7, <1>9, <1>10, <1>11
          DEF Next, TracerStep, Outside, Terminated, Stopped, Failing

(* When detach_all_tracees is through, every tracee it knew is dead or no  *)
(* longer traced, whatever the tasks did meanwhile: only a tid that a      *)
(* thread's exec took over late is still held, in the stop of that exec.   *)
THEOREM EveryoneLetGo == Spec => []AllDetached
  <1> DEFINE I == Marked /\ Released
  <1>1. Init => I BY MarkedInit, ReleasedInit
  <1>2. Sound /\ I /\ [Next]_vars => I' BY MarkedNext, ReleasedNext
  <1>3. I => AllDetached BY DEF Released, AllDetached, LetGo, Traced, At, InStop
  <1> QED BY <1>1, <1>2, <1>3, AlwaysSound, PTL DEF Spec

-----------------------------------------------------------------------------
(* Job control: the tasks of a stopped group rest (AtRest). *)

(* Once the loop is left, the table does not change. *)
LEMMA TableStays ==
  ASSUME [Next]_vars, pc \notin Loop
  PROVE  pc' \notin Loop /\ tracees' = tracees
  <1>1. CASE TasksStep \/ UNCHANGED vars BY <1>1 DEF TasksStep, tracer, vars
  <1>2. CASE \/ CleanUp \/ KillAll \/ AllReaped \/ InterruptRunning \/ DetachWaited \/ Detached
             \/ \E t \in Tids : Reap(t) \/ DetachStopped(t) \/ DetachNext(t) \/ TracerGone(t)
    BY <1>2 DEF CleanUp, KillAll, AllReaped, InterruptRunning, DetachWaited, Detached, Reap,
           DetachStopped, DetachNext, TracerGone, tracer, Done, Loop
  <1>3. CASE \E s \in ShutdownSignals : ShutdownArrives(s)
    BY <1>3 DEF ShutdownArrives, Loop, Finish
  <1>4. CASE \/ StartLaunch \/ LoopEnds \/ Block \/ WaitFails \/ SyscallEntry \/ SyscallExit
             \/ EventStop \/ ForkStop \/ ExecStop \/ NewbornStop \/ SignalStop \/ GroupStop
             \/ Exited \/ Untracked \/ RequestFails \/ Failing \/ ExitWriteFails \/ NoMemory
             \/ Resume \/ ResumeTooLate \/ ListenFails \/ \E t \in Tids : InterruptOne(t) \/ Wait(t)
    BY <1>4, FailingEnds
       DEF StartLaunch, LoopEnds, Block, WaitFails, SyscallEntry, AtEntry, SyscallExit, AtExit,
           EventStop, ForkStop, ExecStop, AtExec, NewbornStop, SignalStop, GroupStop, Exited, Untracked,
           RequestFails, ExitWriteFails, NoMemory, Resume, ResumeTooLate, ListenFails,
           InterruptOne, Wait, Handling, Loop
  <1> QED BY <1>1, <1>2, <1>3, <1>4 DEF Next, TracerStep, Outside, Terminated, Stopped, Failing

(* No traced task stops its group by itself. *)
LEMMA NoNewStops ==
  ASSUME TasksStep, \A t \in Tids : task[t].how # "free"
  PROVE  jobstop' \subseteq jobstop
  <1>1. CASE SetupFails BY <1>1 DEF SetupFails
  <1>2. ASSUME NEW t \in Tids, KernelStep(t) PROVE jobstop' \subseteq jobstop
    BY <1>2 DEF KernelStep, DecideRestart, Restart, Sigreturn, Interrupted, Fork, ForkEvent,
           Complete, ExecEvent, GetSignal, GetSignalUntraced, ExitGroup, ExitThread
  <1>3. ASSUME NEW t \in Tids, ProgramStep(t) PROVE jobstop' \subseteq jobstop
    <2>1. CASE \E s \in Signals : SendSignal(t, s) BY <2>1 DEF SendSignal
    <2> QED BY <1>3, <2>1 DEF ProgramStep, EnterSyscall, Return, ExecBegin
  <1> QED BY <1>1, <1>2, <1>3 DEF TasksStep

(* The inductive invariant: a stopped group rests; a group stop that has   *)
(* been handled is going to be listened to; and no group stops before the  *)
(* first interrupts are through.                                           *)
Caughts == IF pc \in Loop THEN {} ELSE Known

Honoured ==
  Mode = "attach" =>
    /\ pc = "interrupt" => jobstop = {}
    /\ AtRest(task, jobstop, Caughts)
    /\ pc = "resume" /\ cur.stop.kind = "event_stop" /\ cur.stop.sig # SIGTRAP => cur.listen

LEMMA HonouredInit ==
  ASSUME Init
  PROVE  Honoured
  <1> SUFFICES ASSUME Mode = "attach" PROVE Honoured BY DEF Honoured
  <1>1. jobstop = {} /\ pc = "interrupt" BY DEF Init, KernelInit
  <1>2. \A u \in Tids : task[u].gst = 0 BY DEF Init, KernelInit, NoTask
  <1> QED BY <1>1, <1>2 DEF Honoured, AtRest, GroupStops

LEMMA ResumeRests ==
  ASSUME Sound, Mode = "attach", Honoured, Resume
  PROVE  StillResting(task', jobstop')
  <1> DEFINE t == cur.tid
             h == ResumeRequest(tracees[t])
  <1>1. /\ t \in Tids /\ pc = "resume" /\ InStop(t) /\ GoodTasks /\ pc \in Loop
        /\ task[t] \in TaskSet
    BY DEF Sound, Typed, TracerType, KernelInv, KernelBase, GoodTasks, Resume, Loop
  <1>2. CASE cur.listen BY <1>1, <1>2, ListenRests DEF Resume
  <1>3. CASE ~cur.listen
    <2>1. GoOn(t, task[t], cur.deliver, h) BY <1>3 DEF Resume, PtraceResume
    <2>2. task[t].tg \in jobstop => task[t].gst # 0
      <3>1. AtRest(task, jobstop, {}) BY <1>1 DEF Honoured, Caughts
      <3>2. task[t].tg \in jobstop => Resting(task[t])
        BY <1>1, <3>1 DEF AtRest, Living, InStop
      <3>3. At(task[t], "event_stop") => task[t].stop = cur.stop
        BY <1>1 DEF Sound, Held, HeldTask, At
      <3>4. ~(At(task[t], "event_stop") /\ task[t].stop.sig # SIGTRAP)
        BY <1>1, <1>3, <3>3 DEF Honoured, At
      <3> QED BY <1>1, <3>2, <3>4 DEF Resting, InStop
    <2> HIDE DEF h, t
    <2> QED BY <1>1, <2>1, <2>2, GoOnRests
  <1> QED BY <1>2, <1>3

LEMMA DetachingRests ==
  ASSUME Sound, Mode = "attach", Released, AtRest(task, jobstop, Caughts),
         \A u \in Tids : Ages(task', u),
         \/ InterruptRunning \/ \E t \in Tids : InterruptOne(t) /\ jobstop = {}
         \/ \E t \in Tids : TracerGone(t)
  PROVE  AtRest(task', jobstop', Caughts)
  <1>1. GoodTasks BY DEF Sound, Typed, KernelInv, KernelBase
  <1>2. CASE InterruptRunning
    <2>1. /\ task' = Trapped(ToInterrupt) /\ jobstop' = jobstop /\ pc = "detach"
          /\ ToInterrupt \subseteq Known
      BY <1>2 DEF InterruptRunning, ToInterrupt
    <2>2. Caughts = Known BY <2>1 DEF Caughts, Loop
    <2>3. \A r : Resting(r) => Caught(r) BY DEF Resting, Caught, At
    <2> QED BY <1>1, <2>1, <2>2, <2>3, TrappedRests DEF AtRest
  <1>3. ASSUME NEW t \in Tids, InterruptOne(t), jobstop = {}
        PROVE  AtRest(task', jobstop', Caughts)
    <2>1. task' = Trapped({t}) /\ jobstop' = {} BY <1>3 DEF InterruptOne
    <2> QED BY <1>1, <2>1, TrappedRests DEF AtRest
  <1>4. ASSUME NEW t \in Tids, TracerGone(t) PROVE AtRest(task', jobstop', Caughts)
    <2>1. CASE InStop(t)
      <3>1. PtraceDetach(t, DetachSignal(task[t].stop)) BY <1>4, <2>1 DEF TracerGone
      <3> HIDE DEF Caughts
      <3> QED BY <1>1, <3>1, DetachRests, RestKept
    <2>2. CASE ~InStop(t)
      <3> DEFINE r == task[t]
                 s == [r EXCEPT !.how = "free", !.trap = FALSE]
      <3>1. /\ task' = [task EXCEPT ![t].how = "free", ![t].trap = FALSE] /\ jobstop' = jobstop
            /\ pc = "done" /\ Alive(t) /\ Traced(t)
        BY <1>4, <2>2 DEF TracerGone
      <3>2. task' = [task EXCEPT ![t] = s] BY <1>1, <3>1 DEF GoodTasks
      <3>3. s.gst = r.gst /\ s.st = r.st /\ s.tg = r.tg /\ s.stop = r.stop
        BY <1>1 DEF GoodTasks, TaskSet
      <3> HIDE DEF s
      <3>4. t \notin Known BY <2>2, <3>1 DEF Released, LetGo, Traced, At, InStop
      <3>5. Caughts = Known BY <3>1 DEF Caughts, Loop
      <3>6. /\ (Resting(s) <=> Resting(r)) /\ (Living(s) <=> Living(r))
        BY <3>3 DEF Resting, Living, At
      <3>7. task'[t] = s /\ \A u \in Tids \ {t} : task'[u] = task[u] BY <1>1, <3>2 DEF GoodTasks
      <3>8. /\ \A u \in Tids : task'[u].gst = task[u].gst /\ task'[u].tg = task[u].tg
                                /\ task'[u].st = task[u].st
            /\ \A u \in Tids : Living(task'[u]) => Living(task[u])
        BY <3>3, <3>6, <3>7
      <3>9. ASSUME NEW u \in Tids, Living(task'[u]), task'[u].tg \in jobstop
            PROVE  Resting(task'[u]) \/ (u \in Known /\ Caught(task'[u]))
        <4>1. Resting(task[u]) \/ (u \in Known /\ Caught(task[u]))
          BY <3>5, <3>8, <3>9 DEF AtRest
        <4>2. CASE u = t BY <3>4, <3>6, <3>7, <4>1, <4>2
        <4>3. CASE u # t BY <3>7, <4>1, <4>3
        <4> QED BY <4>2, <4>3
      <3>10. /\ \A u \in Tids : task'[u].gst \in GroupStops
             /\ \A g \in jobstop : \E u \in Tids : task'[u].tg = g /\ task'[u].st # "none"
        BY <3>8 DEF AtRest
      <3> HIDE DEF Caughts
      <3> QED BY <3>1, <3>5, <3>9, <3>10 DEF AtRest
    <2> QED BY <2>1, <2>2
  <1> QED BY <1>2, <1>3, <1>4

LEMMA EveryStepRests ==
  ASSUME Sound, Mode = "attach", Released, Honoured, [Next]_vars
  PROVE  AtRest(task', jobstop', Caughts)
  <1>1. /\ Typed /\ TracerType /\ KernelInv /\ GoodTasks /\ AtRest(task, jobstop, Caughts)
        /\ \A u \in Tids : Ages(task', u)
    BY EveryStepAges DEF Sound, Typed, KernelInv, KernelBase, Honoured
  <1> HIDE DEF Caughts
  <1>2. StillResting(task', jobstop') => AtRest(task', jobstop', Caughts) BY <1>1, RestKept
  <1>3. task' = task /\ jobstop' = jobstop => AtRest(task', jobstop', Caughts) BY <1>1
  <1>4. CASE TasksStep
    <2>1. CASE \E t \in Tids : Fork(t) \/ ExecEvent(t) BY <1>1, <2>1, ForkRests, ExecRests
    <2>2. CASE ~\E t \in Tids : Fork(t) \/ ExecEvent(t) BY <1>1, <1>2, <1>4, <2>2, TasksRest
    <2> QED BY <2>1, <2>2
  <1>5. ~StartLaunch BY DEF Released, StartLaunch
  <1>6. CASE Resume BY <1>2, <1>6, ResumeRests
  <1>7. CASE InterruptRunning \/ \E t \in Tids : InterruptOne(t) \/ TracerGone(t)
    <2>1. \A t \in Tids : InterruptOne(t) => jobstop = {} BY DEF InterruptOne, Honoured
    <2> QED BY <1>1, <1>7, <2>1, DetachingRests
  <1>8. CASE KillAll BY <1>1, <1>2, <1>8, KilledRests DEF KillAll
  <1>9. CASE \E t \in Tids : Wait(t) \/ Reap(t)
    BY <1>1, <1>2, <1>9, ReportRests DEF Wait, Reap
  <1>10. CASE NoMemory
    <2>1. \/ task' = task /\ jobstop' = jobstop
          \/ task' = Killed({Now.msg}) /\ jobstop' = jobstop
          \/ /\ pc = "handle" /\ cur.stop.kind = "fork" /\ InStop(cur.tid)
             /\ PtraceDetach(Now.msg, 0)
      BY <1>10 DEF NoMemory, Handling, kernel
    <2>2. CASE /\ pc = "handle" /\ cur.stop.kind = "fork" /\ InStop(cur.tid)
               /\ PtraceDetach(Now.msg, 0)
      <3>1. At(task[cur.tid], "fork") \/ At(task[cur.tid], "exec")
        BY <2>2 DEF Sound, Held, HeldTask, At, InStop
      <3>2. cur.tid \in Tids BY <1>1, <2>2 DEF TracerType
      <3>3. Now.msg \in Tids
        BY <1>1, <3>1, <3>2 DEF GoodTasks, GoodTask, StopAgrees, Now
      <3> QED BY <1>1, <1>2, <2>2, <3>3, DetachRests
    <2> QED BY <1>1, <1>2, <1>3, <2>1, <2>2, KilledRests
  <1>11. CASE \E t \in Tids : DetachStopped(t)
    BY <1>1, <1>2, <1>3, <1>11, DetachRests DEF DetachStopped, kernel
  <1>12. CASE DetachWaited
    <2>1. cur.tid \in Tids BY <1>1, <1>12 DEF DetachWaited, TracerType
    <2>2. \/ PtraceDetach(cur.tid, DetachSignal(task[cur.tid].stop))
          \/ Waitable(cur.tid) /\ task' = Report(cur.tid) /\ jobstop' = jobstop
          \/ task' = task /\ jobstop' = jobstop
      BY <1>12 DEF DetachWaited
    <2> QED BY <1>1, <1>2, <1>3, <2>1, <2>2, DetachRests, ReportRests
  <1>13. CASE \/ SyscallEntry \/ SyscallExit \/ EventStop \/ ForkStop \/ ExecStop
              \/ NewbornStop \/ SignalStop \/ GroupStop
    <2>1. UNCHANGED kernel
      BY <1>13 DEF SyscallEntry, SyscallExit, EventStop, ForkStop, ExecStop, NewbornStop,
             SignalStop, GroupStop, ToResume
    <2> QED BY <1>3, <2>1 DEF kernel
  <1>14. CASE \/ LoopEnds \/ Block \/ WaitFails \/ ListenFails \/ Exited \/ Untracked
              \/ RequestFails \/ ExitWriteFails \/ ResumeTooLate \/ CleanUp \/ AllReaped \/ Detached
              \/ (\E s \in ShutdownSignals : ShutdownArrives(s))
              \/ (\E t \in Tids : DetachNext(t)) \/ UNCHANGED vars
    BY <1>3, <1>14 DEF LoopEnds, Block, WaitFails, ListenFails, Exited, Untracked, RequestFails,
           ExitWriteFails, ResumeTooLate, CleanUp, AllReaped, Detached, ShutdownArrives, DetachNext,
           vars, kernel
  <1>15. CASE Failing BY <1>3, <1>15, FailingEnds DEF kernel
  <1> QED BY <1>4, <1>5, <1>6, <1>7, <1>8, <1>9, <1>10, <1>11, <1>12, <1>13, <1>14, <1>15
          DEF Next, TracerStep, Outside, Terminated, Stopped, Failing

(* A group stop comes to its resumption through EventStop only, and groups *)
(* stop only when there are untraced tasks, or by a resumption.            *)
Listening == pc = "resume" /\ cur.stop.kind = "event_stop" /\ cur.stop.sig # SIGTRAP
               => cur.listen

LEMMA ListeningNext ==
  ASSUME Sound, Mode = "attach", Released, [Next]_vars,
         pc = "interrupt" => jobstop = {}, Listening
  PROVE  (pc' = "interrupt" => jobstop' = {}) /\ Listening'
  <1>1. TracerType /\ NoneFree BY DEF Sound, Typed
  <1>2. pc' \notin {"interrupt", "resume"} => (pc' = "interrupt" => jobstop' = {}) /\ Listening'
    BY DEF Listening
  <1>3. pc' = pc /\ cur' = cur /\ jobstop' \subseteq jobstop =>
          (pc' = "interrupt" => jobstop' = {}) /\ Listening'
    BY DEF Listening
  <1>4. CASE TasksStep
    <2>1. UNCHANGED tracer BY <1>4 DEF TasksStep
    <2>2. pc = "interrupt" => jobstop' \subseteq jobstop
      BY <1>1, <1>4, NoNewStops DEF NoneFree, Loop
    <2> QED BY <2>1, <2>2 DEF tracer, Listening
  <1>5. CASE EventStop
    <2>1. ToResume(tracees, [Tracee EXCEPT !.newborn = FALSE], out, 0,
                   cur.stop.sig # SIGTRAP /\ Listen)
      BY <1>5 DEF EventStop
    <2>2. Listen BY DEF Listen
    <2> DEFINE l == cur.stop.sig # SIGTRAP /\ Listen
    <2>3. /\ pc' = "resume" /\ cur'.stop = cur.stop /\ cur'.listen = l
      BY <1>1, <2>1 DEF ToResume, TracerType, CurSet
    <2> QED BY <2>2, <2>3 DEF Listening
  <1>6. CASE \/ SyscallEntry \/ SyscallExit \/ ForkStop \/ ExecStop
             \/ NewbornStop \/ SignalStop \/ GroupStop
    <2>1. HandsOn BY <1>1, <1>6, HandlerHandsOn
    <2>2. cur.stop.kind # "event_stop"
      BY <1>6 DEF SyscallEntry, AtEntry, SyscallExit, AtExit, ForkStop, ExecStop, AtExec, NewbornStop,
             SignalStop, GroupStop, Handling
    <2> QED BY <2>1, <2>2 DEF HandsOn, Listening
  <1>7. CASE \E t \in Tids : InterruptOne(t) \/ Reap(t) \/ DetachStopped(t) \/ TracerGone(t)
    <2>1. cur' = cur /\ pc' \in {pc, "wait"} /\ pc # "resume"
      BY <1>7 DEF InterruptOne, Reap, DetachStopped, TracerGone, tracer
    <2>2. pc = "interrupt" => jobstop' = jobstop
      BY <1>7 DEF InterruptOne, Reap, DetachStopped, TracerGone
    <2> QED BY <2>1, <2>2 DEF Listening
  <1>8. CASE \/ StartLaunch \/ LoopEnds \/ Block \/ WaitFails \/ Exited \/ Untracked
             \/ RequestFails \/ Failing \/ ExitWriteFails \/ NoMemory
             \/ Resume \/ ResumeTooLate \/ ListenFails
             \/ CleanUp \/ KillAll \/ AllReaped \/ InterruptRunning \/ DetachWaited \/ Detached
             \/ \E t \in Tids : Wait(t) \/ DetachNext(t)
    <2>1. pc' \notin {"interrupt", "resume"}
      BY <1>8, FailingEnds
         DEF StartLaunch, LoopEnds, Block, WaitFails, Exited, Untracked, RequestFails,
             ExitWriteFails, NoMemory, Resume, ResumeTooLate, ListenFails, CleanUp, KillAll,
             AllReaped, InterruptRunning, DetachWaited, Detached, Wait, DetachNext, Finish, Done
    <2> QED BY <1>2, <2>1
  <1>9. CASE \E s \in ShutdownSignals : ShutdownArrives(s)
    <2>1. cur' = cur /\ jobstop' = jobstop /\ (pc' = pc \/ pc' = "finish")
      BY <1>9 DEF ShutdownArrives, Finish, kernel
    <2> QED BY <1>2, <1>3, <2>1
  <1>10. CASE UNCHANGED vars BY <1>3, <1>10 DEF vars, kernel, tracer
  <1> QED BY <1>4, <1>5, <1>6, <1>7, <1>8, <1>9, <1>10
          DEF Next, TracerStep, Outside, Terminated, Stopped, Failing

LEMMA HonouredNext ==
  ASSUME Sound, Released, Honoured, [Next]_vars
  PROVE  Honoured'
  <1> SUFFICES ASSUME Mode = "attach" PROVE Honoured' BY ConfigStays DEF Honoured, Mode
  <1>1. AtRest(task', jobstop', Caughts')
    <2>1. Caughts \subseteq Caughts' BY TableStays DEF Caughts, Known
    <2>2. AtRest(task', jobstop', Caughts) BY EveryStepRests
    <2> HIDE DEF Caughts
    <2> QED BY <2>1, <2>2, RestsMore
  <1>2. (pc = "interrupt" => jobstop = {}) /\ Listening BY DEF Honoured, Listening
  <1>3. (pc' = "interrupt" => jobstop' = {}) /\ Listening' BY <1>2, ListeningNext
  <1>4. AtRest(task, jobstop, Caughts)' BY <1>1 DEF AtRest
  <1> QED BY <1>3, <1>4 DEF Honoured, Listening

(* While an attached process is stopped by job control, each of its threads*)
(* is in a stop, listens, or is about to stop: none is resumed by the loop *)
(* before SIGCONT, through forks, clones, execs, deaths and interruptions, *)
(* and detach_all_tracees lets none of them slip out of its group's stop.  *)
THEOREM GroupStopsKept == Spec => []GroupStopHonoured
  <1> DEFINE I == Marked /\ Released /\ Honoured
  <1>1. Init => I BY MarkedInit, ReleasedInit, HonouredInit
  <1>2. Sound /\ I /\ [Next]_vars => I' BY MarkedNext, ReleasedNext, HonouredNext
  <1>3. I => GroupStopHonoured
    <2> SUFFICES ASSUME Honoured, Mode = "attach", NEW t \in Tids,
                        task[t].tg \in jobstop, task[t].st = "user"
                 PROVE  task[t].gst # 0 \/ task[t].trap
      BY DEF GroupStopHonoured
    <2>1. Living(task[t]) BY DEF Living
    <2>2. Resting(task[t]) \/ Caught(task[t]) BY <2>1 DEF Honoured, AtRest
    <2> QED BY <2>2 DEF Resting, Caught, At
  <1> QED BY <1>1, <1>2, <1>3, AlwaysSound, PTL DEF Spec

-----------------------------------------------------------------------------
(* The inductive invariant, of the tracer's records.  A launched task      *)
(* whose own SIGSTOP is still to come, or has come and is not handled yet, *)
(* is new to the tracer, and only followed tasks are.                      *)
NewTo(t)    == IF tracees[t].known THEN tracees[t].newborn ELSE Follow

AutoStop(r) == At(r, "signal") /\ r.stop.val = "auto"

Expected ==
  Mode = "launch" /\ pc \in Loop =>
    \A t \in Tids : /\ task[t].auto => NewTo(t)
                    /\ AutoStop(task[t]) => NewTo(t) \/ Answered(t)
                    /\ tracees[t].known /\ tracees[t].newborn => Follow

(* What a stop is going to be resumed with is what it has to be.           *)
Meant ==
  pc = "resume" =>
    /\ tracees[cur.tid].known
    /\ cur.listen => Mode = "attach"
    /\ At(task[cur.tid], "signal") =>
         cur.deliver = IF AutoStop(task[cur.tid]) THEN 0 ELSE task[cur.tid].stop.sig

(* An unknown task of an attached process is a child on its way to its     *)
(* first stop, and the signal of a stop the tracer holds is on record.     *)
Strays   == pc \in Loop => \A t \in Tids : Living(task[t]) /\ ~tracees[t].known => Stray(task[t])

OnRecord == \A t \in Tids :
              tracees[t].inStop /\ At(task[t], "signal") => tracees[t].sig = task[t].stop.sig

Noted    == Mode = "attach" => Strays /\ OnRecord

Courses ==
  /\ Mode = "launch" => pc \notin {"interrupt", "detach", "detaching", "detach_wait"}
  /\ pc = "start" /\ At(task[Root], "signal") => AutoStop(task[Root])
  /\ pc \in {"handle", "resume"} /\ cur.stop.kind = "fork" => Follow

AllProper == \A t \in Tids : Proper(task[t])

Signalled  == faults = {} /\ AllProper /\ Expected /\ Meant /\ Noted /\ Courses

Signalling == OwnStopCertain => Signalled

LEMMA SignallingInit ==
  ASSUME Init
  PROVE  Signalling
  <1> DEFINE r == [NoTask EXCEPT !.st = "user", !.tg = Root]
             h == [Halt(r, "signal", SIGSTOP, 0, "auto") EXCEPT !.seen = TRUE]
             w == [Fresh(FALSE) EXCEPT !.inStop = TRUE]
  <1>1. /\ ~r.auto /\ r.sigs = {} /\ r.gst = 0 /\ ~r.trap /\ r.st = "user" /\ r.how = "CONT"
        /\ ~h.auto /\ h.sigs = {} /\ h.gst = 0 /\ ~h.trap /\ h.st = "stop" /\ h.how = "CONT"
        /\ h.stop.kind = "signal" /\ h.stop.sig = SIGSTOP /\ h.stop.val = "auto"
        /\ ~NoTask.auto /\ NoTask.sigs = {} /\ NoTask.gst = 0 /\ ~NoTask.trap
        /\ NoTask.st = "none" /\ NoTask.how = "CONT"
    BY DEF Halt, NoTask
  <1>2. /\ ~Absent.inStop /\ ~Absent.known /\ ~Fresh(TRUE).inStop /\ Fresh(TRUE).known
        /\ ~w.newborn
    BY DEF Absent, Fresh
  <1>3. ASSUME NEW t \in Tids
        PROVE  \/ task[t] = NoTask /\ tracees[t] = Absent
               \/ Mode = "attach" /\ tracees[t] = Fresh(TRUE) /\ task[t] = r
               \/ Mode # "attach" /\ tracees[t] = w /\ task[t] = h /\ t \in InitTasks
    BY DEF Init, KernelInit
  <1>4. /\ config \in Configs /\ faults = {} /\ cur = NoEvent
        /\ pc = IF Mode = "attach" THEN "interrupt" ELSE "start"
    BY DEF Init, KernelInit
  <1>5. Mode # "attach" => Mode = "launch" /\ \A t \in InitTasks : t = Root
    <2>1. Mode \in {"launch", "attach"} BY <1>4, KernelAssumption DEF Mode
    <2>2. Mode = "launch" => InitTasks = {Root} BY <1>4, RootType
    <2> QED BY <2>1, <2>2
  <1>6. Root \in Tids BY RootType, <1>4
  <1> HIDE DEF r, h, w
  <1>7. AllProper
    <2>1. Proper(r) /\ Proper(NoTask) BY <1>1 DEF Proper, At, SIGSTOP
    <2>2. Mode = "launch" => Proper(h) BY <1>1 DEF Proper, At, SIGSTOP
    <2> QED BY <1>3, <1>5, <2>1, <2>2 DEF AllProper
  <1>8. Expected BY <1>1, <1>2, <1>3, <1>4, <1>5 DEF Expected, AutoStop, At, Answered
  <1>9. Meant /\ Courses BY <1>1, <1>3, <1>4, <1>6 DEF Meant, Courses, AutoStop, At
  <1>10. Noted BY <1>1, <1>2, <1>3 DEF Noted, Strays, OnRecord, Living
  <1> QED BY <1>4, <1>7, <1>8, <1>9, <1>10 DEF Signalling, Signalled

(* The tasks heed each step of the tracer, but for the one it resumes.     *)
Attentive == \A u \in Tids : Heeds(task[u], task'[u])

Resumed(t) ==
  /\ \A u \in Tids \ {t} : Heeds(task[u], task'[u])
  /\ Minds(task[t], task'[t]) /\ ~At(task'[t], "signal")

LEMMA StartHeeds ==
  ASSUME Inv, Released, Signalled, StartLaunch
  PROVE  faults' = {} /\ (Resumed(Root) \/ (Attentive /\ pc' = "finish"))
  <1>1. /\ Root \in Tids /\ GoodTasks /\ \A u \in Tids : Proper(task[u])
        /\ pc = "start" /\ Mode # "attach" /\ faults = {}
    BY RootType DEF Inv, Sound, Typed, KernelInv, KernelBase, Released, Signalled, AllProper,
       StartLaunch
  <1>2. CASE InStop(Root)
    <2> DEFINE h == ResumeRequest(tracees[Root])
    <2>1. GoOn(Root, task[Root], 0, h) BY <1>2 DEF StartLaunch, PtraceResume
    <2>2. h # "free" /\ 0 # SIGSTOP BY DEF ResumeRequest, SIGSTOP
    <2>3. SignalFaults(task[Root].stop, 0) = {}
      BY <1>1, <1>2 DEF SignalFaults, Signalled, Courses, AutoStop, At, InStop
    <2> HIDE DEF h
    <2>4. /\ \A u \in Tids \ {Root} : Heeds(task[u], task'[u])
          /\ Minds(task[Root], task'[Root]) /\ ~At(task'[Root], "signal")
          /\ faults' = faults \cup SignalFaults(task[Root].stop, 0)
      BY <1>1, <1>2, <2>1, <2>2, GoOnHeeds DEF GoodTasks, InStop
    <2> QED BY <1>1, <2>3, <2>4 DEF Resumed
  <1>3. CASE ~InStop(Root)
    <2>1. task' = task /\ faults' = faults /\ pc' = "finish" BY <1>3 DEF StartLaunch, kernel
    <2> QED BY <1>1, <2>1, SameHeeds DEF Attentive
  <1> QED BY <1>2, <1>3

LEMMA ResumeHeeds ==
  ASSUME Inv, Signalled, Resume
  PROVE  faults' = {} /\ Resumed(cur.tid)
  <1> DEFINE t == cur.tid
             s == cur.deliver
  <1>1. /\ t \in Tids /\ GoodTasks /\ \A u \in Tids : Proper(task[u])
        /\ pc = "resume" /\ InStop(t) /\ faults = {}
    BY DEF Inv, Sound, Typed, TracerType, KernelInv, KernelBase, Signalled, AllProper, Resume
  <1>2. CASE cur.listen
    <2>1. PtraceListen(t) /\ Mode = "attach" BY <1>1, <1>2 DEF Resume, Signalled, Meant
    <2> QED BY <1>1, <2>1, ListenHeeds DEF Resumed
  <1>3. CASE ~cur.listen
    <2> DEFINE h == ResumeRequest(tracees[t])
    <2>1. GoOn(t, task[t], s, h) BY <1>3 DEF Resume, PtraceResume
    <2>2. h # "free" BY DEF ResumeRequest
    <2>3. At(task[t], "signal") => s = IF AutoStop(task[t]) THEN 0 ELSE task[t].stop.sig
      BY <1>1 DEF Signalled, Meant
    <2>4. SignalFaults(task[t].stop, s) = {}
      BY <1>1, <2>3 DEF SignalFaults, AutoStop, At, InStop
    <2>5. Newborns /\ At(task[t], "signal") => s # SIGSTOP
      BY <1>1, <2>3 DEF Proper, Newborns, Certain, AutoStop, SIGSTOP
    <2> HIDE DEF h, s, t
    <2>6. /\ \A u \in Tids \ {t} : Heeds(task[u], task'[u])
          /\ Minds(task[t], task'[t]) /\ ~At(task'[t], "signal")
          /\ faults' = faults \cup SignalFaults(task[t].stop, s)
      BY <1>1, <2>1, <2>2, <2>5, GoOnHeeds DEF GoodTasks, InStop, At
    <2> QED BY <1>1, <2>4, <2>6 DEF Resumed, t
  <1> QED BY <1>2, <1>3

(* A signal stop that is detached goes on with its signal.                 *)
LEMMA DetachedHeed ==
  ASSUME GoodTasks, AllProper, Mode = "attach", faults = {}, NEW t \in Tids, NEW s \in Nat,
         PtraceDetach(t, s), At(task[t], "signal") => s = task[t].stop.sig
  PROVE  faults' = {} /\ Attentive
  <1>1. SignalFaults(task[t].stop, s) = {}
    BY DEF SignalFaults, AllProper, Proper, At, PtraceDetach, InStop
  <1> QED BY <1>1, DetachHeeds DEF AllProper, Attentive

LEMMA DetachSignalTrue ==
  ASSUME NEW t \in Tids, At(task[t], "signal")
  PROVE  DetachSignal(task[t].stop) = task[t].stop.sig
  BY DEF DetachSignal, At

(* What the tracer does to the tasks besides resuming them.                *)
LEMMA TracerHeeds ==
  ASSUME Inv, Signalled,
         \/ KillAll \/ InterruptRunning \/ NoMemory \/ DetachWaited
         \/ \E t \in Tids : InterruptOne(t) \/ Wait(t) \/ Reap(t) \/ DetachStopped(t) \/ TracerGone(t)
  PROVE  faults' = {} /\ Attentive
  <1>1. /\ GoodTasks /\ TracerType /\ AllProper /\ faults = {} /\ Mode \in {"launch", "attach"}
        /\ \A u \in Tids : Proper(task[u])
    BY KernelAssumption
       DEF Inv, Sound, Typed, KernelInv, KernelBase, Signalled, AllProper, Mode
  <1>2. task' = task /\ faults' = faults => faults' = {} /\ Attentive
    BY <1>1, SameHeeds DEF Attentive
  <1>3. \A T : task' = Killed(T) /\ faults' = faults => faults' = {} /\ Attentive
    BY <1>1, KilledHeeds DEF Attentive
  <1>4. \A T : Mode = "attach" /\ task' = Trapped(T) /\ faults' = faults => faults' = {} /\ Attentive
    BY <1>1, TrappedHeeds DEF Attentive
  <1>5. \A t \in Tids : Waitable(t) /\ task' = Report(t) /\ faults' = faults =>
                          faults' = {} /\ Attentive
    BY <1>1, ReportHeeds DEF Attentive
  <1>6. CASE KillAll BY <1>3, <1>6 DEF KillAll
  <1>7. CASE InterruptRunning \/ \E t \in Tids : InterruptOne(t)
    BY <1>1, <1>4, <1>7 DEF InterruptRunning, InterruptOne, Signalled, Courses
  <1>8. CASE \E t \in Tids : Wait(t) \/ Reap(t) BY <1>5, <1>8 DEF Wait, Reap
  <1>9. CASE NoMemory
    <2>1. \/ task' = task /\ faults' = faults
          \/ task' = Killed({Now.msg}) /\ faults' = faults
          \/ /\ pc = "handle" /\ cur.stop.kind = "fork" /\ InStop(cur.tid)
             /\ ~tracees[Now.msg].known /\ Mode # "launch" /\ PtraceDetach(Now.msg, 0)
      BY <1>9 DEF NoMemory, Handling, kernel
    <2>2. CASE /\ pc = "handle" /\ cur.stop.kind = "fork" /\ InStop(cur.tid)
               /\ ~tracees[Now.msg].known /\ Mode # "launch" /\ PtraceDetach(Now.msg, 0)
      <3> DEFINE m == Now.msg
      <3>1. At(task[cur.tid], "fork") \/ At(task[cur.tid], "exec")
        BY <2>2 DEF Inv, Sound, Held, HeldTask, At, InStop
      <3>2. cur.tid \in Tids BY <1>1, <2>2 DEF TracerType
      <3>3. m \in Tids
        BY <1>1, <3>1, <3>2 DEF GoodTasks, GoodTask, StopAgrees, Now
      <3>4. Mode = "attach" /\ InStop(m) /\ ~tracees[m].known BY <1>1, <2>2 DEF PtraceDetach
      <3> HIDE DEF m
      <3>5. Stray(task[m])
        BY <2>2, <3>3, <3>4 DEF Signalled, Noted, Strays, Loop, Living, InStop
      <3>6. ~At(task[m], "signal") BY <3>4, <3>5 DEF Stray, At, InStop
      <3>7. PtraceDetach(m, 0) /\ 0 \in Nat BY <2>2 DEF m
      <3> QED BY <1>1, <3>3, <3>4, <3>6, <3>7, DetachedHeed
    <2> QED BY <1>2, <1>3, <2>1, <2>2
  <1>10. ASSUME NEW t \in Tids, DetachStopped(t) PROVE faults' = {} /\ Attentive
    <2>1. pc = "detaching" /\ tracees[t].inStop /\ Mode = "attach" /\ tracees[t].sig \in Nat
      BY <1>1, <1>10 DEF DetachStopped, Signalled, Courses, TracerType, TraceeSet
    <2>2. At(task[t], "signal") => tracees[t].sig = task[t].stop.sig
      BY <2>1 DEF Signalled, Noted, OnRecord
    <2>3. PtraceDetach(t, tracees[t].sig) \/ (task' = task /\ faults' = faults)
      BY <1>10 DEF DetachStopped, kernel
    <2> QED BY <1>1, <1>2, <2>1, <2>2, <2>3, DetachedHeed
  <1>11. \A t \in Tids : DetachSignal(task[t].stop) \in Nat
    BY <1>1, DetachSignalType DEF GoodTasks, TaskSet
  <1>12. CASE DetachWaited
    <2>1. cur.tid \in Tids /\ Mode = "attach"
      BY <1>1, <1>12 DEF DetachWaited, TracerType, Signalled, Courses
    <2>2. \/ PtraceDetach(cur.tid, DetachSignal(task[cur.tid].stop))
          \/ Waitable(cur.tid) /\ task' = Report(cur.tid) /\ faults' = faults
          \/ task' = task /\ faults' = faults
      BY <1>12 DEF DetachWaited
    <2> QED BY <1>1, <1>2, <1>5, <1>11, <2>1, <2>2, DetachedHeed, DetachSignalTrue
  <1>13. ASSUME NEW t \in Tids, TracerGone(t) PROVE faults' = {} /\ Attentive
    <2>1. CASE InStop(t)
      BY <1>1, <1>11, <1>13, <2>1, DetachedHeed, DetachSignalTrue DEF TracerGone
    <2>2. CASE ~InStop(t)
      BY <1>1, <1>13, <2>2, LetGoHeeds DEF TracerGone, Attentive
    <2> QED BY <2>1, <2>2
  <1> QED BY <1>6, <1>7, <1>8, <1>9, <1>10, <1>12, <1>13

LEMMA EveryStepHeeds ==
  ASSUME Inv, Released, OwnStopCertain, Signalled, [Next]_vars
  PROVE  faults' = {} /\ \/ Attentive
                         \/ Resume /\ Resumed(cur.tid)
                         \/ StartLaunch /\ Resumed(Root)
  <1>1. KernelBase /\ faults = {} /\ \A u \in Tids : Proper(task[u])
    BY DEF Inv, Sound, Typed, KernelInv, Signalled, AllProper
  <1>2. task' = task /\ faults' = faults => faults' = {} /\ Attentive
    BY <1>1, SameHeeds DEF Attentive
  <1>3. CASE TasksStep
    <2>1. ASSUME NEW t \in Tids, KernelStep(t) PROVE faults' = faults
      BY <2>1 DEF KernelStep, DecideRestart, Restart, Sigreturn, Interrupted, Fork,
             ForkEvent, Complete, ExecEvent, GetSignal, GetSignalUntraced, ExitGroup,
             ExitThread
    <2>2. ASSUME NEW t \in Tids, ProgramStep(t) PROVE faults' = faults
      BY <2>2 DEF ProgramStep, EnterSyscall, Return, ExecBegin, SendSignal
    <2>3. faults' = faults BY <1>3, <2>1, <2>2 DEF TasksStep, SetupFails
    <2> QED BY <1>1, <1>3, <2>3, TasksHeed DEF Attentive
  <1>4. CASE StartLaunch BY <1>4, StartHeeds
  <1>5. CASE Resume BY <1>5, ResumeHeeds
  <1>6. CASE \/ KillAll \/ InterruptRunning \/ NoMemory \/ DetachWaited
             \/ \E t \in Tids : \/ InterruptOne(t) \/ Wait(t) \/ Reap(t) \/ DetachStopped(t)
                                \/ TracerGone(t)
    BY <1>6, TracerHeeds
  <1>7. CASE \/ SyscallEntry \/ SyscallExit \/ EventStop \/ ForkStop \/ ExecStop
             \/ NewbornStop \/ SignalStop \/ GroupStop
    <2>1. UNCHANGED kernel
      BY <1>7 DEF SyscallEntry, SyscallExit, EventStop, ForkStop, ExecStop, NewbornStop,
             SignalStop, GroupStop, ToResume
    <2> QED BY <1>2, <2>1 DEF kernel
  <1>8. CASE \/ LoopEnds \/ Block \/ WaitFails \/ ListenFails \/ Exited \/ Untracked
             \/ RequestFails \/ ExitWriteFails \/ ResumeTooLate \/ CleanUp \/ AllReaped
             \/ Detached \/ (\E s \in ShutdownSignals : ShutdownArrives(s))
             \/ (\E t \in Tids : DetachNext(t)) \/ UNCHANGED vars
    BY <1>2, <1>8 DEF LoopEnds, Block, WaitFails, ListenFails, Exited, Untracked, RequestFails,
           ExitWriteFails, ResumeTooLate, CleanUp, AllReaped, Detached, ShutdownArrives,
           DetachNext, vars, kernel
  <1>9. CASE Failing BY <1>2, <1>9, FailingEnds DEF kernel
  <1> QED BY <1>3, <1>4, <1>5, <1>6, <1>7, <1>8, <1>9
          DEF Next, TracerStep, Outside, Terminated, Stopped, Failing

-----------------------------------------------------------------------------
(* What a handler does with the records of the tracees.                    *)
Elsewhere ==
  \A u \in Tids \ {cur.tid} :
    \/ tracees'[u] = tracees[u]
    \/ ~tracees[u].known /\ tracees'[u] = Fresh(TRUE) /\ Follow
    \/ tracees'[u] = Absent /\ task[u].st = "gone"

Answers ==
  /\ tracees'[cur.tid].known
  /\ tracees'[cur.tid].newborn => Tracee.newborn /\ IsTracked
  /\ cur'.listen => Mode = "attach"
  /\ cur.stop.kind = "group_stop" /\ ~OwnStop(Tracee) => tracees'[cur.tid].newborn = Tracee.newborn
  /\ cur.stop.kind = "signal" =>
       IF OwnStop(Tracee) THEN cur'.deliver = 0
       ELSE cur'.deliver = cur.stop.sig /\ tracees'[cur.tid].sig = cur.stop.sig

LEMMA ToResumeRecords ==
  ASSUME TracerType, pc = "handle", NEW tr \in [Tids -> TraceeSet], NEW r \in TraceeSet,
         NEW o, NEW d, NEW l, ToResume(tr, r, o, d, l)
  PROVE  /\ HandsOn /\ cur'.deliver = d /\ cur'.listen = l
         /\ tracees'[cur.tid].known = r.known /\ tracees'[cur.tid].newborn = r.newborn
         /\ tracees'[cur.tid].sig = r.sig
         /\ \A u \in Tids \ {cur.tid} : tracees'[u] = tr[u]
  <1> DEFINE x == [r EXCEPT !.inStop = TRUE]
  <1>1. cur' = [cur EXCEPT !.deliver = d, !.listen = l] BY DEF ToResume
  <1>2. cur'.deliver = d /\ cur'.listen = l BY <1>1 DEF TracerType, CurSet
  <1>3. x.known = r.known /\ x.newborn = r.newborn /\ x.sig = r.sig BY DEF TraceeSet
  <1>4. cur.tid \in Tids /\ tracees' = [tr EXCEPT ![cur.tid] = x] BY DEF ToResume, TracerType
  <1> HIDE DEF x
  <1>5. tracees'[cur.tid] = x /\ \A u \in Tids \ {cur.tid} : tracees'[u] = tr[u] BY <1>4
  <1> QED BY <1>2, <1>3, <1>5, ToResumeHandsOn

LEMMA HandlersAnswer ==
  ASSUME Inv, Signalled,
         \/ SyscallEntry \/ SyscallExit \/ EventStop \/ ForkStop \/ ExecStop
         \/ NewbornStop \/ SignalStop \/ GroupStop
  PROVE  pc = "handle" /\ cur.tid \in Tids /\ Elsewhere /\ HandsOn /\ Answers
  <1>1. /\ TracerType /\ GoodTasks /\ Groups(task) /\ tracees \in [Tids -> TraceeSet]
        /\ 0 \notin Tids /\ Sound /\ ExecLeft /\ InStep
    BY KernelAssumption DEF Inv, Sound, Typed, TracerType, KernelInv, KernelBase
  <1>2. pc = "handle" BY <1>1, HandlerHandsOn DEF HandsOn
  <1>3. cur.tid \in Tids /\ Tracee \in TraceeSet /\ Tracee.known
        /\ HeldTask(task[cur.tid], cur.stop)
    BY <1>1, <1>2, Found
  <1>4. ASSUME NEW r \in TraceeSet, NEW o, NEW d, NEW l, ToResume(tracees, r, o, d, l),
               r.known, r.newborn => Tracee.newborn /\ IsTracked
        PROVE  /\ HandsOn /\ Elsewhere /\ tracees'[cur.tid].known
               /\ tracees'[cur.tid].newborn => Tracee.newborn /\ IsTracked
               /\ tracees'[cur.tid].newborn = r.newborn /\ tracees'[cur.tid].sig = r.sig
               /\ cur'.deliver = d /\ cur'.listen = l
    <2>1. /\ HandsOn /\ cur'.deliver = d /\ cur'.listen = l
          /\ tracees'[cur.tid].known = r.known /\ tracees'[cur.tid].newborn = r.newborn
          /\ tracees'[cur.tid].sig = r.sig
          /\ \A u \in Tids \ {cur.tid} : tracees'[u] = tracees[u]
      BY <1>1, <1>2, <1>4, ToResumeRecords
    <2>2. Elsewhere BY <2>1 DEF Elsewhere
    <2> QED BY <1>4, <2>1, <2>2
  <1> DEFINE n == [Tracee EXCEPT !.newborn = FALSE]
  <1>5. n \in TraceeSet /\ n.known /\ ~n.newborn BY <1>3 DEF TraceeSet
  <1>6. CASE SyscallEntry \/ SyscallExit
    <2>1. PICK b \in TraceeSet : /\ SameTask(Tracee, b) /\ root' = root
                                 /\ \E o : ToResume(tracees, b, o, 0, FALSE)
      BY <1>1, <1>6, EntryActs, ExitActs
    <2>2. IsTracked /\ cur.stop.kind \in {"entry", "exit", "seccomp"}
      BY <1>6 DEF SyscallEntry, SyscallExit, AtEntry, AtExit, Handling
    <2>3. b.known /\ b.newborn = Tracee.newborn BY <1>3, <2>1 DEF SameTask
    <2> QED BY <1>2, <1>3, <1>4, <2>1, <2>2, <2>3 DEF Answers
  <1>8. CASE EventStop
    <2> DEFINE l == cur.stop.sig # SIGTRAP /\ Listen
    <2>1. cur.stop.kind = "event_stop" /\ ToResume(tracees, n, out, 0, l)
      BY <1>8 DEF EventStop, Handling
    <2>2. l => Mode = "attach" BY DEF Listen
    <2> HIDE DEF l, n
    <2>3. /\ HandsOn /\ Elsewhere /\ tracees'[cur.tid].known
          /\ tracees'[cur.tid].newborn => Tracee.newborn /\ IsTracked
          /\ cur'.listen = l
      BY <1>4, <1>5, <2>1
    <2> QED BY <1>2, <1>3, <2>1, <2>2, <2>3 DEF Answers
  <1>9. CASE NewbornStop
    <2>1. OwnStop(Tracee) /\ ToResume(tracees, n, out, 0, FALSE) BY <1>9 DEF NewbornStop
    <2> HIDE DEF n
    <2> QED BY <1>2, <1>3, <1>4, <1>5, <2>1 DEF Answers
  <1>10. CASE SignalStop
    <2> DEFINE m == [Tracee EXCEPT !.newborn = FALSE, !.sig = cur.stop.sig]
    <2>1. /\ ~OwnStop(Tracee) /\ cur.stop.kind = "signal"
          /\ ToResume(tracees, m, write_signal(out, tracees), cur.stop.sig, FALSE)
      BY <1>10 DEF SignalStop, Handling, delivery_signal
    <2>2. cur.stop.sig \in Nat BY <1>1 DEF TracerType, CurSet, EventSet
    <2>3. m \in TraceeSet /\ m.known /\ ~m.newborn /\ m.sig = cur.stop.sig
      BY <1>3, <2>2 DEF TraceeSet
    <2> HIDE DEF m
    <2> QED BY <1>2, <1>3, <1>4, <2>1, <2>3 DEF Answers
  <1>11. CASE GroupStop
    <2>1. IsTracked /\ cur.stop.kind = "group_stop" /\ ToResume(tracees, Tracee, out, 0, Listen)
      BY <1>11 DEF GroupStop, Handling
    <2>2. Listen => Mode = "attach" BY DEF Listen
    <2>3. /\ HandsOn /\ Elsewhere /\ tracees'[cur.tid].known
          /\ tracees'[cur.tid].newborn => Tracee.newborn /\ IsTracked
          /\ tracees'[cur.tid].newborn = Tracee.newborn /\ cur'.listen = Listen
      BY <1>3, <1>4, <2>1
    <2> QED BY <1>2, <1>3, <2>1, <2>2, <2>3 DEF Answers
  <1>12. CASE ForkStop
    <2> DEFINE m  == Now.msg
               tr == add_tracee(tracees, m)
    <2>1. /\ cur.stop.kind = "fork" /\ IsTracked
          /\ \E o : ToResume(tr, Tracee, o, 0, FALSE)
      BY <1>12 DEF ForkStop, Handling
    <2>2. tr \in [Tids -> TraceeSet] BY <1>1, FreshType DEF add_tracee
    <2>3. \A u \in Tids : tr[u] = tracees[u] \/ (~tracees[u].known /\ tr[u] = Fresh(TRUE))
      BY <1>1 DEF add_tracee
    <2>4. Follow BY <1>2, <2>1 DEF Signalled, Courses
    <2> DEFINE r == Tracee
    <2>5. r \in TraceeSet /\ \E o : ToResume(tr, r, o, 0, FALSE) BY <1>3, <2>1
    <2> HIDE DEF tr, r
    <2>6. /\ HandsOn /\ cur'.deliver = 0 /\ cur'.listen = FALSE
          /\ tracees'[cur.tid].known = r.known /\ tracees'[cur.tid].newborn = r.newborn
          /\ tracees'[cur.tid].sig = r.sig
          /\ \A u \in Tids \ {cur.tid} : tracees'[u] = tr[u]
      BY <1>1, <1>2, <2>2, <2>5, ToResumeRecords
    <2>7. Elsewhere BY <2>3, <2>4, <2>6 DEF Elsewhere
    <2> QED BY <1>2, <1>3, <2>1, <2>6, <2>7 DEF Answers, r
  <1>13. CASE ExecStop
    <2> DEFINE former == cur.stop.msg
               tr == Migrated(former, cur.tid)
               x == [Ended(ExecTracee(tr[cur.tid])) EXCEPT !.newborn = FALSE]
    <2>1. cur.stop.kind = "exec" /\ \E o : ToResume(tr, x, o, 0, FALSE)
      BY <1>13 DEF ExecStop, AtExec, Handling
    <2>2. former = cur.tid \/ task[former].st = "gone" BY <1>1, <1>2, <2>1 DEF ExecLeft
    <2>3. former \in Tids BY <1>1, <1>2, <2>1 DEF TracerType
    <2>4. tr \in [Tids -> TraceeSet] BY <1>1, <1>3, <2>3, MovedType
    <2>5. \A u \in Tids \ {cur.tid} : tr[u] = tracees[u] \/ (u = former /\ tr[u] = Absent)
      BY <1>1, <1>3, <2>3 DEF Migrated
    <2> HIDE DEF tr
    <2>6. x \in TraceeSet /\ x.known /\ ~x.newborn
      <3> DEFINE e == Ended(ExecTracee(tr[cur.tid]))
      <3>1. x \in TraceeSet /\ x.known BY <1>3, <2>4, ExecEnds
      <3>2. x = [e EXCEPT !.newborn = FALSE] OBVIOUS
      <3> HIDE DEF e
      <3>3. "newborn" \in DOMAIN x BY <3>1 DEF TraceeSet
      <3>4. DOMAIN x = DOMAIN e BY <3>2
      <3>5. ~x.newborn BY <3>2, <3>3, <3>4
      <3> QED BY <3>1, <3>5
    <2> HIDE DEF x
    <2>7. /\ HandsOn /\ cur'.listen = FALSE
          /\ tracees'[cur.tid].known = x.known /\ tracees'[cur.tid].newborn = x.newborn
          /\ \A u \in Tids \ {cur.tid} : tracees'[u] = tr[u]
      BY <1>1, <1>2, <2>1, <2>4, <2>6, ToResumeRecords
    <2>8. Elsewhere BY <2>2, <2>5, <2>7 DEF Elsewhere
    <2> QED BY <1>2, <1>3, <2>1, <2>6, <2>7, <2>8 DEF Answers
  <1> QED BY <1>6, <1>8, <1>9, <1>10, <1>11, <1>12, <1>13

Detaching == {"interrupt", "detach", "detaching", "detach_wait"}

Handlers == \/ SyscallEntry \/ SyscallExit \/ EventStop \/ ForkStop \/ ExecStop
            \/ NewbornStop \/ SignalStop \/ GroupStop

(* How the tracer gets where it is. *)
LEMMA PathTaken ==
  ASSUME [Next]_vars
  PROVE  /\ pc' = "start" => pc = "start"
         /\ pc' \in Detaching => pc \in Detaching \/ Mode = "attach"
         /\ pc' = "resume" => Handlers \/ (pc = "resume" /\ cur' = cur /\ tracees' = tracees)
  <1>1. CASE TasksStep \/ UNCHANGED vars BY <1>1 DEF TasksStep, tracer, vars
  <1>2. CASE Handlers
    <2>1. pc' = "resume"
      BY <1>2 DEF Handlers, SyscallEntry, SyscallExit, EventStop, ForkStop, ExecStop,
             NewbornStop, SignalStop, GroupStop, ToResume
    <2> QED BY <1>2, <2>1 DEF Detaching
  <1>3. CASE \/ StartLaunch \/ LoopEnds \/ Block \/ WaitFails \/ ListenFails \/ Exited \/ Untracked
             \/ RequestFails \/ Failing \/ ExitWriteFails \/ NoMemory \/ Resume \/ ResumeTooLate
             \/ KillAll \/ AllReaped \/ InterruptRunning \/ DetachWaited \/ Detached
    BY <1>3, FailingEnds DEF StartLaunch, LoopEnds, Block, WaitFails, ListenFails, Exited,
           Untracked, RequestFails, ExitWriteFails, NoMemory, Resume, ResumeTooLate, KillAll,
           AllReaped, InterruptRunning, DetachWaited, Detached, Done, Finish, Detaching
  <1>4. CASE CleanUp BY <1>4 DEF CleanUp, Done, Detaching
  <1>5. CASE \E t \in Tids : \/ InterruptOne(t) \/ Wait(t) \/ Reap(t) \/ DetachStopped(t)
                             \/ DetachNext(t) \/ TracerGone(t)
    BY <1>5 DEF InterruptOne, Wait, Reap, DetachStopped, DetachNext, TracerGone, tracer,
           Detaching
  <1>6. CASE \E s \in ShutdownSignals : ShutdownArrives(s)
    BY <1>6 DEF ShutdownArrives, Finish, Detaching
  <1> QED BY <1>1, <1>2, <1>3, <1>4, <1>5, <1>6
          DEF Next, TracerStep, Outside, Terminated, Stopped, Handlers, Failing

(* A stop that was reported is the one the task is in, if it is in one at all. *)
Attended == \A u \in Tids : Minds(task[u], task'[u])

LEMMA CoursesNext ==
  ASSUME Inv, Signalled, [Next]_vars, Attended
  PROVE  Courses'
  <1>1. /\ TracerType /\ GoodTasks /\ Root \in Tids /\ Courses /\ AllProper
        /\ config' = config /\ Mode' = Mode /\ Root' = Root /\ Follow' = Follow
    BY ConfigStays, RootType
       DEF Inv, Sound, Typed, KernelInv, KernelBase, Signalled
  <1>2. Mode = "launch" => pc' \notin Detaching
    BY <1>1, PathTaken DEF Courses, Detaching
  <1>3. pc' = "start" /\ At(task'[Root], "signal") => AutoStop(task'[Root])
    <2> SUFFICES ASSUME pc' = "start", At(task'[Root], "signal") PROVE AutoStop(task'[Root])
      OBVIOUS
    <2>1. pc = "start" /\ task[Root].st # "user"
      BY PathTaken DEF Inv, InStep, Loop
    <2>2. At(task[Root], "signal") /\ task'[Root].stop = task[Root].stop
      BY <1>1, <2>1 DEF Attended, Minds
    <2> QED BY <1>1, <2>1, <2>2 DEF Courses, AutoStop
  <1>4. pc' \in {"handle", "resume"} /\ cur'.stop.kind = "fork" => Follow
    <2> SUFFICES ASSUME pc' \in {"handle", "resume"}, cur'.stop.kind = "fork" PROVE Follow
      OBVIOUS
    <2>1. CASE Handlers
      <3>1. cur'.stop = cur.stop /\ pc = "handle"
        BY <1>1, <2>1, HandlerHandsOn DEF HandsOn, Handlers
      <3> QED BY <1>1, <3>1 DEF Courses
    <2>2. ASSUME NEW t \in Tids, Wait(t) PROVE Follow
      <3>1. InStop(t) /\ cur'.stop = task[t].stop BY <1>1, <2>2, WaitReports
      <3> QED BY <1>1, <3>1 DEF AllProper, Proper, At, InStop
    <2>3. CASE ~Handlers /\ ~\E t \in Tids : Wait(t)
      <3>1. pc \in {"handle", "resume"} /\ cur' = cur BY <1>1, <2>3, HandleStarts, PathTaken
      <3> QED BY <1>1, <3>1 DEF Courses
    <2> QED BY <2>1, <2>2, <2>3
  <1> QED BY <1>1, <1>2, <1>3, <1>4 DEF Courses, AutoStop, At, Detaching

LEMMA MeantNext ==
  ASSUME Inv, Signalled, [Next]_vars, Attended
  PROVE  Meant'
  <1> SUFFICES ASSUME pc' = "resume" PROVE Meant' BY DEF Meant
  <1>1. /\ TracerType /\ Mode' = Mode /\ AllProper /\ Held /\ Mode \in {"launch", "attach"}
    BY ConfigStays, KernelAssumption
       DEF Inv, Sound, Typed, KernelInv, KernelBase, Signalled, Mode
  <1>2. CASE pc = "resume" /\ cur' = cur /\ tracees' = tracees
    <2>1. cur.tid \in Tids /\ task[cur.tid].st # "user" /\ Meant
      BY <1>1, <1>2 DEF TracerType, Held, HeldTask, At, Signalled
    <2>2. At(task'[cur.tid], "signal") =>
            At(task[cur.tid], "signal") /\ task'[cur.tid].stop = task[cur.tid].stop
      BY <2>1 DEF Attended, Minds
    <2> QED BY <1>1, <1>2, <2>1, <2>2 DEF Meant, AutoStop
  <1>3. CASE Handlers
    <2> DEFINE t == cur.tid
               r == task[t]
    <2>1. pc = "handle" /\ t \in Tids /\ HandsOn /\ Answers BY <1>3, HandlersAnswer DEF Handlers
    <2>2. task' = task /\ cur'.tid = t BY <2>1 DEF HandsOn
    <2>3. tracees'[t].known /\ (cur'.listen => Mode = "attach") BY <2>1 DEF Answers
    <2>4. ASSUME At(r, "signal")
          PROVE  cur'.deliver = IF AutoStop(r) THEN 0 ELSE r.stop.sig
      <3>1. r.stop = cur.stop /\ cur.stop.kind = "signal"
        BY <1>1, <2>1, <2>4 DEF Held, HeldTask, At
      <3>2. Proper(r) BY <1>1, <2>1 DEF AllProper
      <3>3. CASE OwnStop(Tracee)
        <4>1. cur'.deliver = 0 /\ r.stop.sig = SIGSTOP /\ Tracee.newborn
          BY <2>1, <3>1, <3>3 DEF Answers, OwnStop
        <4>2. Mode = "launch" => Follow
          <5>1. Mode = "launch" /\ tracees[t].known => Follow
            BY <2>1, <4>1 DEF Signalled, Expected, Tracee, Loop
          <5>2. ~tracees[t].known => Follow
            BY <1>3, <3>1, <2>1 DEF Handlers, SyscallEntry, SyscallExit, EventStop, ForkStop,
                   ExecStop, NewbornStop, SignalStop, GroupStop, AtEntry, AtExit, AtExec,
                   Handling, IsTracked
          <5> QED BY <5>1, <5>2
        <4>3. AutoStop(r) BY <1>1, <2>4, <3>2, <4>1, <4>2 DEF Proper, Certain, AutoStop
        <4> QED BY <4>1, <4>3
      <3>4. CASE ~OwnStop(Tracee)
        <4>1. cur'.deliver = r.stop.sig BY <2>1, <3>1, <3>4 DEF Answers
        <4>2. AutoStop(r) => Mode = "launch" /\ r.stop.sig = SIGSTOP
          BY <3>2 DEF Proper, AutoStop
        <4>3. AutoStop(r) => NewTo(t)
          BY <2>1, <4>2 DEF Signalled, Expected, Answered, Loop
        <4>4. NewTo(t) => Tracee.newborn BY DEF NewTo, Tracee, Fresh
        <4>5. ~AutoStop(r) BY <3>1, <3>4, <4>2, <4>3, <4>4 DEF OwnStop
        <4> QED BY <4>1, <4>5
      <3> QED BY <3>3, <3>4
    <2> QED BY <1>1, <2>2, <2>3, <2>4 DEF Meant, AutoStop
  <1> QED BY <1>2, <1>3, PathTaken

(* A launched task stays expected. *)
Awaited(u) ==
  /\ Answered(u) /\ AutoStop(task'[u]) => Answered(u)'
  /\ NewTo(u) /\ task'[u].auto => NewTo(u)'
  /\ NewTo(u) /\ AutoStop(task'[u]) => NewTo(u)' \/ Answered(u)'
  /\ tracees'[u].known /\ tracees'[u].newborn => Follow

LEMMA ExpectedKept ==
  ASSUME Marked, Mode = "launch", pc \in Loop, Expected, Mode' = Mode, Follow' = Follow,
         Attended, \A u \in Tids : Awaited(u)
  PROVE  Expected'
  <1>1. ASSUME NEW u \in Tids
        PROVE  /\ task'[u].auto => NewTo(u)'
               /\ AutoStop(task'[u]) => NewTo(u)' \/ Answered(u)'
               /\ tracees'[u].known /\ tracees'[u].newborn => Follow'
    <2>1. Minds(task[u], task'[u]) /\ Awaited(u) BY DEF Attended
    <2>2. task[u].st = "none" /\ Follow => NewTo(u) BY DEF Marked, NewTo
    <2>3. task'[u].auto => NewTo(u)
      BY <2>1, <2>2 DEF Minds, Expected
    <2>4. AutoStop(task'[u]) => NewTo(u) \/ Answered(u)
      BY <2>1 DEF Minds, Expected, AutoStop
    <2> QED BY <2>1, <2>3, <2>4 DEF Awaited
  <1>2. (\A t \in Tids : /\ task[t].auto => NewTo(t)
                         /\ AutoStop(task[t]) => NewTo(t) \/ Answered(t)
                         /\ tracees[t].known /\ tracees[t].newborn => Follow)'
    BY <1>1 DEF AutoStop, At
  <1> QED BY <1>2 DEF Expected

LEMMA SameAwaited ==
  ASSUME Expected, Mode = "launch", pc \in Loop, Follow' = Follow, NEW u \in Tids,
         tracees'[u].known = tracees[u].known, tracees'[u].newborn = tracees[u].newborn,
         Answered(u) /\ AutoStop(task'[u]) => Answered(u)'
  PROVE  Awaited(u)
  <1>1. NewTo(u) => NewTo(u)' BY DEF NewTo
  <1> QED BY <1>1 DEF Awaited, Expected

LEMMA ExpectedNext ==
  ASSUME Inv, Marked, Released, Signalled, [Next]_vars, Attended
  PROVE  Expected'
  <1> SUFFICES ASSUME Mode = "launch", pc' \in Loop PROVE Expected'
    BY ConfigStays DEF Expected
  <1>1. /\ TracerType /\ GoodTasks /\ tracees \in [Tids -> TraceeSet] /\ Root \in Tids /\ Held
        /\ Mode' = Mode /\ Follow' = Follow /\ Root' = Root /\ Expected /\ pc \in Loop
        /\ AllProper
    BY ConfigStays, RootType, TableStays
       DEF Inv, Sound, Typed, TracerType, KernelInv, KernelBase, Signalled
  <1>2. (\A u \in Tids : Awaited(u)) => Expected' BY <1>1, ExpectedKept
  <1>3. ASSUME tracees' = tracees,
               (pc' = pc /\ cur' = cur) \/ pc \notin {"resume", "start"}
        PROVE  Expected'
    <2>1. \A u \in Tids : Answered(u) => Answered(u)' BY <1>1, <1>3 DEF Answered
    <2> QED BY <1>1, <1>2, <1>3, <2>1, SameAwaited
  <1>4. CASE Handlers
    <2> SUFFICES ASSUME NEW t, t = cur.tid PROVE Expected' OBVIOUS
    <2>1. pc = "handle" /\ t \in Tids /\ Elsewhere /\ HandsOn /\ Answers
      BY <1>4, HandlersAnswer DEF Handlers, Loop
    <2>2. task' = task /\ cur'.tid = t /\ pc' = "resume" BY <2>1 DEF HandsOn
    <2>3. ASSUME NEW u \in Tids \ {t} PROVE Awaited(u)
      <3>1. ~Answered(u) BY <2>1 DEF Answered
      <3>2. CASE tracees'[u] = tracees[u] BY <1>1, <3>1, <3>2, SameAwaited
      <3>3. CASE tracees'[u] = Fresh(TRUE) /\ Follow
        BY <1>1, <3>1, <3>3 DEF Awaited, NewTo, Fresh
      <3>4. CASE tracees'[u] = Absent /\ task[u].st = "gone"
        <4>1. ~tracees'[u].known BY <3>4 DEF Absent, Fresh
        <4>2. ~task[u].auto /\ ~AutoStop(task[u])
          BY <1>1, <3>4 DEF AllProper, Proper, AutoStop, At
        <4> QED BY <2>2, <3>1, <4>1, <4>2 DEF Awaited
      <3> QED BY <2>1, <3>2, <3>3, <3>4 DEF Elsewhere
    <2>4. Awaited(t)
      <3>1. Answered(t)' BY <2>2 DEF Answered
      <3>2. tracees'[t].known /\ (tracees'[t].newborn => Tracee.newborn /\ IsTracked)
        BY <2>1 DEF Answers
      <3>3. Tracee.newborn /\ IsTracked => Follow
        BY <1>1, <2>1 DEF Expected, Tracee, IsTracked
      <3>4. ASSUME NewTo(t), task[t].auto PROVE NewTo(t)'
        <4>1. At(task[t], "group_stop") /\ task[t].stop.sig # SIGSTOP
          BY <1>1, <2>1, <3>4 DEF AllProper, Proper, Held, HeldTask, At
        <4>2. cur.stop.kind = "group_stop" /\ cur.stop.sig # SIGSTOP
          BY <1>1, <2>1, <4>1 DEF Held, HeldTask, At
        <4>3. tracees'[t].newborn = Tracee.newborn BY <2>1, <4>2 DEF Answers, OwnStop
        <4>4. Tracee.newborn BY <3>4 DEF NewTo, Tracee, Fresh
        <4> QED BY <3>2, <4>3, <4>4 DEF NewTo
      <3> QED BY <2>2, <3>1, <3>2, <3>3, <3>4 DEF Awaited
    <2> QED BY <1>2, <2>3, <2>4
  <1>5. CASE Exited
    <2> SUFFICES ASSUME NEW t, t = cur.tid PROVE Expected' OBVIOUS
    <2>1. /\ t \in Tids /\ pc = "handle" /\ cur.stop.kind = "exited" /\ task' = task
          /\ tracees' = tracees \/ tracees' = [tracees EXCEPT ![t] = Absent]
      BY <1>1, <1>5 DEF Exited, Handling, TracerType, kernel
    <2>2. CASE tracees' = tracees BY <1>3, <2>1, <2>2
    <2>3. CASE tracees' = [tracees EXCEPT ![t] = Absent]
      <3>1. task[t].st = "gone" BY <1>1, <2>1 DEF Held, HeldTask
      <3>2. ~task[t].auto /\ ~AutoStop(task[t])
        BY <1>1, <2>1, <3>1 DEF AllProper, Proper, AutoStop, At
      <3>3. ~tracees'[t].known BY <1>1, <2>1, <2>3 DEF Absent, Fresh
      <3>4. Awaited(t) BY <2>1, <3>2, <3>3 DEF Awaited
      <3>5. \A u \in Tids \ {t} : tracees'[u] = tracees[u] /\ ~Answered(u)
        BY <1>1, <2>1, <2>3 DEF Answered
      <3>6. \A u \in Tids \ {t} : Awaited(u) BY <1>1, <3>5, SameAwaited
      <3> QED BY <1>2, <3>4, <3>6
    <2> QED BY <2>1, <2>2, <2>3
  <1>6. CASE StartLaunch \/ Resume \/ ResumeTooLate
    <2>1. ASSUME NEW u \in Tids
          PROVE  /\ tracees'[u].known = tracees[u].known
                 /\ tracees'[u].newborn = tracees[u].newborn
      <3>1. CASE tracees' = tracees BY <3>1
      <3>2. CASE tracees' = [tracees EXCEPT ![Root].inStop = FALSE] BY <1>1, <3>2 DEF TraceeSet
      <3>3. CASE tracees' = [tracees EXCEPT ![cur.tid].inStop = FALSE, ![cur.tid].sig = 0]
        <4>1. cur.tid \in Tids \/ \A v \in Tids : v # cur.tid OBVIOUS
        <4> QED BY <1>1, <3>3, <4>1 DEF TraceeSet
      <3> QED BY <1>6, <3>1, <3>2, <3>3 DEF StartLaunch, Resume, ResumeTooLate
    <2>2. ASSUME NEW u \in Tids, Answered(u) PROVE ~AutoStop(task'[u])
      <3>1. CASE Resume
        <4>1. Resumed(cur.tid) BY <3>1, ResumeHeeds
        <4> QED BY <2>2, <3>1, <4>1 DEF Resume, Answered, Resumed, AutoStop
      <3>2. CASE StartLaunch
        <4>1. Resumed(Root) BY <3>2, StartHeeds DEF Loop
        <4> QED BY <2>2, <3>2, <4>1 DEF StartLaunch, Answered, Resumed, AutoStop
      <3>3. CASE ResumeTooLate
        <4>1. u = cur.tid /\ ~InStop(cur.tid) /\ task' = task
          BY <2>2, <3>3 DEF ResumeTooLate, Answered, kernel
        <4> QED BY <4>1 DEF AutoStop, At, InStop
      <3> QED BY <1>6, <2>2, <3>1, <3>2, <3>3
    <2> QED BY <1>1, <1>2, <2>1, <2>2, SameAwaited
  <1>7. CASE \/ WaitFails \/ ListenFails \/ LoopEnds \/ RequestFails \/ ExitWriteFails
             \/ Failing \/ NoMemory \/ CleanUp \/ KillAll \/ AllReaped \/ InterruptRunning \/ DetachWaited \/ Detached
             \/ \E t \in Tids : Reap(t) \/ DetachStopped(t) \/ DetachNext(t) \/ TracerGone(t)
    BY <1>1, <1>7, FailingEnds
       DEF WaitFails, ListenFails, LoopEnds, RequestFails, ExitWriteFails, NoMemory,
           Finish, CleanUp, KillAll, AllReaped, InterruptRunning, DetachWaited, Detached, Reap,
           DetachStopped, DetachNext, TracerGone, Loop
  <1>8. CASE TasksStep \/ Block \/ Untracked \/ UNCHANGED vars
             \/ (\E t \in Tids : InterruptOne(t) \/ Wait(t))
             \/ (\E s \in ShutdownSignals : ShutdownArrives(s))
    <2>1. /\ tracees' = tracees
          /\ (pc' = pc /\ cur' = cur) \/ pc' = "finish" \/ pc \notin {"resume", "start"}
      BY <1>8 DEF TasksStep, Block, Untracked, InterruptOne, Wait, ShutdownArrives, Finish, vars,
             tracer
    <2> QED BY <1>3, <2>1 DEF Loop
  <1> QED BY <1>4, <1>5, <1>6, <1>7, <1>8
          DEF Next, TracerStep, Outside, Terminated, Stopped, Handlers, Failing

(* The records of an attached process stay true: what a record newly says  *)
(* of a stop is so.                                                        *)
Renoted(u) ==
  \/ tracees'[u].inStop => tracees[u].inStop /\ tracees'[u].sig = tracees[u].sig
  \/ Halting(task[u]) /\ (At(task[u], "signal") => tracees'[u].sig = task[u].stop.sig)

LEMMA HandledNoted ==
  ASSUME Inv, Signalled, Mode = "attach", Handlers, NEW t \in Tids
  PROVE  Renoted(t)
  <1>1. pc = "handle" /\ cur.tid \in Tids /\ Elsewhere /\ HandsOn /\ Answers
    BY HandlersAnswer DEF Handlers
  <1>2. ~Fresh(TRUE).inStop /\ ~Absent.inStop BY DEF Fresh, Absent
  <1>3. CASE t # cur.tid BY <1>1, <1>2, <1>3 DEF Elsewhere, Renoted
  <1>4. ASSUME t = cur.tid, At(task[t], "signal") PROVE tracees'[t].sig = task[t].stop.sig
    <2>1. cur.stop = task[t].stop /\ cur.stop.kind = "signal"
      BY <1>1, <1>4 DEF Inv, Sound, Held, HeldTask, At
    <2>2. Proper(task[t]) BY DEF Signalled, AllProper
    <2>3. ~OwnStop(Tracee) BY <1>4, <2>1, <2>2 DEF OwnStop, Proper, Certain
    <2> QED BY <1>1, <1>4, <2>1, <2>3 DEF Answers
  <1>5. t = cur.tid => Halting(task[t]) BY <1>1 DEF Inv, Sound, Held, HeldTask, Halting, At
  <1> QED BY <1>3, <1>4, <1>5 DEF Renoted

LEMMA RestNoted ==
  ASSUME Inv, \/ Exited \/ Resume \/ RequestFails \/ ExitWriteFails \/ NoMemory
  PROVE  \A u \in Tids : Renoted(u)
  <1>1. TracerType /\ tracees \in [Tids -> TraceeSet] /\ Held
    BY DEF Inv, Sound, Typed, TracerType
  <1>2. ~Absent.inStop BY DEF Fresh, Absent
  <1>3. CASE tracees' = tracees BY <1>3 DEF Renoted
  <1>4. CASE Exited /\ tracees' = [tracees EXCEPT ![cur.tid] = Absent]
    BY <1>1, <1>2, <1>4 DEF Renoted
  <1>5. CASE Resume
    <2>1. cur.tid \in Tids /\ tracees' = [tracees EXCEPT ![cur.tid].inStop = FALSE, ![cur.tid].sig = 0]
      BY <1>1, <1>5 DEF Resume, TracerType
    <2>2. ~tracees'[cur.tid].inStop /\ \A u \in Tids \ {cur.tid} : tracees'[u] = tracees[u]
      BY <1>1, <2>1 DEF TraceeSet
    <2> QED BY <2>2 DEF Renoted
  <1>6. CASE ExitWriteFails /\ tracees' = [tracees EXCEPT ![cur.tid].inStop = FALSE]
    <2>1. cur.tid \in Tids
      BY <1>1, <1>6 DEF ExitWriteFails, Handling, TracerType
    <2>2. ~tracees'[cur.tid].inStop /\ \A u \in Tids \ {cur.tid} : tracees'[u] = tracees[u]
      BY <1>1, <1>6, <2>1 DEF TraceeSet
    <2> QED BY <2>2 DEF Renoted
  <1>7. CASE /\ RequestFails \/ (NoMemory /\ Handling({"fork"}) /\ InStop(cur.tid))
             /\ tracees' = [tracees EXCEPT ![cur.tid] = [Tracee EXCEPT !.inStop = TRUE]]
    <2>1. cur.tid \in Tids /\ HeldTask(task[cur.tid], cur.stop)
      BY <1>1, <1>7 DEF RequestFails, Handling, TracerType, Held
    <2>2. At(task[cur.tid], "signal") => cur.stop = task[cur.tid].stop
      BY <1>7, <2>1 DEF HeldTask, RequestFails, Handling, At
    <2>3. ~At(task[cur.tid], "signal") /\ Halting(task[cur.tid])
      BY <1>7, <2>1, <2>2 DEF HeldTask, RequestFails, Handling, Halting, At, InStop
    <2>4. \A u \in Tids \ {cur.tid} : tracees'[u] = tracees[u] BY <1>1, <1>7
    <2> QED BY <2>3, <2>4 DEF Renoted
  <1>8. CASE tracees' = [tracees EXCEPT ![cur.stop.msg] = Absent, ![cur.tid] = Absent]
    BY <1>1, <1>2, <1>8 DEF Renoted
  <1> QED BY <1>3, <1>4, <1>5, <1>6, <1>7, <1>8
          DEF Exited, RequestFails, ExitWriteFails, NoMemory

(* Nor does a handler that fails on its way note anything that is not so.  *)
LEMMA FailingNoted ==
  ASSUME Inv, Failing
  PROVE  \A u \in Tids : Renoted(u)
  <1>1. TracerType /\ tracees \in [Tids -> TraceeSet]
    BY DEF Inv, Sound, Typed, TracerType
  <1>2. /\ pc = "handle" /\ cur.tid \in Tids /\ InStop(cur.tid) /\ cur.stop.kind # "exited"
        /\ HeldTask(task[cur.tid], cur.stop)
    BY <1>1, FailingEnds DEF TracerType, Inv, Sound, Held
  <1>3. /\ Halting(task[cur.tid])
        /\ At(task[cur.tid], "signal") => /\ cur.stop = task[cur.tid].stop
                                          /\ cur.stop.kind = "signal"
    BY <1>2 DEF HeldTask, Halting, At, InStop
  <1>4. ~Fresh(TRUE).inStop /\ ~Absent.inStop BY DEF Fresh, Absent
  <1>5. ASSUME At(task[cur.tid], "signal") => tracees'[cur.tid].sig = task[cur.tid].stop.sig,
               \A u \in Tids \ {cur.tid} : tracees'[u] \in {tracees[u], Fresh(TRUE), Absent}
        PROVE  \A u \in Tids : Renoted(u)
    <2>1. Renoted(cur.tid) BY <1>3, <1>5 DEF Renoted
    <2>2. \A u \in Tids \ {cur.tid} : Renoted(u) BY <1>4, <1>5 DEF Renoted
    <2> QED BY <2>1, <2>2
  <1>6. CASE \E r : LeftPlain(r)
    <2>1. PICK r : LeftPlain(r) BY <1>6
    <2> DEFINE x == [r EXCEPT !.inStop = TRUE]
    <2>2. x.sig = r.sig BY <2>1 DEF LeftPlain, TraceeSet
    <2>3. tracees' = [tracees EXCEPT ![cur.tid] = x] BY <2>1 DEF LeftPlain
    <2>4. cur.stop.kind = "signal" => r.sig = cur.stop.sig BY <2>1 DEF LeftPlain
    <2> HIDE DEF x
    <2>5. tracees'[cur.tid] = x /\ \A u \in Tids \ {cur.tid} : tracees'[u] = tracees[u]
      BY <1>1, <1>2, <2>3
    <2> QED BY <1>3, <1>5, <2>2, <2>4, <2>5
  <1>7. CASE LeftForked
    <2> DEFINE x == [Tracee EXCEPT !.inStop = TRUE]
               tr == add_tracee(tracees, Now.msg)
    <2>1. tracees' = [tr EXCEPT ![cur.tid] = x] /\ cur.stop.kind = "fork"
      BY <1>7 DEF LeftForked
    <2>2. \A u \in Tids : tr[u] \in {tracees[u], Fresh(TRUE)} BY <1>1 DEF add_tracee
    <2>3. tr \in [Tids -> TraceeSet] BY <1>1, FreshType DEF add_tracee
    <2> HIDE DEF x, tr
    <2>4. \A u \in Tids \ {cur.tid} : tracees'[u] = tr[u] BY <1>2, <2>1, <2>3
    <2> QED BY <1>3, <1>5, <2>1, <2>2, <2>4
  <1>8. CASE \E r : LeftMigrated(r)
    <2>1. PICK r : LeftMigrated(r) BY <1>8
    <2> DEFINE x == [r EXCEPT !.inStop = TRUE]
               tr == Migrated(cur.stop.msg, cur.tid)
    <2>2. tracees' = [tr EXCEPT ![cur.tid] = x] /\ cur.stop.kind = "exec"
      BY <2>1 DEF LeftMigrated, AtExec, Handling
    <2>3. cur.stop.msg \in Tids BY <1>1, <1>2, <2>2 DEF TracerType
    <2>4. \A u \in Tids \ {cur.tid} : tr[u] \in {tracees[u], Absent}
      BY <1>1, <1>2, <2>3 DEF Migrated
    <2>5. tr \in [Tids -> TraceeSet] BY <1>1, <1>2, <2>3, MovedType
    <2> HIDE DEF x, tr
    <2>6. \A u \in Tids \ {cur.tid} : tracees'[u] = tr[u] BY <1>2, <2>2, <2>5
    <2> QED BY <1>3, <1>5, <2>2, <2>4, <2>6
  <1> QED BY <1>1, <1>6, <1>7, <1>8, FailingLeaves

LEMMA OnRecordNext ==
  ASSUME Inv, Marked, Released, Signalled, [Next]_vars, Attended, Mode = "attach"
  PROVE  OnRecord'
  <1>1. ASSUME NEW t \in Tids, Renoted(t), tracees'[t].inStop, At(task'[t], "signal")
        PROVE  tracees'[t].sig = task'[t].stop.sig
    <2>1. Halting(task[t]) BY <1>1 DEF Renoted, Marked
    <2>2. At(task[t], "signal") /\ task'[t].stop = task[t].stop
      BY <1>1, <2>1 DEF Attended, Minds, Halting
    <2> QED BY <1>1, <2>2 DEF Renoted, Signalled, Noted, OnRecord
  <1>2. \A u \in Tids : Renoted(u)
    <2>1. CASE tracees' = tracees BY <2>1 DEF Renoted
    <2>2. CASE Handlers BY <2>2, HandledNoted
    <2>3. CASE \/ Exited \/ Resume \/ RequestFails \/ ExitWriteFails \/ NoMemory \/ Failing
      BY <2>3, RestNoted, FailingNoted
    <2>4. ~StartLaunch BY DEF Released, StartLaunch
    <2>5. CASE \/ TasksStep \/ UNCHANGED vars \/ LoopEnds \/ Block \/ WaitFails \/ Untracked
               \/ ResumeTooLate \/ ListenFails \/ CleanUp \/ KillAll \/ AllReaped
               \/ InterruptRunning \/ DetachWaited \/ Detached
               \/ (\E t \in Tids : \/ InterruptOne(t) \/ Wait(t) \/ Reap(t) \/ DetachStopped(t)
                                   \/ DetachNext(t) \/ TracerGone(t))
               \/ \E s \in ShutdownSignals : ShutdownArrives(s)
      <3>1. tracees' = tracees
        BY <2>5 DEF TasksStep, LoopEnds, Block, WaitFails, Untracked, ResumeTooLate, ListenFails,
               CleanUp, KillAll, AllReaped, InterruptRunning, DetachWaited, Detached,
               InterruptOne, Wait, Reap, DetachStopped, DetachNext, TracerGone, ShutdownArrives,
               vars, tracer
      <3> QED BY <2>1, <3>1
    <2> QED BY <2>2, <2>3, <2>4, <2>5
            DEF Next, TracerStep, Outside, Terminated, Stopped, Handlers, Failing
  <1>3. \A t \in Tids : tracees'[t].inStop /\ At(task'[t], "signal") =>
                          tracees'[t].sig = task'[t].stop.sig
    BY <1>1, <1>2
  <1> QED BY <1>3 DEF OnRecord, At

(* While the loop runs it forgets no task but the dead. *)
LEMMA StraysNext ==
  ASSUME Inv, Marked, Released, Signalled, [Next]_vars, Mode = "attach",
         \/ Attentive
         \/ Resume /\ Resumed(cur.tid)
         \/ StartLaunch /\ Resumed(Root)
  PROVE  Strays'
  <1> SUFFICES ASSUME pc' \in Loop PROVE Strays' BY DEF Strays
  <1>1. /\ TracerType /\ tracees \in [Tids -> TraceeSet] /\ Held /\ pc \in Loop /\ Strays
        /\ \A u \in Tids : task'[u].how # "free"
    BY SoundNext, TableStays
       DEF Inv, Sound, Typed, TracerType, Signalled, Noted, NoneFree
  <1>2. \A u \in Tids : tracees[u].known => tracees'[u].known \/ ~Living(task'[u])
    <2>1. CASE tracees' = tracees BY <2>1
    <2>2. CASE Handlers
      <3>1. cur.tid \in Tids /\ Elsewhere /\ HandsOn /\ Answers
        BY <2>2, HandlersAnswer DEF Handlers, Loop
      <3> QED BY <3>1 DEF HandsOn, Elsewhere, Answers, Living
    <2>3. CASE Exited
      <3>1. /\ cur.tid \in Tids /\ task' = task /\ task[cur.tid].st = "gone"
            /\ tracees' = tracees \/ tracees' = [tracees EXCEPT ![cur.tid] = Absent]
        BY <1>1, <2>3 DEF Exited, Handling, TracerType, Held, HeldTask, kernel
      <3> QED BY <1>1, <3>1 DEF Living
    <2>4. CASE Resume
      <3>1. cur.tid \in Tids /\ tracees' = [tracees EXCEPT ![cur.tid].inStop = FALSE, ![cur.tid].sig = 0]
        BY <1>1, <2>4 DEF Resume, TracerType
      <3> QED BY <1>1, <3>1 DEF TraceeSet
    <2>5. ~StartLaunch BY DEF Released, StartLaunch
    <2>6. CASE \/ RequestFails \/ ExitWriteFails \/ Failing \/ NoMemory \/ LoopEnds
               \/ WaitFails \/ ListenFails \/ CleanUp \/ KillAll \/ AllReaped \/ InterruptRunning \/ DetachWaited \/ Detached
               \/ \E t \in Tids : Reap(t) \/ DetachStopped(t) \/ DetachNext(t) \/ TracerGone(t)
      BY <1>1, <2>6, FailingEnds
         DEF RequestFails, ExitWriteFails, NoMemory, LoopEnds, WaitFails, ListenFails,
             CleanUp, KillAll, AllReaped, InterruptRunning, DetachWaited, Detached, Reap,
             DetachStopped, DetachNext, TracerGone, Finish, Loop
    <2>7. CASE \/ TasksStep \/ UNCHANGED vars \/ Block \/ Untracked \/ ResumeTooLate
               \/ (\E t \in Tids : InterruptOne(t) \/ Wait(t))
               \/ \E s \in ShutdownSignals : ShutdownArrives(s)
      <3>1. tracees' = tracees
        BY <2>7 DEF TasksStep, Block, Untracked, ResumeTooLate, InterruptOne, Wait,
               ShutdownArrives, vars, tracer
      <3> QED BY <2>1, <3>1
    <2> QED BY <2>2, <2>3, <2>4, <2>5, <2>6, <2>7
            DEF Next, TracerStep, Outside, Terminated, Stopped, Handlers, Failing
  <1>3. ASSUME NEW u \in Tids, Living(task'[u]), ~tracees'[u].known
        PROVE  Stray(task'[u])
    <2>1. ~tracees[u].known BY <1>2, <1>3
    <2>2. Resume => u # cur.tid BY <2>1 DEF Resume, Signalled, Meant
    <2>3. ~StartLaunch BY DEF Released, StartLaunch
    <2>4. Heeds(task[u], task'[u]) BY <2>2, <2>3 DEF Attentive, Resumed
    <2> QED BY <1>1, <1>3, <2>1, <2>4 DEF Heeds, Strays
  <1>4. \A t \in Tids : Living(task'[t]) /\ ~tracees'[t].known => Stray(task'[t]) BY <1>3
  <1> QED BY <1>4 DEF Strays, Living, Stray, At

LEMMA SignallingNext ==
  ASSUME Inv, Marked, Released, Signalling, [Next]_vars
  PROVE  Signalling'
  <1>1. OwnStopCertain' <=> OwnStopCertain
    BY ConfigStays DEF OwnStopCertain, Mode, Follow, Signals
  <1> SUFFICES ASSUME OwnStopCertain, Signalled PROVE Signalled' BY <1>1 DEF Signalling
  <1>2. Mode' = Mode /\ Follow' = Follow BY ConfigStays
  <1>3. faults' = {} /\ \/ Attentive
                        \/ Resume /\ Resumed(cur.tid)
                        \/ StartLaunch /\ Resumed(Root)
    BY EveryStepHeeds
  <1>4. Attended BY <1>3 DEF Attended, Attentive, Resumed, Heeds
  <1>5. AllProper'
    <2>1. \A t \in Tids : Proper(task'[t]) BY <1>4 DEF Attended, Minds
    <2> QED BY <1>2, <2>1 DEF AllProper, Proper, At, Newborns, Certain
  <1>6. Noted' BY <1>2, <1>3, <1>4, OnRecordNext, StraysNext DEF Noted
  <1> QED BY <1>3, <1>4, <1>5, <1>6, ExpectedNext, MeantNext, CoursesNext DEF Signalled

(* Where it is certain which SIGSTOP is ptrace's own, every signal that is *)
(* sent to the program reaches it with the resumption or the detachment of *)
(* the stop it caused, and no SIGSTOP of ptrace's is passed on: through    *)
(* forks and clones whose children stop before or after their parent's     *)
(* event, threads that exec, group stops, and the cleanup.                 *)
THEOREM SignalsKept == Spec => []SignalsPreserved
  <1> DEFINE I == Marked /\ Released /\ Signalling
  <1>1. Init => I BY MarkedInit, ReleasedInit, SignallingInit
  <1>2. Inv /\ I /\ [Next]_vars => I' BY MarkedNext, ReleasedNext, SignallingNext DEF Inv
  <1>3. I => SignalsPreserved BY DEF Signalling, Signalled, SignalsPreserved
  <1> QED BY <1>1, <1>2, <1>3, AlwaysInStep, PTL DEF Spec

=============================================================================
