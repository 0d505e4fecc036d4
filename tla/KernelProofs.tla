---------------------------- MODULE KernelProofs ----------------------------
(***************************************************************************)
(* What the steps of the tasks and the tracer's ptrace requests do to the  *)
(* task records, for every program, number of tasks and sequence of        *)
(* signals that PtraceKernel admits.                                       *)
(*                                                                         *)
(* Every task record is one the kernel can be in (GoodTask), and whatever a*)
(* task or the tracer does, a record changes in one of a few ways (Plain,  *)
(* GoesOn, Reported, TakenOver): an invariant is shown once for each.      *)
(***************************************************************************)
EXTENDS Tracer, WellFoundedInduction, TLAPS

States   == {"none", "user", "sys", "spawned", "ret", "exec", "stop", "listen",
             "zombie", "gone"}

Kinds    == {"none", "entry", "seccomp", "exit", "fork", "exec", "event_stop",
             "group_stop", "signal"}

Vals     == {"none", "auto", "ok", "err", "restart"}

CallSet  == {NoCall} \cup [id : Ids, nr : Calls \cup {"rt_sigreturn", "restart_syscall"}]

StopSet  == [kind : Kinds, sig : Nat, msg : Int, val : Vals]

EventSet == [kind : Kinds \cup {"exited"}, sig : Nat, msg : Int, val : Vals]

(* What is entered again is never the end of a signal handler. *)
AgainSet == {c \in CallSet : c.nr # "rt_sigreturn"}

FrameSet == [sig : Nat, rst : AgainSet]

TaskSet == [st : States, tg : Tids \cup {0}, how : {"CONT", "SYSCALL", "free"},
            call : CallSet, rst : AgainSet, again : AgainSet, frames : Seq(FrameSet),
            sigs : SUBSET (Nat \ {0}), auto : BOOLEAN, gst : Nat, trap : BOOLEAN,
            stop : StopSet, seen : BOOLEAN, child : Tids \cup {0},
            execd : BOOLEAN, code : Int]

(* A task record with its fields in agreement: a task inside a call has    *)
(* one, and the events of forks and execs name a task.                     *)
At(r, kind) == r.st = "stop" /\ r.stop.kind = kind

CallAgrees(r) ==
  /\ \/ r.st \in {"sys", "spawned", "ret", "exec"}
     \/ r.st = "stop" /\ r.stop.kind \in {"entry", "seccomp", "exit", "fork", "exec"}
     => r.call # NoCall
  /\ r.st = "spawned" \/ At(r, "fork") => r.call.nr \in Forks
  /\ r.st = "exec" \/ At(r, "exec") => r.call.nr = "execve"
  /\ r.st = "ret" => r.call.nr \in Forks \cup {"execve"}
  /\ (r.st = "sys" \/ At(r, "entry") \/ At(r, "seccomp")) /\ r.call.nr = "rt_sigreturn"
     => r.frames # << >>

StopAgrees(r) ==
  /\ At(r, "exit") => r.stop.val \in {"ok", "err", "restart"}
  /\ At(r, "fork") \/ At(r, "exec") => r.stop.msg \in Tids
  /\ r.st = "spawned" => r.child \in Tids

GoodTask(r) ==
  /\ r \in TaskSet
  /\ r.st = "none" => r = NoTask
  /\ r.st # "none" => r.tg \in Tids
  /\ CallAgrees(r) /\ StopAgrees(r)

-----------------------------------------------------------------------------
(* Every non-empty set of naturals has a least element. *)
LEMMA LeastElement ==
  ASSUME NEW K \in SUBSET Nat, K # {}
  PROVE  \E m \in K : \A j \in K : m <= j
<1> DEFINE R == OpToRel(<, Nat)
<1>1. IsWellFoundedOn(R, Nat)
  BY NatLessThanWellFounded
<1>2. PICK m \in K : \A j \in K : <<j, m>> \notin R
  <2> HIDE DEF R
  <2> QED BY <1>1, WFMin
<1>3. \A j \in K : ~(j < m)
  BY <1>2 DEF OpToRel
<1> QED BY <1>3

LEMMA NoCallType == NoCall \in CallSet
  BY DEF CallSet

LEMMA NoCallAgain == NoCall \in AgainSet
  BY NoCallType DEF AgainSet, NoCall

LEMMA NoStopType == NoStop \in StopSet
  BY DEF StopSet, NoStop, Kinds, Vals

LEMMA StopIsEvent ==
  ASSUME NEW s \in StopSet
  PROVE  s \in EventSet /\ s.kind # "exited"
  BY DEF StopSet, EventSet, Kinds

LEMMA NoTaskGood == GoodTask(NoTask)
  <1>1. << >> \in Seq(FrameSet) OBVIOUS
  <1>2. NoTask \in TaskSet
    BY <1>1, NoCallType, NoCallAgain, NoStopType DEF NoTask, TaskSet, States
  <1> QED BY <1>2 DEF GoodTask, CallAgrees, StopAgrees, At, NoTask, NoStop

(* The record PTRACE_DETACH goes on with. *)
SameButGroup(r, d, g) ==
  /\ d.st = r.st /\ d.tg = r.tg /\ d.stop = r.stop /\ d.execd = r.execd
  /\ d.sigs = r.sigs /\ d.auto = r.auto /\ d.frames = r.frames
  /\ d.gst = g /\ ~d.trap

LEMMA DetachRecord ==
  ASSUME NEW r \in TaskSet, NEW g \in Nat
  PROVE  /\ [r EXCEPT !.trap = FALSE, !.gst = g] \in TaskSet
         /\ SameButGroup(r, [r EXCEPT !.trap = FALSE, !.gst = g], g)
  BY DEF TaskSet, SameButGroup

(* h is r put into a stop that waitpid has not reported. *)
Halted(r, h, kind, msg, val) ==
  /\ GoodTask(h) /\ h.st = "stop" /\ ~h.seen
  /\ h.stop.kind = kind /\ h.stop.msg = msg /\ h.stop.val = val
  /\ h.tg = r.tg /\ h.how = r.how /\ h.call = r.call

LEMMA HaltGood ==
  ASSUME NEW r \in TaskSet, r.tg \in Tids,
         NEW kind \in Kinds, NEW sig \in Nat, NEW msg \in Int, NEW val \in Vals,
         kind \in {"entry", "seccomp", "exit", "fork", "exec"} => r.call # NoCall,
         kind \in {"entry", "seccomp"} /\ r.call.nr = "rt_sigreturn" => r.frames # << >>,
         kind = "exit" => val \in {"ok", "err", "restart"},
         kind \in {"fork", "exec"} => msg \in Tids,
         kind = "fork" => r.call.nr \in Forks,
         kind = "exec" => r.call.nr = "execve",
         NEW h, h = Halt(r, kind, sig, msg, val)
  PROVE  Halted(r, h, kind, msg, val)
  <1>1. [kind |-> kind, sig |-> sig, msg |-> msg, val |-> val] \in StopSet BY DEF StopSet
  <1>2. h \in TaskSet BY <1>1 DEF Halt, TaskSet, States
  <1>3. /\ h.st = "stop" /\ ~h.seen
        /\ h.stop = [kind |-> kind, sig |-> sig, msg |-> msg, val |-> val]
        /\ h.tg = r.tg /\ h.how = r.how /\ h.call = r.call /\ h.frames = r.frames
    BY DEF Halt, TaskSet
  <1> QED BY <1>2, <1>3 DEF Halted, GoodTask, CallAgrees, StopAgrees, At

LEMMA DeadGood ==
  ASSUME NEW r \in TaskSet, r.tg \in Tids, NEW code \in Int, NEW d, d = Dead(r, code)
  PROVE  GoodTask(d) /\ d.st = "zombie" /\ d.tg = r.tg /\ d.how = r.how /\ d.code = code
  <1>1. NoTask \in TaskSet BY NoTaskGood DEF GoodTask
  <1>2. d \in TaskSet BY <1>1 DEF Dead, TaskSet, States
  <1>3. d.st = "zombie" /\ d.tg = r.tg /\ d.how = r.how /\ d.code = code
    BY <1>1 DEF Dead, TaskSet
  <1> QED BY <1>2, <1>3 DEF GoodTask, CallAgrees, StopAgrees, At

LEMMA InSyscallRecord ==
  ASSUME NEW x \in TaskSet
  PROVE  LET e == InSyscall(x)
         IN  /\ e \in TaskSet /\ e.st = "sys" /\ e.tg = x.tg /\ e.how = x.how
             /\ e.call = x.call /\ e.frames = x.frames
  <1> DEFINE s == "sys"
             n == NoStop
             e == [x EXCEPT !.st = s, !.stop = n]
  <1>1. s \in States /\ n \in StopSet BY NoStopType DEF States
  <1>2. e = InSyscall(x) BY DEF InSyscall
  <1>3. s = "sys" OBVIOUS
  <1> HIDE DEF s, n
  <1>4. e \in TaskSet BY <1>1 DEF TaskSet
  <1>5. /\ e.st = s /\ e.tg = x.tg /\ e.how = x.how /\ e.call = x.call
        /\ e.frames = x.frames
    BY DEF TaskSet
  <1> HIDE DEF e
  <1> QED BY <1>2, <1>3, <1>4, <1>5

(* The stops on the way into a call. *)
LEMMA EnteringHalts ==
  ASSUME NEW x \in TaskSet, x.tg \in Tids, x.call # NoCall,
         x.call.nr = "rt_sigreturn" => x.frames # << >>,
         NEW kind \in {"entry", "seccomp"}, NEW h, h = Halt(x, kind, 0, 0, "none")
  PROVE  Halted(x, h, kind, 0, "none")
  <1>1. kind \in Kinds /\ "none" \in Vals BY DEF Kinds, Vals
  <1>2. 0 \in Nat /\ 0 \in Int OBVIOUS
  <1>3. kind \notin {"exit", "fork", "exec"} OBVIOUS
  <1> QED BY <1>1, <1>2, <1>3, HaltGood, SMTT(30)

LEMMA EnterGood ==
  ASSUME NEW r \in TaskSet, r.tg \in Tids, NEW c \in CallSet \ {NoCall},
         c.nr = "rt_sigreturn" => r.frames # << >>,
         NEW e, e = Enter(r, c)
  PROVE  /\ GoodTask(e) /\ e.tg = r.tg /\ e.how = r.how /\ e.call = c
         /\ \/ r.how = "SYSCALL" /\ At(e, "entry") /\ ~e.seen
            \/ r.how # "SYSCALL" /\ Seccomp /\ At(e, "seccomp") /\ ~e.seen
            \/ r.how # "SYSCALL" /\ e.st = "sys"
  <1> DEFINE x == [r EXCEPT !.call = c]
  <1>1. x \in TaskSet /\ x.tg = r.tg /\ x.how = r.how /\ x.call = c
        /\ x.frames = r.frames
    BY DEF TaskSet
  <1>5. x.tg \in Tids /\ x.call # NoCall /\ (x.call.nr = "rt_sigreturn" => x.frames # << >>)
    BY <1>1
  <1> HIDE DEF x
  <1>2. CASE r.how = "SYSCALL"
    <2>1. e = Halt(x, "entry", 0, 0, "none") BY <1>2 DEF Enter, x
    <2>3. Halted(x, e, "entry", 0, "none") BY <1>1, <1>5, <2>1, EnteringHalts
    <2> QED BY <1>1, <1>2, <2>3 DEF Halted, At
  <1>3. CASE r.how # "SYSCALL" /\ Filtered(c.nr)
    <2>1. e = Halt(x, "seccomp", 0, 0, "none") BY <1>3 DEF Enter, x
    <2>3. Halted(x, e, "seccomp", 0, "none") BY <1>1, <1>5, <2>1, EnteringHalts
    <2> QED BY <1>1, <1>3, <2>3 DEF Halted, At, Filtered
  <1>4. CASE r.how # "SYSCALL" /\ ~Filtered(c.nr)
    <2>1. e = InSyscall(x) BY <1>4 DEF Enter, x
    <2>2. e \in TaskSet /\ e.st = "sys" /\ e.tg = x.tg /\ e.how = x.how
          /\ e.call = x.call /\ e.frames = x.frames
      BY <1>1, <2>1, InSyscallRecord
    <2> QED BY <1>1, <1>4, <2>2 DEF GoodTask, CallAgrees, StopAgrees, At
  <1> QED BY <1>2, <1>3, <1>4

LEMMA LeaveGood ==
  ASSUME NEW r \in TaskSet, r.tg \in Tids, r.call # NoCall,
         NEW val \in {"ok", "err", "restart"}, NEW e, e = Leave(r, val)
  PROVE  /\ GoodTask(e) /\ e.tg = r.tg /\ e.how = r.how
         /\ \/ r.how = "SYSCALL" /\ At(e, "exit") /\ e.stop.val = val /\ ~e.seen /\ e.call = r.call
            \/ r.how # "SYSCALL" /\ e.st = "user" /\ e.call = NoCall
  <1> DEFINE x == [r EXCEPT !.st = "user"]
  <1>1. x \in TaskSet /\ x.tg = r.tg /\ x.how = r.how /\ x.call = r.call /\ x.st = "user"
    BY DEF TaskSet, States
  <1> HIDE DEF x
  <1>2. CASE r.how = "SYSCALL"
    <2>1. e = Halt(x, "exit", 0, 0, val) BY <1>2 DEF Leave, x
    <2>2. "exit" \in Kinds /\ val \in Vals BY DEF Kinds, Vals
    <2>3. Halted(x, e, "exit", 0, val) BY <1>1, <2>1, <2>2, HaltGood
    <2> QED BY <1>1, <1>2, <2>3 DEF Halted, At
  <1>3. CASE r.how # "SYSCALL"
    <2>1. e = [x EXCEPT !.call = NoCall] BY <1>3 DEF Leave, x
    <2>2. e \in TaskSet /\ e.st = "user" /\ e.tg = x.tg /\ e.how = x.how /\ e.call = NoCall
      BY <1>1, <2>1, NoCallType DEF TaskSet
    <2> QED BY <1>1, <1>3, <2>2 DEF GoodTask, CallAgrees, StopAgrees, At
  <1> QED BY <1>2, <1>3

(* The event stop of a task that the tracer may have let go. *)
Announced(r, e, kind, msg) ==
  /\ GoodTask(e) /\ e.tg = r.tg /\ e.how = r.how /\ e.call = r.call
  /\ \/ r.how # "free" /\ e.st = "stop" /\ e.stop.kind = kind /\ e.stop.msg = msg /\ ~e.seen
     \/ r.how = "free" /\ e.st = "ret"

LEMMA EventGood ==
  ASSUME NEW r \in TaskSet, r.tg \in Tids, r.call # NoCall,
         NEW kind \in {"fork", "exec"}, NEW msg \in Tids,
         r.call.nr \in IF kind = "fork" THEN Forks ELSE {"execve"}
  PROVE  Announced(r, Event(r, kind, msg), kind, msg)
  <1> DEFINE e == Event(r, kind, msg)
  <1>1. CASE r.how = "free"
    <2>1. e = [r EXCEPT !.st = "ret"] BY <1>1 DEF Event
    <2>2. e \in TaskSet /\ e.st = "ret" /\ e.tg = r.tg /\ e.how = r.how /\ e.call = r.call
      BY <2>1 DEF TaskSet, States
    <2> HIDE DEF e
    <2>3. Announced(r, e, kind, msg)
      BY <1>1, <2>2 DEF Announced, GoodTask, CallAgrees, StopAgrees, At
    <2> QED BY <2>3 DEF e
  <1>2. CASE r.how # "free"
    <2>1. e = Halt(r, kind, SIGTRAP, msg, "none") BY <1>2 DEF Event
    <2>2. kind \in Kinds /\ SIGTRAP \in Nat /\ msg \in Int /\ "none" \in Vals
      BY KernelAssumption DEF Kinds, Vals, SIGTRAP
    <2>3. Halted(r, e, kind, msg, "none") BY <2>1, <2>2, HaltGood
    <2> HIDE DEF e
    <2>4. Announced(r, e, kind, msg) BY <1>2, <2>3 DEF Halted, Announced
    <2> QED BY <2>4 DEF e
  <1> QED BY <1>1, <1>2

-----------------------------------------------------------------------------
(* What one step does to the record of a task that neither is born nor     *)
(* takes part in an execve's end.                                          *)
Living(r) == r.st \notin {"none", "zombie", "gone"}

Stays(r, s) ==
  /\ Living(r) /\ s.tg = r.tg /\ s.how = r.how /\ s.call = r.call
  /\ \/ s.st = r.st /\ s.stop = r.stop /\ s.seen = r.seen /\ s.child = r.child
     \/ r.st = "listen" /\ s.st = "user"

Dies(r, s) == Living(r) /\ s.st = "zombie" /\ s.tg = r.tg /\ s.how = r.how

Moves(r, s) ==
  /\ Living(r) /\ s.tg = r.tg /\ s.how = r.how
  /\ \/ r.st = "user" /\ r.how = "SYSCALL" /\ At(s, "entry") /\ ~s.seen
     \/ r.st = "user" /\ r.how # "SYSCALL" /\ s.st = "sys"
     \/ r.st = "user" /\ r.how # "SYSCALL" /\ Seccomp /\ At(s, "seccomp") /\ ~s.seen
     \/ /\ r.st \in {"sys", "ret"} /\ r.how = "SYSCALL" /\ At(s, "exit") /\ ~s.seen
        /\ s.call = r.call /\ (r.st = "ret" => s.stop.val = "ok")
     \/ r.st \in {"sys", "ret"} /\ r.how # "SYSCALL" /\ s.st = "user"
     \/ /\ r.st = "spawned" /\ r.how # "free" /\ At(s, "fork") /\ ~s.seen
        /\ s.stop.msg = r.child /\ s.call = r.call
     \/ r.st = "spawned" /\ r.how = "free" /\ s.st = "ret" /\ s.call = r.call
     \/ r.st = "sys" /\ s.st = "exec" /\ s.call = r.call
     \/ /\ r.st = "user" /\ r.how # "free" /\ s.st = "stop" /\ ~s.seen
        /\ s.stop.kind \in {"signal", "event_stop", "group_stop"}
     \/ r.st = "user" /\ r.how = "free" /\ s.st \in {"user", "listen"}

Plain(r, s) == s = r \/ Stays(r, s) \/ Dies(r, s) \/ Moves(r, s)

GoodTasks == task \in [Tids -> TaskSet] /\ \A u \in Tids : GoodTask(task[u])

Everyone(f) ==
  /\ f \in [Tids -> TaskSet]
  /\ \A u \in Tids : GoodTask(f[u]) /\ Plain(task[u], f[u])

(* What the steps of the tasks rest on. *)
KernelBase ==
  /\ config \in Configs /\ GoodTasks
  /\ made \in Seq(Calls \cup {"rt_sigreturn"})

LEMMA OneMoves ==
  ASSUME GoodTasks, NEW t \in Tids, NEW s, GoodTask(s), Plain(task[t], s)
  PROVE  Everyone([task EXCEPT ![t] = s])
  BY DEF GoodTasks, Everyone, Plain, GoodTask

LEMMA KillGroupEffect ==
  ASSUME GoodTasks, NEW g, NEW code \in Int
  PROVE  Everyone(KillGroup(g, code))
  <1> DEFINE f == KillGroup(g, code)
  <1>1. SUFFICES ASSUME NEW u \in Tids
                 PROVE  GoodTask(f[u]) /\ Plain(task[u], f[u])
    BY DEF Everyone, KillGroup, GoodTask
  <1>2. CASE Alive(u) /\ task[u].tg = g
    <2>1. f[u] = Dead(task[u], code) BY <1>2 DEF KillGroup
    <2>2. task[u] \in TaskSet /\ task[u].tg \in Tids BY <1>2 DEF GoodTasks, GoodTask, Alive
    <2>3. GoodTask(f[u]) /\ f[u].st = "zombie" /\ f[u].tg = task[u].tg /\ f[u].how = task[u].how
      BY <2>1, <2>2, DeadGood
    <2> QED BY <1>2, <2>3 DEF Plain, Dies, Living, Alive
  <1>3. CASE ~(Alive(u) /\ task[u].tg = g)
    BY <1>3 DEF KillGroup, GoodTasks, Plain
  <1> QED BY <1>2, <1>3

LEMMA EnterSyscallEffect ==
  ASSUME KernelBase, NEW t \in Tids, NEW nr \in Calls \cup {"rt_sigreturn"},
         EnterSyscall(t, nr)
  PROVE  Everyone(task') /\ made' \in Seq(Calls \cup {"rt_sigreturn"})
  <1> DEFINE r == task[t]
             c == [id |-> Len(made'), nr |-> nr]
             s == Enter(r, c)
  <1>1. made' \in Seq(Calls \cup {"rt_sigreturn"}) /\ Len(made') \in Ids
    BY KernelAssumption DEF EnterSyscall, KernelBase, Ids
  <1>2. c \in CallSet \ {NoCall} BY <1>1 DEF CallSet, NoCall, Ids
  <1>3. r \in TaskSet /\ r.tg \in Tids /\ r.st = "user"
    BY DEF EnterSyscall, InUserMode, KernelBase, GoodTasks, GoodTask
  <1>4. c.nr = "rt_sigreturn" => r.frames # << >>
    BY KernelAssumption DEF EnterSyscall, KernelBase, Calls
  <1>5. task' = [task EXCEPT ![t] = s] BY DEF EnterSyscall
  <1> HIDE DEF r, c, s
  <1>6. /\ GoodTask(s) /\ s.tg = r.tg /\ s.how = r.how
        /\ \/ r.how = "SYSCALL" /\ At(s, "entry") /\ ~s.seen
           \/ r.how # "SYSCALL" /\ Seccomp /\ At(s, "seccomp") /\ ~s.seen
           \/ r.how # "SYSCALL" /\ s.st = "sys"
    BY <1>2, <1>3, <1>4, EnterGood DEF s
  <1>7. Plain(r, s) BY <1>3, <1>6 DEF Plain, Moves, Living
  <1> QED BY <1>1, <1>5, <1>6, <1>7, OneMoves DEF KernelBase, r

LEMMA DecideRestartEffect ==
  ASSUME KernelBase, NEW t \in Tids, DecideRestart(t)
  PROVE  Everyone(task')
  <1> DEFINE r == task[t]
             a == [r.rst EXCEPT !.nr = IF @ = "nanosleep" THEN "restart_syscall" ELSE @]
             s == [r EXCEPT !.rst = NoCall, !.again = a]
  <1>1. GoodTask(r) /\ r.st = "user" /\ r.rst # NoCall
    BY DEF DecideRestart, InUserMode, KernelBase, GoodTasks
  <1>2. task' = [task EXCEPT ![t] = s]
    BY <1>1 DEF DecideRestart, GoodTask, TaskSet, KernelBase, GoodTasks
  <1>3. r.rst \in CallSet \ {NoCall} /\ r.rst.nr # "rt_sigreturn"
    BY <1>1 DEF GoodTask, TaskSet, AgainSet
  <1> HIDE DEF r
  <1>4. a \in AgainSet BY <1>3 DEF AgainSet, CallSet
  <1> HIDE DEF a
  <1>5. /\ s \in TaskSet /\ s.st = r.st /\ s.tg = r.tg /\ s.how = r.how /\ s.call = r.call
        /\ s.stop = r.stop /\ s.seen = r.seen /\ s.child = r.child
    BY <1>1, <1>4, NoCallAgain DEF GoodTask, TaskSet
  <1> HIDE DEF s
  <1>6. GoodTask(s) /\ Plain(r, s)
    BY <1>1, <1>5 DEF GoodTask, CallAgrees, StopAgrees, At, Plain, Stays, Living
  <1> QED BY <1>2, <1>6, OneMoves DEF KernelBase, r

LEMMA RestartEffect ==
  ASSUME KernelBase, NEW t \in Tids, Restart(t)
  PROVE  Everyone(task')
  <1> DEFINE r == task[t]
             x == [r EXCEPT !.again = NoCall]
             s == Enter(x, r.again)
  <1>1. GoodTask(r) /\ r.st = "user" /\ r.again # NoCall
    BY DEF Restart, InUserMode, KernelBase, GoodTasks
  <1>2. task' = [task EXCEPT ![t] = s] BY DEF Restart
  <1>3. r.again \in CallSet \ {NoCall} /\ r.again.nr # "rt_sigreturn" /\ r.tg \in Tids
    BY <1>1 DEF GoodTask, TaskSet, AgainSet
  <1> HIDE DEF r
  <1>4. x \in TaskSet /\ x.tg = r.tg /\ x.how = r.how
    BY <1>1, NoCallAgain DEF GoodTask, TaskSet
  <1> HIDE DEF x
  <1>5. /\ GoodTask(s) /\ s.tg = x.tg /\ s.how = x.how
        /\ \/ x.how = "SYSCALL" /\ At(s, "entry") /\ ~s.seen
           \/ x.how # "SYSCALL" /\ Seccomp /\ At(s, "seccomp") /\ ~s.seen
           \/ x.how # "SYSCALL" /\ s.st = "sys"
    BY <1>3, <1>4, EnterGood
  <1> HIDE DEF s
  <1>6. Plain(r, s) BY <1>1, <1>4, <1>5 DEF Plain, Moves, Living
  <1> QED BY <1>2, <1>5, <1>6, OneMoves DEF KernelBase, r

(* A call of t ends with val: record x is r before, but for fields that do *)
(* not matter.                                                             *)
LEMMA LeaveEffect ==
  ASSUME GoodTasks, NEW t \in Tids, NEW x \in TaskSet, NEW val \in {"ok", "err", "restart"},
         task[t].st \in {"sys", "ret"},
         x.tg = task[t].tg, x.how = task[t].how, x.call = task[t].call,
         task[t].st = "ret" => val = "ok"
  PROVE  Everyone([task EXCEPT ![t] = Leave(x, val)])
  <1> DEFINE r == task[t]
             s == Leave(x, val)
  <1>1. GoodTask(r) BY DEF GoodTasks
  <1>2. x.tg \in Tids /\ x.call # NoCall BY <1>1 DEF GoodTask, CallAgrees
  <1> HIDE DEF r
  <1>3. /\ GoodTask(s) /\ s.tg = x.tg /\ s.how = x.how
        /\ \/ x.how = "SYSCALL" /\ At(s, "exit") /\ s.stop.val = val /\ ~s.seen /\ s.call = x.call
           \/ x.how # "SYSCALL" /\ s.st = "user" /\ s.call = NoCall
    BY <1>2, LeaveGood
  <1> HIDE DEF s
  <1>4. Plain(r, s) BY <1>1, <1>3 DEF Plain, Moves, Living, r
  <1> QED BY <1>3, <1>4, OneMoves DEF r, s

LEMMA ReturnEffect ==
  ASSUME KernelBase, NEW t \in Tids, NEW val \in {"ok", "err"}, Return(t, val)
  PROVE  Everyone(task')
  <1>1. task[t] \in TaskSet /\ task[t].st = "sys" BY DEF Return, KernelBase, GoodTasks
  <1>2. Everyone([task EXCEPT ![t] = Leave(task[t], val)])
    BY <1>1, LeaveEffect DEF Return, KernelBase
  <1> QED BY <1>2 DEF Return

LEMMA SigreturnEffect ==
  ASSUME KernelBase, NEW t \in Tids, Sigreturn(t)
  PROVE  Everyone(task')
  <1> DEFINE r == task[t]
             x == [r EXCEPT !.again = Head(r.frames).rst, !.frames = Tail(r.frames)]
  <1>1. GoodTask(r) /\ r.st = "sys" /\ r.call.nr = "rt_sigreturn"
    BY DEF Sigreturn, KernelBase, GoodTasks
  <1>2. r.frames \in Seq(FrameSet) /\ r.frames # << >> BY <1>1 DEF GoodTask, TaskSet, CallAgrees
  <1>3. Head(r.frames) \in FrameSet /\ Tail(r.frames) \in Seq(FrameSet) BY <1>2
  <1>4. x \in TaskSet /\ x.tg = r.tg /\ x.how = r.how /\ x.call = r.call
    BY <1>1, <1>3 DEF GoodTask, TaskSet, FrameSet
  <1>5. task' = [task EXCEPT ![t] = Leave(x, "ok")] BY DEF Sigreturn
  <1> HIDE DEF x
  <1>6. Everyone([task EXCEPT ![t] = Leave(x, "ok")])
    BY <1>1, <1>4, LeaveEffect DEF KernelBase
  <1> QED BY <1>5, <1>6

LEMMA InterruptedEffect ==
  ASSUME KernelBase, NEW t \in Tids, Interrupted(t)
  PROVE  Everyone(task')
  <1> DEFINE r == task[t]
             x == [r EXCEPT !.rst = r.call]
  <1>1. GoodTask(r) /\ r.st = "sys" /\ r.call.nr # "rt_sigreturn"
    BY DEF Interrupted, KernelBase, GoodTasks, Interruptible, Forks
  <1>2. r.call \in AgainSet BY <1>1 DEF GoodTask, TaskSet, AgainSet
  <1>4. x \in TaskSet /\ x.tg = r.tg /\ x.how = r.how /\ x.call = r.call
    BY <1>1, <1>2 DEF GoodTask, TaskSet
  <1>5. task' = [task EXCEPT ![t] = Leave(x, "restart")] BY DEF Interrupted
  <1> HIDE DEF x
  <1>6. Everyone([task EXCEPT ![t] = Leave(x, "restart")])
    BY <1>1, <1>4, LeaveEffect DEF KernelBase
  <1> QED BY <1>5, <1>6

LEMMA ForkEventEffect ==
  ASSUME KernelBase, NEW t \in Tids, ForkEvent(t)
  PROVE  Everyone(task')
  <1> DEFINE r == task[t]
             s == Event(r, "fork", r.child)
  <1>1. GoodTask(r) /\ r.st = "spawned" /\ task' = [task EXCEPT ![t] = s]
    BY DEF ForkEvent, KernelBase, GoodTasks
  <1>2. r \in TaskSet /\ r.tg \in Tids /\ r.call # NoCall /\ r.child \in Tids /\ r.call.nr \in Forks
    BY <1>1 DEF GoodTask, CallAgrees, StopAgrees
  <1> HIDE DEF r
  <1>3. "fork" \in {"fork", "exec"} OBVIOUS
  <1>4. Announced(r, s, "fork", r.child) BY <1>2, <1>3, EventGood
  <1> HIDE DEF s
  <1>5. GoodTask(s) /\ Plain(r, s) BY <1>1, <1>4 DEF Announced, Plain, Moves, Living, At
  <1> QED BY <1>1, <1>5, OneMoves DEF KernelBase, r

LEMMA CompleteEffect ==
  ASSUME KernelBase, NEW t \in Tids, Complete(t)
  PROVE  Everyone(task')
  <1> DEFINE r == task[t]
             x == [r EXCEPT !.child = 0]
  <1>1. r \in TaskSet /\ r.st = "ret"
    BY DEF Complete, KernelBase, GoodTasks
  <1>4. x \in TaskSet /\ x.tg = r.tg /\ x.how = r.how /\ x.call = r.call
    BY <1>1 DEF TaskSet
  <1>5. task' = [task EXCEPT ![t] = Leave(x, "ok")] BY DEF Complete
  <1> HIDE DEF x
  <1>6. Everyone([task EXCEPT ![t] = Leave(x, "ok")])
    BY <1>1, <1>4, LeaveEffect DEF KernelBase
  <1> QED BY <1>5, <1>6

LEMMA ExecBeginEffect ==
  ASSUME KernelBase, NEW t \in Tids, ExecBegin(t)
  PROVE  Everyone(task')
  <1> DEFINE f == KillGroup(task[t].tg, 0)
             s == [task[t] EXCEPT !.st = "exec"]
  <1>1. Everyone(f) BY KillGroupEffect DEF KernelBase
  <1>2. GoodTask(task[t]) /\ task[t].st = "sys" /\ task[t].call.nr = "execve"
    BY DEF ExecBegin, KernelBase, GoodTasks
  <1>3. /\ s \in TaskSet /\ s.st = "exec" /\ s.tg = task[t].tg /\ s.how = task[t].how
        /\ s.call = task[t].call
    BY <1>2 DEF GoodTask, TaskSet, States
  <1>4. task' = [f EXCEPT ![t] = s] BY DEF ExecBegin
  <1> HIDE DEF s, f
  <1>5. GoodTask(s) /\ Plain(task[t], s)
    BY <1>2, <1>3 DEF GoodTask, CallAgrees, StopAgrees, At, Plain, Moves, Living
  <1> QED BY <1>1, <1>3, <1>4, <1>5 DEF Everyone

LEMMA ExitGroupEffect ==
  ASSUME KernelBase, NEW t \in Tids, NEW code \in ExitCodes, ExitGroup(t, code)
  PROVE  Everyone(task')
  <1>0. ExitCodes \subseteq 0..255
    <2>1. config \in Configs BY DEF KernelBase
    <2> QED BY <2>1, KernelAssumption DEF ExitCodes
  <1>1. code \in Int BY <1>0
  <1> QED BY <1>1, KillGroupEffect DEF ExitGroup, KernelBase

(* One task dies. *)
LEMMA DeathEffect ==
  ASSUME GoodTasks, NEW t \in Tids, Alive(t), NEW code \in Int
  PROVE  Everyone([task EXCEPT ![t] = Dead(task[t], code)])
  <1> DEFINE s == Dead(task[t], code)
  <1>1. GoodTask(task[t]) /\ task[t].tg \in Tids BY DEF GoodTasks, GoodTask, Alive
  <1>2. GoodTask(s) /\ s.st = "zombie" /\ s.tg = task[t].tg /\ s.how = task[t].how
    BY <1>1, DeadGood DEF GoodTask
  <1> HIDE DEF s
  <1>3. Plain(task[t], s) BY <1>2 DEF Plain, Dies, Living, Alive
  <1> QED BY <1>2, <1>3, OneMoves DEF s

LEMMA ExitThreadEffect ==
  ASSUME KernelBase, NEW t \in Tids, ExitThread(t)
  PROVE  Everyone(task')
  <1>1. Alive(t) /\ task' = [task EXCEPT ![t] = Dead(task[t], 0)] BY DEF ExitThread, Alive
  <1>2. 0 \in Int OBVIOUS
  <1>3. Everyone([task EXCEPT ![t] = Dead(task[t], 0)])
    BY <1>1, <1>2, DeathEffect DEF KernelBase
  <1> QED BY <1>1, <1>3

LEMMA RootType ==
  ASSUME config \in Configs
  PROVE  /\ Root \in InitTasks /\ InitTasks \subseteq Tids /\ Root \in Tids
         /\ Mode = "launch" => InitTasks = {Root}
  <1>1. InitTasks \in SUBSET Nat /\ InitTasks # {} /\ InitTasks \subseteq Tids
    BY KernelAssumption DEF InitTasks
  <1>2. \E m \in InitTasks : \A j \in InitTasks : m <= j BY <1>1, LeastElement
  <1>3. Root \in InitTasks BY <1>2 DEF Root
  <1>4. Mode = "launch" => \E t \in Tids : InitTasks = {t}
    BY KernelAssumption DEF InitTasks, Mode
  <1> QED BY <1>1, <1>3, <1>4

LEMMA SetupFailsEffect ==
  ASSUME KernelBase, SetupFails
  PROVE  Everyone(task')
  <1>1. Alive(Root) /\ task' = [task EXCEPT ![Root] = Dead(task[Root], 126)]
    BY DEF SetupFails, InUserMode, Alive
  <1>2. Root \in Tids BY RootType DEF KernelBase
  <1>3. 126 \in Int OBVIOUS
  <1>4. Everyone([task EXCEPT ![Root] = Dead(task[Root], 126)])
    BY <1>1, <1>2, <1>3, DeathEffect DEF KernelBase
  <1> QED BY <1>1, <1>4

-----------------------------------------------------------------------------
(* Signals. *)

(* Fields that do not matter here may change. *)
LEMMA StaysGood ==
  ASSUME NEW r, GoodTask(r), Living(r), NEW s \in TaskSet,
         s.tg = r.tg, s.how = r.how, s.call = r.call, s.frames = r.frames,
         \/ s.st = r.st /\ s.stop = r.stop /\ s.seen = r.seen /\ s.child = r.child
         \/ r.st = "listen" /\ s.st = "user"
  PROVE  GoodTask(s) /\ Stays(r, s)
  BY DEF GoodTask, CallAgrees, StopAgrees, At, Living, Stays

LEMMA ContinueGood ==
  ASSUME NEW r, GoodTask(r), Living(r)
  PROVE  GoodTask(Continue(r)) /\ Stays(r, Continue(r))
  <1> DEFINE a == {x \in r.sigs : ~Stopping(x)}
             b == IF r.st = "listen" THEN "user" ELSE r.st
             c == r.trap \/ (r.st = "listen" /\ r.how # "free")
             s == [r EXCEPT !.gst = 0, !.sigs = a, !.st = b, !.trap = c]
  <1>1. r \in TaskSet BY DEF GoodTask
  <1>2. a \in SUBSET (Nat \ {0}) BY <1>1 DEF TaskSet
  <1>3. c \in BOOLEAN OBVIOUS
  <1>4. b \in States /\ (b = r.st \/ (r.st = "listen" /\ b = "user"))
    BY <1>1 DEF TaskSet, States
  <1>7. Continue(r) = s BY <1>1 DEF Continue, TaskSet
  <1> HIDE DEF a, b, c
  <1>8. s \in TaskSet BY <1>1, <1>2, <1>3, <1>4 DEF TaskSet
  <1>9. /\ s.tg = r.tg /\ s.how = r.how /\ s.call = r.call /\ s.frames = r.frames
        /\ s.st = b /\ s.stop = r.stop /\ s.seen = r.seen /\ s.child = r.child
    BY <1>1 DEF TaskSet
  <1>5. \/ s.st = r.st /\ s.stop = r.stop /\ s.seen = r.seen /\ s.child = r.child
        \/ r.st = "listen" /\ s.st = "user"
    BY <1>4, <1>9
  <1> HIDE DEF s
  <1>6. GoodTask(s) /\ Stays(r, s) BY <1>5, <1>8, <1>9, StaysGood
  <1> QED BY <1>6, <1>7

LEMMA SignalType ==
  ASSUME KernelBase, NEW s \in Signals
  PROVE  s \in Nat \ {0}
  BY KernelAssumption DEF KernelBase, Signals

LEMMA SendSignalEffect ==
  ASSUME KernelBase, NEW t \in Tids, NEW s \in Signals, SendSignal(t, s)
  PROVE  /\ Everyone(task')
         /\ s # SIGKILL => \A u \in Tids : task'[u] = task[u] \/ Stays(task[u], task'[u])
  <1> DEFINE g == task[t].tg
             add(r) == [r EXCEPT !.sigs = @ \cup {s}]
  <1>1. GoodTasks /\ Alive(t) /\ s \in Nat \ {0} BY SignalType DEF KernelBase, SendSignal
  <1>2. ASSUME NEW r, GoodTask(r), Living(r)
        PROVE  GoodTask(add(r)) /\ Stays(r, add(r))
    <2> DEFINE x == add(r)
    <2>1. r \in TaskSet BY <1>2 DEF GoodTask
    <2>2. r.sigs \cup {s} \in SUBSET (Nat \ {0}) BY <1>1, <2>1 DEF TaskSet
    <2>3. /\ x \in TaskSet /\ x.tg = r.tg /\ x.how = r.how /\ x.call = r.call
          /\ x.frames = r.frames
          /\ x.st = r.st /\ x.stop = r.stop /\ x.seen = r.seen /\ x.child = r.child
      BY <2>1, <2>2 DEF TaskSet
    <2> HIDE DEF x
    <2>4. GoodTask(x) /\ Stays(r, x) BY <1>2, <2>3, StaysGood
    <2> QED BY <2>4 DEF x
  <1>3. CASE s = SIGKILL
    <2>1. task' = KillGroup(g, -s) BY <1>3 DEF SendSignal
    <2>2. -s \in Int BY <1>1
    <2> QED BY <1>1, <1>3, <2>1, <2>2, KillGroupEffect
  <1>4. CASE s # SIGKILL /\ Disposition[s] = "cont"
    <2> DEFINE f == [u \in Tids |-> IF Alive(u) /\ task[u].tg = g THEN Continue(task[u])
                                    ELSE task[u]]
    <2>1. task' = [f EXCEPT ![t] = add(f[t])] BY <1>4 DEF SendSignal
    <2>2. \A u \in Tids : GoodTask(f[u]) /\ (f[u] = task[u] \/ Stays(task[u], f[u]))
      BY <1>1, ContinueGood DEF GoodTasks, Alive, Living
    <2>3. Living(f[t]) BY <1>1, <2>2 DEF Alive, Living, Stays
    <2> HIDE DEF f, add
    <2>4. GoodTask(add(f[t])) /\ Stays(f[t], add(f[t])) BY <1>2, <2>2, <2>3
    <2>5. Stays(task[t], add(f[t]))
      <3>1. CASE f[t] = task[t] BY <2>4, <3>1
      <3>2. CASE Stays(task[t], f[t]) BY <2>4, <3>2 DEF Stays
      <3> QED BY <2>2, <3>1, <3>2
    <2>6. DOMAIN f = Tids BY DEF f
    <2>7. \A u \in Tids : GoodTask(task'[u]) /\ (task'[u] = task[u] \/ Stays(task[u], task'[u]))
      BY <2>1, <2>2, <2>4, <2>5, <2>6
    <2>8. task' \in [Tids -> TaskSet]
      BY <2>1, <2>2, <2>4, <2>6 DEF GoodTask, f
    <2> QED BY <2>7, <2>8 DEF Everyone, Plain
  <1>5. CASE s # SIGKILL /\ Disposition[s] # "cont"
    <2>1. task' = [task EXCEPT ![t] = add(task[t])] BY <1>5 DEF SendSignal
    <2>2. GoodTask(task[t]) /\ Living(task[t]) BY <1>1 DEF GoodTasks, Alive, Living
    <2> HIDE DEF add
    <2>3. GoodTask(add(task[t])) /\ Stays(task[t], add(task[t])) BY <1>2, <2>2
    <2>4. Everyone(task') BY <1>1, <2>1, <2>3, OneMoves DEF Plain
    <2>5. \A u \in Tids : task'[u] = task[u] \/ Stays(task[u], task'[u])
      BY <1>1, <2>1, <2>3 DEF GoodTasks
    <2> QED BY <2>4, <2>5
  <1> QED BY <1>3, <1>4, <1>5

LEMMA LowestSignalType ==
  ASSUME GoodTasks, NEW t \in Tids, Unblocked(t) # {}
  PROVE  LowestSignal(t) \in Unblocked(t) /\ LowestSignal(t) \in Nat \ {0}
  <1>1. Unblocked(t) \subseteq Nat \ {0} BY DEF GoodTasks, TaskSet, Unblocked
  <1>2. \E m \in Unblocked(t) : \A j \in Unblocked(t) : m <= j BY <1>1, LeastElement
  <1> QED BY <1>1, <1>2 DEF LowestSignal

LEMMA GetSignalEffect ==
  ASSUME KernelBase, NEW t \in Tids, GetSignal(t)
  PROVE  Everyone(task')
  <1> DEFINE r == task[t]
             s == LowestSignal(t)
             taken == [r EXCEPT !.sigs = @ \ {s}, !.auto = @ /\ s # SIGSTOP]
             own   == IF s = SIGSTOP /\ r.auto THEN "auto" ELSE "none"
             groupstop == IF Mode = "attach" THEN "event_stop" ELSE "group_stop"
  <1>1. GoodTask(r) /\ r.st = "user" /\ Deliverable(t) /\ r.how # "free"
    BY DEF GetSignal, KernelBase, GoodTasks
  <1>2. r \in TaskSet /\ r.tg \in Tids BY <1>1 DEF GoodTask
  <1>3. "none" \in Vals /\ "auto" \in Vals BY DEF Vals
  <1>4. SUFFICES ASSUME NEW x \in TaskSet, x.tg = r.tg, x.how = r.how,
                        NEW kind \in {"event_stop", "group_stop", "signal"},
                        NEW sig \in Nat, NEW val \in Vals,
                        task' = [task EXCEPT ![t] = Halt(x, kind, sig, 0, val)]
                 PROVE  Everyone(task')
    <2>1. CASE r.gst # 0
      <3> DEFINE x == [r EXCEPT !.gst = 0, !.trap = FALSE]
      <3>1. x \in TaskSet /\ x.tg = r.tg /\ x.how = r.how /\ r.gst \in Nat
        BY <1>2 DEF TaskSet
      <3>2. task' = [task EXCEPT ![t] = Halt(x, groupstop, r.gst, 0, "none")]
        BY <2>1 DEF GetSignal
      <3>3. groupstop \in {"event_stop", "group_stop", "signal"} OBVIOUS
      <3> HIDE DEF x, r, groupstop
      <3> QED BY <1>3, <1>4, <3>1, <3>2, <3>3
    <2>2. CASE r.gst = 0 /\ r.trap
      <3> DEFINE x == [r EXCEPT !.trap = FALSE]
      <3>1. x \in TaskSet /\ x.tg = r.tg /\ x.how = r.how BY <1>2 DEF TaskSet
      <3>2. task' = [task EXCEPT ![t] = Halt(x, "event_stop", SIGTRAP, 0, "none")]
        BY <2>2 DEF GetSignal
      <3>3. SIGTRAP \in Nat BY DEF SIGTRAP
      <3> HIDE DEF x, r
      <3> QED BY <1>3, <1>4, <3>1, <3>2, <3>3
    <2>3. CASE r.gst = 0 /\ ~r.trap
      <3>1. s \in Nat BY <1>1, <2>3, LowestSignalType DEF Deliverable, KernelBase
      <3>2. r.sigs \ {s} \in SUBSET (Nat \ {0}) /\ (r.auto /\ s # SIGSTOP) \in BOOLEAN
        BY <1>2 DEF TaskSet
      <3>3. taken \in TaskSet /\ taken.tg = r.tg /\ taken.how = r.how
        BY <1>2, <3>2 DEF TaskSet
      <3>4. task' = [task EXCEPT ![t] = Halt(taken, "signal", s, 0, own)]
        BY <2>3 DEF GetSignal
      <3>5. own \in Vals BY <1>3
      <3> HIDE DEF taken, r, own, s
      <3> QED BY <1>4, <3>1, <3>3, <3>4, <3>5
    <2> QED BY <2>1, <2>2, <2>3
  <1> DEFINE h == Halt(x, kind, sig, 0, val)
  <1>5. kind \in Kinds /\ 0 \in Int BY DEF Kinds
  <1>6. Halted(x, h, kind, 0, val) BY <1>2, <1>4, <1>5, HaltGood
  <1> HIDE DEF h, r
  <1>7. GoodTask(h) /\ Plain(r, h) BY <1>1, <1>4, <1>6 DEF Halted, Plain, Moves, Living
  <1> QED BY <1>4, <1>7, OneMoves DEF h, r, KernelBase

(* A signal, or none, lets t go on in user mode, or kills or stops its     *)
(* group.                                                                  *)
Delivered(r, s, h) == s.st = "user" /\ s.tg = r.tg /\ s.how = h /\ ~s.seen

LEMMA DeliverEffect ==
  ASSUME GoodTasks, NEW t \in Tids, Alive(t), NEW base \in TaskSet, base.tg = task[t].tg,
         NEW s \in Nat, NEW h \in {"CONT", "SYSCALL", "free"}, Deliver(t, base, s, h)
  PROVE  /\ task' \in [Tids -> TaskSet]
         /\ \A u \in Tids : GoodTask(task'[u]) /\ (u # t => Plain(task[u], task'[u]))
         /\ Dies(task[t], task'[t]) \/ Delivered(task[t], task'[t], h)
  <1> DEFINE r == [base EXCEPT !.st = "user", !.how = h, !.stop = NoStop, !.seen = FALSE]
             d == IF s \in DOMAIN Disposition THEN Disposition[s] ELSE "ignore"
             eintr == /\ r.rst # NoCall /\ r.rst.nr \notin Forks
                      /\ d = "eintr" \/ r.rst.nr \in {"nanosleep", "restart_syscall"}
             back  == IF eintr THEN NoCall ELSE IF r.rst # NoCall THEN r.rst ELSE r.again
             fr == <<[sig |-> s, rst |-> back]>> \o r.frames
             handled == [r EXCEPT !.rst = NoCall, !.again = NoCall, !.frames = fr]
             Fine(x) == x \in TaskSet /\ x.st = "user" /\ x.tg = task[t].tg /\ x.how = h /\ ~x.seen
  <1>1. GoodTask(task[t]) /\ task[t].tg \in Tids BY DEF GoodTasks, GoodTask, Alive
  <1>2. Fine(r) BY NoStopType DEF TaskSet, States
  <1>3. \A x : Fine(x) => GoodTask(x) /\ Delivered(task[t], x, h)
    BY <1>1 DEF GoodTask, CallAgrees, StopAgrees, At, Delivered
  <1>4. ASSUME NEW x, Fine(x), task' = [task EXCEPT ![t] = x]
        PROVE  /\ task' \in [Tids -> TaskSet]
               /\ \A u \in Tids : GoodTask(task'[u]) /\ (u # t => Plain(task[u], task'[u]))
               /\ Delivered(task[t], task'[t], h)
    <2> GoodTask(x) /\ Delivered(task[t], x, h) BY <1>3, <1>4
    <2> HIDE DEF Fine
    <2> QED BY <1>4 DEF GoodTasks, Plain, GoodTask
  <1>5. CASE d \in {"ignore", "cont"}
    <2>1. task' = [task EXCEPT ![t] = r] BY <1>5 DEF Deliver
    <2> HIDE DEF r, Fine
    <2> QED BY <1>2, <1>4, <2>1
  <1>6. CASE d = "fatal"
    <2>1. task' = KillGroup(r.tg, -s) BY <1>6 DEF Deliver
    <2>2. r.tg = task[t].tg BY <1>2
    <2>3. -s \in Int OBVIOUS
    <2> HIDE DEF r
    <2>4. Everyone(task') BY <2>1, <2>3, KillGroupEffect
    <2>5. Dies(task[t], task'[t])
      <3>1. task'[t] = Dead(task[t], -s) BY <2>1, <2>2 DEF KillGroup
      <3>2. task'[t].st = "zombie" /\ task'[t].tg = task[t].tg /\ task'[t].how = task[t].how
        BY <1>1, <2>3, <3>1, DeadGood DEF GoodTask
      <3> QED BY <3>2 DEF Dies, Living, Alive
    <2> QED BY <2>4, <2>5 DEF Everyone
  <1>7. CASE d = "stop"
    <2> DEFINE G(x) == [x EXCEPT !.gst = s]
    <2>1. task' = [u \in Tids |-> IF Alive(u) /\ task[u].tg = r.tg
                                    THEN G(IF u = t THEN r ELSE task[u]) ELSE task[u]]
      BY <1>7 DEF Deliver
    <2>2. Fine(G(r)) BY <1>2 DEF TaskSet
    <2>3. r.tg = task[t].tg BY <1>2
    <2>4. ASSUME NEW u \in Tids, Alive(u)
          PROVE  GoodTask(G(task[u])) /\ Stays(task[u], G(task[u]))
      <3> DEFINE x == G(task[u])
      <3>1. GoodTask(task[u]) /\ Living(task[u]) BY <2>4 DEF GoodTasks, Alive, Living
      <3>2. /\ x \in TaskSet /\ x.tg = task[u].tg /\ x.how = task[u].how
            /\ x.call = task[u].call /\ x.frames = task[u].frames /\ x.st = task[u].st
            /\ x.stop = task[u].stop /\ x.seen = task[u].seen /\ x.child = task[u].child
        BY <3>1 DEF GoodTask, TaskSet
      <3> HIDE DEF x
      <3>3. GoodTask(x) /\ Stays(task[u], x) BY <3>1, <3>2, StaysGood
      <3> QED BY <3>3 DEF x
    <2> HIDE DEF r, G, Fine
    <2>5. task'[t] = G(r) BY <2>1, <2>3
    <2>6. GoodTask(task'[t]) /\ Delivered(task[t], task'[t], h) BY <1>3, <2>2, <2>5
    <2>7. \A u \in Tids \ {t} : GoodTask(task'[u]) /\ Plain(task[u], task'[u])
      BY <2>1, <2>4 DEF Plain, GoodTasks
    <2>8. \A u \in Tids : task'[u] \in TaskSet BY <2>6, <2>7 DEF GoodTask
    <2>9. task' \in [Tids -> TaskSet] BY <2>1, <2>8
    <2> QED BY <2>6, <2>7, <2>9
  <1>8. CASE d \notin {"ignore", "cont", "fatal", "stop"}
    <2>1. task' = [task EXCEPT ![t] = handled] BY <1>8 DEF Deliver
    <2>2. r.rst \in AgainSet /\ r.again \in AgainSet /\ r.frames \in Seq(FrameSet)
      BY <1>2 DEF TaskSet
    <2>3. back \in AgainSet BY <2>2, NoCallAgain
    <2> HIDE DEF back
    <2>4. [sig |-> s, rst |-> back] \in FrameSet BY <2>3 DEF FrameSet
    <2> HIDE DEF r
    <2>5. fr \in Seq(FrameSet) BY <2>2, <2>4
    <2> HIDE DEF fr
    <2>6. Fine(handled) BY <1>2, <2>5, NoCallAgain DEF TaskSet
    <2> HIDE DEF handled, Fine
    <2> QED BY <1>4, <2>1, <2>6
  <1> QED BY <1>5, <1>6, <1>7, <1>8

LEMMA GetSignalUntracedEffect ==
  ASSUME KernelBase, NEW t \in Tids, GetSignalUntraced(t)
  PROVE  Everyone(task')
  <1> DEFINE r == task[t]
  <1>1. GoodTask(r) /\ r.st = "user" /\ r.how = "free" /\ GoodTasks /\ r.tg \in Tids
    BY DEF GetSignalUntraced, KernelBase, GoodTasks, GoodTask
  <1>2. CASE r.gst # 0
    <2> DEFINE s == [r EXCEPT !.st = "listen", !.gst = 0]
    <2>1. task' = [task EXCEPT ![t] = s]
      BY <1>1, <1>2 DEF GetSignalUntraced, GoodTasks
    <2>2. s \in TaskSet /\ s.st = "listen" /\ s.tg = r.tg /\ s.how = r.how
      BY <1>1 DEF GoodTask, TaskSet, States
    <2> HIDE DEF s, r
    <2>3. GoodTask(s) /\ Plain(r, s)
      BY <1>1, <2>2 DEF GoodTask, CallAgrees, StopAgrees, At, Plain, Moves, Living
    <2> QED BY <1>1, <2>1, <2>3, OneMoves DEF r
  <1>3. CASE r.gst = 0
    <2> DEFINE s == LowestSignal(t)
               b == [r EXCEPT !.sigs = @ \ {s}]
    <2>1. s \in Nat BY <1>1, <1>3, LowestSignalType DEF GetSignalUntraced
    <2>2. Deliver(t, b, s, "free") BY <1>3 DEF GetSignalUntraced
    <2>3. b \in TaskSet /\ b.tg = r.tg
      <3>1. r.sigs \ {s} \in SUBSET (Nat \ {0}) BY <1>1 DEF GoodTask, TaskSet
      <3> QED BY <1>1, <3>1 DEF GoodTask, TaskSet
    <2>4. Alive(t) BY <1>1 DEF Alive
    <2> HIDE DEF b, s
    <2>5. /\ task' \in [Tids -> TaskSet]
          /\ \A u \in Tids : GoodTask(task'[u]) /\ (u # t => Plain(task[u], task'[u]))
          /\ Dies(task[t], task'[t]) \/ Delivered(task[t], task'[t], "free")
      BY <1>1, <2>1, <2>2, <2>3, <2>4, DeliverEffect
    <2>6. Plain(task[t], task'[t])
      BY <1>1, <2>5 DEF Plain, Moves, Living, Delivered
    <2> QED BY <2>5, <2>6 DEF Everyone
  <1> QED BY <1>2, <1>3

-----------------------------------------------------------------------------
(* Births, and the end of an execve. *)

Forked(t, c, f) ==
  /\ t # c /\ task[c].st = "none" /\ Follow
  /\ task[t].st = "sys" /\ f[t].st = "spawned" /\ f[t].child = c
  /\ f[t].tg = task[t].tg /\ f[t].how = task[t].how /\ f[t].call = task[t].call
  /\ f[c].st = "user" /\ f[c].tg \in {task[t].tg, c}
  /\ f[c].how = IF task[t].how = "free" THEN "free" ELSE "CONT"
  /\ \A u \in Tids \ {t, c} : f[u] = task[u]

LEMMA ForkEffect ==
  ASSUME KernelBase, NEW t \in Tids, Fork(t)
  PROVE  /\ task' \in [Tids -> TaskSet] /\ \A u \in Tids : GoodTask(task'[u])
         /\ \E c \in Tids : Forked(t, c, task')
  <1> DEFINE r  == task[t]
             c  == CHOOSE u \in Unborn : \A v \in Unborn : u <= v
             s  == [r EXCEPT !.st = "spawned", !.child = c]
             g  == IF r.call.nr = "clone" THEN r.tg ELSE c
             ex == r.execd /\ r.call.nr = "clone"
             hw == IF r.how = "free" THEN "free" ELSE "CONT"
             sg == IF Mode = "launch" THEN {SIGSTOP} ELSE {}
             au == Mode = "launch"
             tp == Mode = "attach" /\ r.how # "free"
             b  == [NoTask EXCEPT !.st = "user", !.tg = g, !.execd = ex, !.how = hw,
                                  !.sigs = sg, !.auto = au, !.trap = tp]
  <1>1. Unborn \in SUBSET Nat /\ Unborn # {} /\ Unborn \subseteq Tids
    BY KernelAssumption DEF Unborn, Fork
  <1>2. \E m \in Unborn : \A j \in Unborn : m <= j BY <1>1, LeastElement
  <1>3. c \in Unborn BY <1>2
  <1> HIDE DEF c
  <1>4. c \in Tids /\ task[c].st = "none" BY <1>1, <1>3 DEF Unborn
  <1>5. GoodTask(r) /\ r.st = "sys" /\ r.call.nr \in Forks /\ Follow /\ c # t
    BY <1>4 DEF Fork, KernelBase, GoodTasks
  <1>6. task' = [task EXCEPT ![t].st = "spawned", ![t].child = c, ![c] = b] BY DEF Fork, c
  <1>7. task' = [task EXCEPT ![t] = s, ![c] = b]
    <2>1. task \in [Tids -> TaskSet] BY DEF KernelBase, GoodTasks
    <2> HIDE DEF b
    <2> QED BY <1>4, <1>5, <1>6, <2>1 DEF TaskSet
  <1>8. /\ s \in TaskSet /\ s.st = "spawned" /\ s.child = c /\ s.tg = r.tg /\ s.how = r.how
        /\ s.call = r.call
    BY <1>4, <1>5 DEF GoodTask, TaskSet, States
  <1>9. g \in Tids /\ ex \in BOOLEAN /\ hw \in {"CONT", "SYSCALL", "free"}
        /\ sg \in SUBSET (Nat \ {0}) /\ au \in BOOLEAN /\ tp \in BOOLEAN
    BY <1>4, <1>5 DEF GoodTask, TaskSet, SIGSTOP
  <1>10. g \in {r.tg, c} OBVIOUS
  <1> HIDE DEF g, ex, sg, au, tp
  <1>11. b \in TaskSet /\ b.st = "user" /\ b.tg = g /\ b.how = hw
    <2> DEFINE n == NoTask
               b1 == [n EXCEPT !.st = "user", !.tg = g, !.execd = ex]
               b2 == [b1 EXCEPT !.how = hw, !.sigs = sg]
               b3 == [b2 EXCEPT !.auto = au, !.trap = tp]
    <2>1. n \in TaskSet BY NoTaskGood DEF GoodTask
    <2>4. "user" \in States BY DEF States
    <2> HIDE DEF hw, tp, n
    <2>2. b = b3 BY <2>1 DEF TaskSet, n
    <2>3. b1 \in TaskSet /\ b1.st = "user" /\ b1.tg = g
      BY <1>9, <2>1, <2>4 DEF TaskSet
    <2> HIDE DEF b1
    <2>5. b2 \in TaskSet /\ b2.st = "user" /\ b2.tg = g /\ b2.how = hw
      BY <1>9, <2>3 DEF TaskSet
    <2> HIDE DEF b2
    <2>6. b3 \in TaskSet /\ b3.st = "user" /\ b3.tg = g /\ b3.how = hw
      BY <1>9, <2>5 DEF TaskSet
    <2> HIDE DEF b3, b
    <2> QED BY <2>2, <2>6
  <1> HIDE DEF s, b
  <1>12. GoodTask(s) /\ GoodTask(b)
    BY <1>4, <1>5, <1>8, <1>9, <1>11 DEF GoodTask, CallAgrees, StopAgrees, At
  <1>13. task \in [Tids -> TaskSet] /\ \A u \in Tids : GoodTask(task[u])
    BY DEF KernelBase, GoodTasks
  <1>14. task' \in [Tids -> TaskSet] /\ \A u \in Tids : GoodTask(task'[u])
    BY <1>4, <1>7, <1>8, <1>11, <1>12, <1>13
  <1>15. task'[t] = s /\ task'[c] = b /\ \A u \in Tids \ {t, c} : task'[u] = task[u]
    BY <1>4, <1>5, <1>7, <1>13
  <1>16. Forked(t, c, task') BY <1>4, <1>5, <1>8, <1>10, <1>11, <1>15 DEF Forked
  <1> QED BY <1>4, <1>14, <1>16

TakenOver(t, l, f) ==
  /\ l = task[t].tg /\ task[t].st = "exec"
  /\ f[l].tg = l /\ f[l].how = task[t].how /\ f[l].call = task[t].call /\ f[l].execd
  /\ \/ task[t].how # "free" /\ At(f[l], "exec") /\ f[l].stop.msg = t /\ ~f[l].seen
     \/ task[t].how = "free" /\ f[l].st = "ret"
  /\ t # l => f[t].st = "gone" /\ f[t].tg = l /\ f[t].how = "CONT"
  /\ \A u \in Tids \ {t, l} : f[u] = task[u]

LEMMA ExecEventEffect ==
  ASSUME KernelBase, NEW t \in Tids, ExecEvent(t)
  PROVE  /\ task' \in [Tids -> TaskSet] /\ \A u \in Tids : GoodTask(task'[u])
         /\ TakenOver(t, task[t].tg, task')
  <1> DEFINE l == task[t].tg
             r == [task[t] EXCEPT !.execd = TRUE, !.frames = << >>, !.again = NoCall]
             s == Event(r, "exec", t)
             b == [NoTask EXCEPT !.st = "gone", !.tg = l]
  <1>1. GoodTask(task[t]) /\ task[t].st = "exec" /\ task[t].call.nr = "execve" /\ l \in Tids
    BY DEF ExecEvent, KernelBase, GoodTasks, GoodTask, CallAgrees
  <1>2. task[t].call # NoCall BY <1>1 DEF GoodTask, CallAgrees
  <1>3. task' = [u \in Tids |-> IF u = l THEN s ELSE IF u = t THEN b ELSE task[u]]
    BY DEF ExecEvent
  <1>4. r \in TaskSet /\ r.tg = l /\ r.how = task[t].how /\ r.call = task[t].call
    <2>1. << >> \in Seq(FrameSet) OBVIOUS
    <2> QED BY <1>1, <2>1, NoCallAgain DEF GoodTask, TaskSet
  <1>5. b \in TaskSet /\ b.st = "gone" /\ b.tg = l /\ b.how = "CONT"
    <2>1. NoTask \in TaskSet /\ NoTask.how = "CONT" BY NoTaskGood DEF GoodTask, NoTask
    <2> QED BY <1>1, <2>1 DEF TaskSet, States
  <1>5a. s.execd = TRUE
    <2>1. r.execd = TRUE BY <1>1 DEF GoodTask, TaskSet
    <2> HIDE DEF r
    <2> QED BY <1>4, <2>1 DEF Event, Halt, TaskSet
  <1> HIDE DEF r, b
  <1>6. /\ r.tg \in Tids /\ r.call # NoCall /\ "exec" \in {"fork", "exec"}
        /\ r.call.nr \in IF "exec" = "fork" THEN Forks ELSE {"execve"}
    BY <1>1, <1>2, <1>4
  <1>7. Announced(r, s, "exec", t) BY <1>4, <1>6, EventGood
  <1> HIDE DEF s
  <1>8. GoodTask(b) BY <1>1, <1>5 DEF GoodTask, CallAgrees, StopAgrees, At
  <1>9. \A u \in Tids : GoodTask(task'[u])
    BY <1>3, <1>7, <1>8 DEF KernelBase, GoodTasks, Announced
  <1>10. task' \in [Tids -> TaskSet] BY <1>3, <1>9 DEF GoodTask
  <1>11. task'[l] = s /\ (t # l => task'[t] = b) /\ \A u \in Tids \ {t, l} : task'[u] = task[u]
    BY <1>1, <1>3
  <1>12. TakenOver(t, l, task')
    BY <1>1, <1>4, <1>5, <1>7, <1>11, <1>5a DEF TakenOver, Announced, At
  <1> QED BY <1>9, <1>10, <1>12

(* The effect of any step of the tasks. *)
LEMMA TasksEffect ==
  ASSUME KernelBase, TasksStep
  PROVE  /\ config' = config /\ task' \in [Tids -> TaskSet]
         /\ \A u \in Tids : GoodTask(task'[u])
         /\ made' \in Seq(Calls \cup {"rt_sigreturn"})
         /\ \/ Everyone(task')
            \/ \E t, c \in Tids : Forked(t, c, task')
            \/ \E t \in Tids : TakenOver(t, task[t].tg, task')
  <1>1. config' = config BY DEF TasksStep
  <1>2. \A f : Everyone(f) => f \in [Tids -> TaskSet] /\ \A u \in Tids : GoodTask(f[u])
    BY DEF Everyone
  <1>3. made \in Seq(Calls \cup {"rt_sigreturn"}) BY DEF KernelBase
  <1>4. CASE SetupFails
    <2>1. Everyone(task') BY <1>4, SetupFailsEffect
    <2>2. made' = made BY <1>4 DEF SetupFails
    <2> QED BY <1>1, <1>2, <1>3, <2>1, <2>2
  <1>5. ASSUME NEW t \in Tids, KernelStep(t)
        PROVE  /\ task' \in [Tids -> TaskSet]
               /\ \A u \in Tids : GoodTask(task'[u])
               /\ made' = made
               /\ \/ Everyone(task')
                  \/ \E c \in Tids : Forked(t, c, task')
                  \/ TakenOver(t, task[t].tg, task')
    <2>1. CASE DecideRestart(t) BY <1>2, <2>1, DecideRestartEffect DEF DecideRestart
    <2>2. CASE Restart(t) BY <1>2, <2>2, RestartEffect DEF Restart
    <2>3. CASE Sigreturn(t) BY <1>2, <2>3, SigreturnEffect DEF Sigreturn
    <2>4. CASE Interrupted(t) BY <1>2, <2>4, InterruptedEffect DEF Interrupted
    <2>5. CASE Fork(t) BY <2>5, ForkEffect DEF Fork
    <2>6. CASE ForkEvent(t) BY <1>2, <2>6, ForkEventEffect DEF ForkEvent
    <2>7. CASE Complete(t) BY <1>2, <2>7, CompleteEffect DEF Complete
    <2>8. CASE ExecEvent(t) BY <2>8, ExecEventEffect DEF ExecEvent
    <2>9. CASE GetSignal(t) BY <1>2, <2>9, GetSignalEffect DEF GetSignal
    <2>10. CASE GetSignalUntraced(t)
      BY <1>2, <2>10, GetSignalUntracedEffect DEF GetSignalUntraced
    <2>11. CASE \E code \in ExitCodes : ExitGroup(t, code)
      BY <1>2, <2>11, ExitGroupEffect DEF ExitGroup
    <2>12. CASE ExitThread(t) BY <1>2, <2>12, ExitThreadEffect DEF ExitThread
    <2> QED BY <1>5, <2>1, <2>2, <2>3, <2>4, <2>5, <2>6, <2>7, <2>8, <2>9, <2>10, <2>11, <2>12
            DEF KernelStep
  <1>6. ASSUME NEW t \in Tids, ProgramStep(t)
        PROVE  Everyone(task') /\ made' \in Seq(Calls \cup {"rt_sigreturn"})
    <2>1. CASE \E nr \in Calls \cup {"rt_sigreturn"} : EnterSyscall(t, nr)
      BY <2>1, EnterSyscallEffect
    <2>2. CASE \E val \in {"ok", "err"} : Return(t, val)
      BY <1>3, <2>2, ReturnEffect DEF Return
    <2>3. CASE ExecBegin(t) BY <1>3, <2>3, ExecBeginEffect DEF ExecBegin
    <2>4. CASE \E s \in Signals : SendSignal(t, s)
      BY <1>3, <2>4, SendSignalEffect DEF SendSignal
    <2> QED BY <1>6, <2>1, <2>2, <2>3, <2>4 DEF ProgramStep
  <1>7. SetupFails \/ \E t \in Tids : KernelStep(t) \/ ProgramStep(t) BY DEF TasksStep
  <1> QED BY <1>1, <1>2, <1>3, <1>4, <1>5, <1>6, <1>7

-----------------------------------------------------------------------------
(* The ptrace requests. *)

GoesOn(r, s, h) ==
  /\ r.st = "stop" /\ s.tg = r.tg /\ s.how = h /\ ~s.seen
  /\ \/ At(r, "entry") /\ s.call = r.call /\ (s.st = "sys" \/ (Seccomp /\ At(s, "seccomp")))
     \/ At(r, "seccomp") /\ s.call = r.call /\ s.st = "sys"
     \/ At(r, "exit") /\ s.st = "user"
     \/ (At(r, "fork") \/ At(r, "exec")) /\ s.call = r.call /\ s.st = "ret"
     \/ /\ r.stop.kind \notin {"entry", "seccomp", "exit", "fork", "exec"}
        /\ s.st = "user"

(* Only t changes how it runs; a signal it is given may end or stop others. *)
SetGoing(t, h, f) ==
  /\ f \in [Tids -> TaskSet]
  /\ \A u \in Tids : GoodTask(f[u]) /\ (u # t => Plain(task[u], f[u]))
  /\ Dies(task[t], f[t]) \/ GoesOn(task[t], f[t], h)

LEMMA GoOnEffect ==
  ASSUME GoodTasks, NEW t \in Tids, InStop(t),
         NEW r \in TaskSet, r.st = "stop", r.stop = task[t].stop, r.tg = task[t].tg,
         r.call = task[t].call, r.frames = task[t].frames,
         NEW s \in Nat, NEW h \in {"CONT", "SYSCALL", "free"}, GoOn(t, r, s, h)
  PROVE  SetGoing(t, h, task')
  <1> DEFINE e == [r EXCEPT !.how = h, !.stop = NoStop, !.seen = FALSE]
             k == r.stop.kind
  <1>1. GoodTask(task[t]) /\ r.tg \in Tids /\ Alive(t) /\ task[t].st = "stop"
    BY DEF GoodTasks, GoodTask, InStop, Alive
  <1>2. /\ e \in TaskSet /\ e.tg = r.tg /\ e.how = h /\ ~e.seen /\ e.call = r.call
        /\ e.frames = r.frames
    BY NoStopType DEF TaskSet
  <1>3. ASSUME NEW x, GoodTask(x), GoesOn(task[t], x, h), task' = [task EXCEPT ![t] = x]
        PROVE  SetGoing(t, h, task')
    BY <1>3 DEF GoodTasks, SetGoing, Plain, GoodTask
  <1>4. ASSUME NEW st \in {"sys", "user", "ret"}, NEW c \in CallSet,
               st # "user" => c = r.call /\ r.call # NoCall,
               st = "sys" => k \in {"entry", "seccomp"},
               st = "ret" => k \in {"fork", "exec"},
               st = "user" => k \notin {"entry", "seccomp", "fork", "exec"},
               NEW x, x = [e EXCEPT !.st = st, !.call = c, !.stop = NoStop],
               task' = [task EXCEPT ![t] = x]
        PROVE  SetGoing(t, h, task')
    <2>5. st \in States BY DEF States
    <2>6. x \in TaskSet
      <3> HIDE DEF e
      <3> QED BY <1>2, <1>4, <2>5, NoStopType DEF TaskSet
    <2>1. /\ x \in TaskSet /\ x.st = st /\ x.tg = r.tg /\ x.how = h /\ ~x.seen /\ x.call = c
          /\ x.frames = r.frames
      <3> HIDE DEF e
      <3> QED BY <1>2, <1>4, <2>6 DEF TaskSet
    <2>2. GoesOn(task[t], x, h)
      <3> HIDE DEF e
      <3>1. st = "sys" => x.st = "sys" /\ x.call = task[t].call /\ k \in {"entry", "seccomp"}
        BY <1>4, <2>1
      <3>2. st = "ret" => x.st = "ret" /\ x.call = task[t].call /\ k \in {"fork", "exec"}
        BY <1>4, <2>1
      <3>3. st = "user" => x.st = "user" /\ k \notin {"entry", "seccomp", "fork", "exec"}
        BY <1>4, <2>1
      <3>4. task[t].st = "stop" /\ x.tg = task[t].tg /\ x.how = h /\ ~x.seen
        BY <1>1, <2>1
      <3>5. k = task[t].stop.kind OBVIOUS
      <3> HIDE DEF k
      <3>6. CASE st = "sys" BY <3>1, <3>4, <3>5, <3>6 DEF GoesOn, At
      <3>7. CASE st = "ret" BY <3>2, <3>4, <3>5, <3>7 DEF GoesOn, At
      <3>8. CASE st = "user" BY <3>3, <3>4, <3>5, <3>8 DEF GoesOn, At
      <3> QED BY <3>6, <3>7, <3>8
    <2>3. GoodTask(x)
      <3>1. st = "sys" /\ r.call.nr = "rt_sigreturn" => r.frames # << >>
        BY <1>1, <1>4 DEF GoodTask, CallAgrees, At
      <3>2. st = "ret" => r.call.nr \in Forks \cup {"execve"}
        BY <1>1, <1>4 DEF GoodTask, CallAgrees, At
      <3> QED BY <1>1, <1>4, <2>1, <3>1, <3>2 DEF GoodTask, CallAgrees, StopAgrees, At
    <2> QED BY <1>3, <1>4, <2>2, <2>3
  <1>5. r.call \in CallSet BY DEF TaskSet
  <1>6. k \in {"entry", "seccomp", "fork", "exec"} => r.call # NoCall
    BY <1>1 DEF GoodTask, CallAgrees
  <1>7. CASE k = "entry" /\ Filtered(r.call.nr) /\ h # "free"
    <2> DEFINE x == Halt(e, "seccomp", 0, 0, "none")
    <2>1. task' = [task EXCEPT ![t] = x] BY <1>7 DEF GoOn
    <2>2. "seccomp" \in Kinds /\ "none" \in Vals /\ 0 \in Nat /\ 0 \in Int BY DEF Kinds, Vals
    <2>3. r.call.nr = "rt_sigreturn" => r.frames # << >>
      BY <1>1, <1>7 DEF GoodTask, CallAgrees, At
    <2> HIDE DEF e
    <2>4. Halted(e, x, "seccomp", 0, "none") BY <1>1, <1>2, <1>6, <1>7, <2>2, <2>3, HaltGood
    <2> HIDE DEF x
    <2>5. GoodTask(x) /\ GoesOn(task[t], x, h)
      BY <1>1, <1>2, <1>7, <2>4 DEF Halted, GoesOn, At, Filtered
    <2> QED BY <1>3, <2>1, <2>5
  <1>8. CASE k = "entry" /\ ~(Filtered(r.call.nr) /\ h # "free")
    <2> DEFINE x == [e EXCEPT !.st = "sys", !.stop = NoStop]
    <2>1. task' = [task EXCEPT ![t] = x] BY <1>8 DEF GoOn, InSyscall
    <2>2. x = [e EXCEPT !.st = "sys", !.call = r.call, !.stop = NoStop] BY <1>2 DEF TaskSet
    <2> HIDE DEF e, x
    <2> QED BY <1>4, <1>5, <1>6, <1>8, <2>1, <2>2
  <1>9. CASE k = "seccomp"
    <2> DEFINE x == [e EXCEPT !.st = "sys", !.stop = NoStop]
    <2>1. task' = [task EXCEPT ![t] = x] BY <1>9 DEF GoOn, InSyscall
    <2>2. x = [e EXCEPT !.st = "sys", !.call = r.call, !.stop = NoStop] BY <1>2 DEF TaskSet
    <2> HIDE DEF e, x
    <2> QED BY <1>4, <1>5, <1>6, <1>9, <2>1, <2>2
  <1>10. CASE k = "exit"
    <2> DEFINE x == [e EXCEPT !.st = "user", !.call = NoCall]
    <2>1. task' = [task EXCEPT ![t] = x] BY <1>10 DEF GoOn
    <2>2. x = [e EXCEPT !.st = "user", !.call = NoCall, !.stop = NoStop]
      BY <1>2 DEF TaskSet
    <2> HIDE DEF e, x
    <2> QED BY <1>4, <1>10, <2>1, <2>2, NoCallType
  <1>11. CASE k \in {"fork", "exec"}
    <2> DEFINE x == [e EXCEPT !.st = "ret"]
    <2>1. task' = [task EXCEPT ![t] = x] BY <1>11 DEF GoOn
    <2>2. x = [e EXCEPT !.st = "ret", !.call = r.call, !.stop = NoStop]
      BY <1>2 DEF TaskSet
    <2> HIDE DEF e, x
    <2> QED BY <1>4, <1>5, <1>6, <1>11, <2>1, <2>2
  <1>12. CASE k \in {"event_stop", "group_stop"}
    <2> DEFINE x == [e EXCEPT !.st = "user"]
    <2>1. task' = [task EXCEPT ![t] = x] BY <1>12 DEF GoOn
    <2>2. x = [e EXCEPT !.st = "user", !.call = r.call, !.stop = NoStop]
      BY <1>2 DEF TaskSet
    <2> HIDE DEF e, x
    <2> QED BY <1>4, <1>5, <1>12, <2>1, <2>2
  <1>13. CASE k \notin {"entry", "seccomp", "exit", "fork", "exec", "event_stop", "group_stop"}
    <2>1. Deliver(t, r, s, h) BY <1>13 DEF GoOn
    <2>2. /\ task' \in [Tids -> TaskSet]
          /\ \A u \in Tids : GoodTask(task'[u]) /\ (u # t => Plain(task[u], task'[u]))
          /\ Dies(task[t], task'[t]) \/ Delivered(task[t], task'[t], h)
      BY <1>1, <2>1, DeliverEffect
    <2>3. Delivered(task[t], task'[t], h) => GoesOn(task[t], task'[t], h)
      BY <1>1, <1>13 DEF Delivered, GoesOn
    <2> QED BY <2>2, <2>3 DEF SetGoing
  <1> QED BY <1>7, <1>8, <1>9, <1>10, <1>11, <1>12, <1>13

LEMMA ResumeEffect ==
  ASSUME GoodTasks, NEW t \in Tids, NEW s \in Nat, NEW h \in {"CONT", "SYSCALL", "free"},
         PtraceResume(t, s, h)
  PROVE  SetGoing(t, h, task') /\ made' = made
  <1>1. task[t] \in TaskSet /\ InStop(t) /\ task[t].st = "stop" /\ GoOn(t, task[t], s, h)
    BY DEF PtraceResume, GoodTasks, InStop
  <1>2. SetGoing(t, h, task') BY <1>1, GoOnEffect
  <1> QED BY <1>1, <1>2 DEF GoOn

LEMMA DetachEffect ==
  ASSUME GoodTasks, NEW t \in Tids, NEW s \in Nat, PtraceDetach(t, s)
  PROVE  SetGoing(t, "free", task') /\ made' = made
  <1> DEFINE g == IF task[t].tg \in jobstop THEN SIGSTOP ELSE task[t].gst
             r == [task[t] EXCEPT !.trap = FALSE, !.gst = g]
  <1>1. task[t] \in TaskSet /\ InStop(t) /\ task[t].st = "stop"
    BY DEF PtraceDetach, GoodTasks, InStop
  <1>2. GoOn(t, r, s, "free") BY DEF PtraceDetach
  <1>3. g \in Nat BY <1>1 DEF TaskSet, SIGSTOP
  <1> HIDE DEF g
  <1>4. /\ r \in TaskSet /\ r.st = "stop" /\ r.stop = task[t].stop /\ r.tg = task[t].tg
        /\ r.call = task[t].call /\ r.frames = task[t].frames
    BY <1>1, <1>3 DEF TaskSet
  <1> HIDE DEF r
  <1>5. SetGoing(t, "free", task') BY <1>1, <1>2, <1>4, GoOnEffect
  <1> QED BY <1>2, <1>5 DEF GoOn

(* waitpid reports t; PTRACE_LISTEN; PTRACE_INTERRUPT; kill. *)
Reported(r, s) ==
  /\ s.tg = r.tg /\ s.how = r.how /\ s.call = r.call /\ s.code = r.code
  /\ \/ r.st = "stop" /\ s.st = "stop" /\ s.stop = r.stop /\ s.seen
     \/ r.st = "zombie" /\ s.st = "gone"

LEMMA ReportEffect ==
  ASSUME GoodTasks, NEW t \in Tids, Waitable(t)
  PROVE  /\ Report(t) \in [Tids -> TaskSet] /\ \A u \in Tids : GoodTask(Report(t)[u])
         /\ Reported(task[t], Report(t)[t])
         /\ \A u \in Tids \ {t} : Report(t)[u] = task[u]
  <1> DEFINE r == task[t]
             s == IF InStop(t) THEN [r EXCEPT !.seen = TRUE] ELSE [r EXCEPT !.st = "gone"]
  <1>1. Report(t) = [task EXCEPT ![t] = s] BY DEF Report
  <1>2. GoodTask(r) /\ (~InStop(t) => r.st = "zombie") BY DEF GoodTasks, Waitable
  <1>3. GoodTask(s) /\ Reported(r, s)
    <2>1. CASE InStop(t)
      <3> DEFINE x == [r EXCEPT !.seen = TRUE]
      <3>1. /\ x \in TaskSet /\ x.tg = r.tg /\ x.how = r.how /\ x.call = r.call
            /\ x.frames = r.frames /\ x.code = r.code /\ x.seen
            /\ x.st = r.st /\ x.stop = r.stop /\ x.child = r.child
        BY <1>2 DEF GoodTask, TaskSet
      <3>2. r.st = "stop" BY <2>1 DEF InStop
      <3>3. s = x BY <2>1
      <3> HIDE DEF x, s, r
      <3>4. GoodTask(x) /\ Reported(r, x)
        BY <1>2, <3>1, <3>2 DEF GoodTask, CallAgrees, StopAgrees, At, Reported
      <3> QED BY <3>3, <3>4
    <2>2. CASE ~InStop(t)
      <3> DEFINE x == [r EXCEPT !.st = "gone"]
      <3>1. /\ x \in TaskSet /\ x.tg = r.tg /\ x.how = r.how /\ x.call = r.call
            /\ x.code = r.code /\ x.st = "gone"
        BY <1>2 DEF GoodTask, TaskSet, States
      <3>2. r.st = "zombie" BY <1>2, <2>2
      <3>3. s = x BY <2>2
      <3> HIDE DEF x, s, r
      <3>4. GoodTask(x) /\ Reported(r, x)
        BY <1>2, <3>1, <3>2 DEF GoodTask, CallAgrees, StopAgrees, At, Reported
      <3> QED BY <3>3, <3>4
    <2> QED BY <2>1, <2>2
  <1> HIDE DEF s
  <1> QED BY <1>1, <1>3 DEF GoodTasks, GoodTask

Listens(r, s) ==
  /\ At(r, "event_stop") /\ s.tg = r.tg /\ s.how = r.how /\ ~s.seen
  /\ s.st = "listen" \/ At(s, "event_stop")

LEMMA ListenEffect ==
  ASSUME GoodTasks, NEW t \in Tids, PtraceListen(t)
  PROVE  /\ task' \in [Tids -> TaskSet] /\ \A u \in Tids : GoodTask(task'[u])
         /\ Listens(task[t], task'[t]) /\ \A u \in Tids \ {t} : task'[u] = task[u]
         /\ made' = made
  <1> DEFINE r == task[t]
             x == [r EXCEPT !.st = "listen", !.stop = NoStop, !.seen = FALSE]
             y == Halt(r, "event_stop", SIGTRAP, 0, "none")
  <1>1. /\ GoodTask(r) /\ r.st = "stop" /\ r.stop.kind = "event_stop" /\ r \in TaskSet
        /\ r.tg \in Tids /\ made' = made
        /\ task' = [task EXCEPT ![t] = x] \/ task' = [task EXCEPT ![t] = y]
    BY DEF PtraceListen, GoodTasks, InStop, GoodTask
  <1>2. x \in TaskSet /\ x.st = "listen" /\ x.tg = r.tg /\ x.how = r.how /\ ~x.seen
    BY <1>1, NoStopType DEF TaskSet, States
  <1>3. "event_stop" \in Kinds /\ "none" \in Vals /\ SIGTRAP \in Nat /\ 0 \in Int
    BY DEF Kinds, Vals, SIGTRAP
  <1>4. Halted(r, y, "event_stop", 0, "none") BY <1>1, <1>3, HaltGood
  <1> HIDE DEF x, y, r
  <1>5. GoodTask(x) /\ Listens(r, x)
    BY <1>1, <1>2 DEF GoodTask, CallAgrees, StopAgrees, At, Listens
  <1>6. GoodTask(y) /\ Listens(r, y) BY <1>1, <1>4 DEF Halted, At, Listens
  <1> QED BY <1>1, <1>5, <1>6 DEF GoodTasks, GoodTask, r

LEMMA TrappedEffect ==
  ASSUME GoodTasks, NEW T
  PROVE  Everyone(Trapped(T))
  <1> DEFINE f == Trapped(T)
             g(r) == [r EXCEPT !.trap = TRUE, !.st = IF @ = "listen" THEN "user" ELSE @]
  <1>1. SUFFICES ASSUME NEW u \in Tids
                 PROVE  GoodTask(f[u]) /\ Plain(task[u], f[u])
    BY DEF Everyone, Trapped, GoodTask
  <1>2. CASE u \in T /\ Alive(u)
    <2> DEFINE r == task[u]
               x == g(r)
    <2>1. GoodTask(r) /\ Living(r) BY <1>2 DEF GoodTasks, Alive, Living
    <2>2. /\ x \in TaskSet /\ x.tg = r.tg /\ x.how = r.how /\ x.call = r.call
          /\ x.frames = r.frames
          /\ \/ x.st = r.st /\ x.stop = r.stop /\ x.seen = r.seen /\ x.child = r.child
             \/ r.st = "listen" /\ x.st = "user"
      BY <2>1 DEF GoodTask, TaskSet, States
    <2>3. f[u] = x BY <1>2 DEF Trapped
    <2> HIDE DEF x, f, r
    <2>4. GoodTask(x) /\ Stays(r, x) BY <2>1, <2>2, StaysGood
    <2> QED BY <2>3, <2>4 DEF Plain, r
  <1>3. CASE ~(u \in T /\ Alive(u)) BY <1>3 DEF Trapped, GoodTasks, Plain
  <1> QED BY <1>2, <1>3

LEMMA KilledEffect ==
  ASSUME GoodTasks, NEW T
  PROVE  Everyone(Killed(T))
  <1> DEFINE f == Killed(T)
             G == {task[t].tg : t \in {u \in T : task[u].st # "gone"}}
  <1>0. -SIGKILL \in Int BY DEF SIGKILL
  <1>1. SUFFICES ASSUME NEW u \in Tids
                 PROVE  GoodTask(f[u]) /\ Plain(task[u], f[u])
    BY DEF Everyone, Killed, GoodTask
  <1>2. CASE Alive(u) /\ task[u].tg \in G
    <2>1. f[u] = Dead(task[u], -SIGKILL) BY <1>2 DEF Killed
    <2>2. task[u] \in TaskSet /\ task[u].tg \in Tids BY <1>2 DEF GoodTasks, GoodTask, Alive
    <2>3. GoodTask(f[u]) /\ f[u].st = "zombie" /\ f[u].tg = task[u].tg /\ f[u].how = task[u].how
      BY <1>0, <2>1, <2>2, DeadGood
    <2> QED BY <1>2, <2>3 DEF Plain, Dies, Living, Alive
  <1>3. CASE ~(Alive(u) /\ task[u].tg \in G)
    BY <1>3 DEF Killed, GoodTasks, Plain
  <1> QED BY <1>2, <1>3

LEMMA LetGoEffect ==
  ASSUME GoodTasks, NEW t \in Tids, Alive(t),
         task' = [task EXCEPT ![t].how = "free", ![t].trap = FALSE]
  PROVE  /\ task' \in [Tids -> TaskSet] /\ \A u \in Tids : GoodTask(task'[u])
         /\ \A u \in Tids : /\ task'[u].tg = task[u].tg /\ task'[u].st = task[u].st
                            /\ task'[u].stop = task[u].stop /\ task'[u].child = task[u].child
  <1> DEFINE r == task[t]
             s == [r EXCEPT !.how = "free", !.trap = FALSE]
  <1>1. GoodTask(r) /\ Living(r) BY DEF GoodTasks, Alive, Living
  <1>2. /\ s \in TaskSet /\ s.tg = r.tg /\ s.call = r.call
        /\ s.frames = r.frames /\ s.st = r.st /\ s.stop = r.stop /\ s.child = r.child
    BY <1>1 DEF GoodTask, TaskSet
  <1>3. task' = [task EXCEPT ![t] = s] BY <1>1 DEF GoodTask, GoodTasks, TaskSet
  <1> HIDE DEF s
  <1>4. GoodTask(s) BY <1>1, <1>2 DEF GoodTask, CallAgrees, StopAgrees, At, Living
  <1>5. task'[t] = s /\ \A u \in Tids \ {t} : task'[u] = task[u] BY <1>3 DEF GoodTasks
  <1>6. task' \in [Tids -> TaskSet] BY <1>2, <1>3 DEF GoodTasks
  <1>7. \A u \in Tids : GoodTask(task'[u]) BY <1>4, <1>5 DEF GoodTasks
  <1> QED BY <1>2, <1>5, <1>6, <1>7

-----------------------------------------------------------------------------
(* Thread groups: a leader is its own leader and outlives its threads, and *)
(* the events of forks and execs name tasks that were born.                *)
Grouped(f, t) ==
  /\ f[t].st # "none" => f[f[t].tg].tg = f[t].tg
  /\ f[t].st \notin {"none", "gone"} => f[f[t].tg].st # "gone"
  /\ At(f[t], "exec") => f[f[t].stop.msg].tg = t
  /\ f[t].st = "spawned" => f[f[t].child].st # "none"
  /\ At(f[t], "fork") => f[f[t].stop.msg].st # "none"

Groups(f) == \A t \in Tids : Grouped(f, t)

KernelInv ==
  /\ KernelBase /\ Groups(task)
  /\ task[Root].tg = Root

Kept(r, s) ==
  /\ s.tg = r.tg
  /\ r.st = "none" <=> s.st = "none"
  /\ r.st = "gone" <=> s.st = "gone"
  /\ At(s, "exec") => At(r, "exec") /\ s.stop.msg = r.stop.msg
  /\ s.st = "spawned" => r.st = "spawned" /\ s.child = r.child
  /\ At(s, "fork") => \/ At(r, "fork") /\ s.stop.msg = r.stop.msg
                      \/ r.st = "spawned" /\ s.stop.msg = r.child

LEMMA PlainKept ==
  ASSUME NEW r, NEW s, Plain(r, s)
  PROVE  Kept(r, s)
  BY DEF Plain, Stays, Dies, Moves, Living, Kept, At

LEMMA GoesOnKept ==
  ASSUME NEW r, NEW s, NEW h, GoesOn(r, s, h)
  PROVE  Kept(r, s)
  BY DEF GoesOn, Kept, At

LEMMA KeptGroups ==
  ASSUME GoodTasks, Groups(task), NEW f, \A u \in Tids : Kept(task[u], f[u])
  PROVE  Groups(f)
  <1> SUFFICES ASSUME NEW t \in Tids PROVE Grouped(f, t) BY DEF Groups
  <1>1. GoodTask(task[t]) BY DEF GoodTasks
  <1>2. /\ task[t].st # "none" => task[t].tg \in Tids
        /\ At(task[t], "exec") \/ At(task[t], "fork") => task[t].stop.msg \in Tids
        /\ task[t].st = "spawned" => task[t].child \in Tids
    BY <1>1 DEF GoodTask, StopAgrees
  <1>3. Kept(task[t], f[t]) /\ Grouped(task, t) BY DEF Groups
  <1> QED BY <1>2, <1>3 DEF Grouped, Kept

LEMMA KernelKept ==
  ASSUME KernelInv, config' = config, task' \in [Tids -> TaskSet],
         \A u \in Tids : GoodTask(task'[u]),
         made' \in Seq(Calls \cup {"rt_sigreturn"}), Groups(task'), task'[Root].tg = Root
  PROVE  KernelInv'
  <1>1. TaskSet' = TaskSet /\ CallSet' = CallSet
    BY DEF TaskSet, CallSet, AgainSet, FrameSet, Calls
  <1>2. Root' = Root BY DEF Root, InitTasks
  <1>3. GoodTasks' BY <1>1 DEF GoodTasks, GoodTask, CallAgrees, StopAgrees, At
  <1>4. KernelBase' BY <1>3 DEF KernelBase, Calls, KernelInv
  <1>5. (Groups(task))' BY DEF Groups, Grouped, At
  <1> QED BY <1>2, <1>4, <1>5 DEF KernelInv

(* A step that changes no record that matters to the groups. *)
LEMMA KeptStep ==
  ASSUME KernelInv, config' = config, task' \in [Tids -> TaskSet],
         \A u \in Tids : GoodTask(task'[u]) /\ Kept(task[u], task'[u]),
         made' \in Seq(Calls \cup {"rt_sigreturn"})
  PROVE  KernelInv'
  <1>1. Groups(task') BY KeptGroups DEF KernelInv, KernelBase
  <1>2. Root \in Tids BY RootType DEF KernelInv, KernelBase
  <1>3. task'[Root].tg = Root BY <1>2 DEF Kept, KernelInv
  <1> QED BY <1>1, <1>3, KernelKept

LEMMA TasksKeep ==
  ASSUME KernelInv, TasksStep
  PROVE  KernelInv'
  <1>1. KernelBase /\ Groups(task) /\ GoodTasks /\ 0 \notin Tids /\ Root \in Tids
        /\ task[Root].tg = Root
    BY KernelAssumption, RootType DEF KernelInv, KernelBase
  <1>2. /\ config' = config /\ task' \in [Tids -> TaskSet]
        /\ \A u \in Tids : GoodTask(task'[u])
        /\ made' \in Seq(Calls \cup {"rt_sigreturn"})
        /\ \/ Everyone(task')
           \/ \E t, c \in Tids : Forked(t, c, task')
           \/ \E t \in Tids : TakenOver(t, task[t].tg, task')
    BY <1>1, TasksEffect
  <1>3. \A u \in Tids : task[u].st = "none" => task[u].tg = 0
    BY <1>1 DEF GoodTasks, GoodTask, NoTask
  <1>4. \A u \in Tids : /\ task[u].st # "none" => task[u].tg \in Tids
                        /\ At(task[u], "exec") \/ At(task[u], "fork") => task[u].stop.msg \in Tids
                        /\ task[u].st = "spawned" => task[u].child \in Tids
    BY <1>1 DEF GoodTasks, GoodTask, StopAgrees
  <1>5. CASE Everyone(task')
    BY <1>2, <1>5, PlainKept, KeptStep DEF Everyone
  <1>8. ASSUME NEW u \in Tids
        PROVE  /\ task[u].st # "none" => /\ task[u].tg \in Tids /\ task[task[u].tg].tg = task[u].tg
                                         /\ task[task[u].tg].st # "none"
               /\ task[u].st \notin {"none", "gone"} => task[task[u].tg].st # "gone"
               /\ At(task[u], "exec") => /\ task[u].stop.msg \in Tids
                                         /\ task[task[u].stop.msg].tg = u
                                         /\ task[task[u].stop.msg].st # "none"
               /\ task[u].st = "spawned" => task[u].child \in Tids /\ task[task[u].child].st # "none"
               /\ At(task[u], "fork") => /\ task[u].stop.msg \in Tids
                                         /\ task[task[u].stop.msg].st # "none"
    <2>1. Grouped(task, u) BY <1>1 DEF Groups
    <2>2. /\ task[u].st # "none" => task[u].tg \in Tids /\ task[task[u].tg].tg = task[u].tg
          /\ task[u].st \notin {"none", "gone"} => task[task[u].tg].st # "gone"
      BY <1>4, <2>1 DEF Grouped
    <2>3. /\ At(task[u], "exec") => task[u].stop.msg \in Tids /\ task[task[u].stop.msg].tg = u
          /\ task[u].st = "spawned" => task[u].child \in Tids /\ task[task[u].child].st # "none"
          /\ At(task[u], "fork") => task[u].stop.msg \in Tids /\ task[task[u].stop.msg].st # "none"
      BY <1>4, <2>1 DEF Grouped
    <2> QED BY <1>1, <1>3, <2>2, <2>3
  <1>6. ASSUME NEW t \in Tids, NEW c \in Tids, Forked(t, c, task')
        PROVE  Groups(task') /\ task'[Root].tg = Root
    <2>1. /\ t # c /\ task[c].st = "none" /\ task[t].st = "sys" /\ task'[t].st = "spawned"
          /\ task'[t].child = c /\ task'[t].tg = task[t].tg
          /\ task'[c].st = "user" /\ task'[c].tg \in {task[t].tg, c}
          /\ \A u \in Tids \ {t, c} : task'[u] = task[u]
      BY <1>6 DEF Forked
    <2>2. \A u \in Tids : task[u].st # "none" => task'[u].tg = task[u].tg /\ task'[u].st # "none"
      BY <2>1
    <2>3. \A u \in Tids : task[u].st \notin {"none", "gone"} => task'[u].st # "gone"
      BY <2>1
    <2>4. task'[Root].tg = Root BY <1>1, <1>3, <2>2
    <2>5. ASSUME NEW u \in Tids PROVE Grouped(task', u)
      <3>1. task[t].tg \in Tids /\ task[task[t].tg].tg = task[t].tg
            /\ task[task[t].tg].st \notin {"none", "gone"}
        BY <1>8, <2>1
      <3>2. CASE u = c BY <2>1, <2>2, <2>3, <3>1, <3>2 DEF At, Grouped
      <3>3. CASE u = t BY <2>1, <2>2, <2>3, <3>1, <3>3 DEF At, Grouped
      <3>4. CASE u \notin {t, c}
        <4>1. task'[u] = task[u] BY <2>1, <3>4
        <4> QED BY <1>8, <2>2, <2>3, <4>1 DEF Grouped
      <3> QED BY <3>2, <3>3, <3>4
    <2> QED BY <2>4, <2>5 DEF Groups
  <1>7. ASSUME NEW t \in Tids, NEW l, l = task[t].tg, TakenOver(t, l, task')
        PROVE  Groups(task') /\ task'[Root].tg = Root
    <2>1. /\ task[t].st = "exec" /\ task'[l].tg = l
          /\ (At(task'[l], "exec") /\ task'[l].stop.msg = t) \/ task'[l].st = "ret"
          /\ t # l => task'[t].st = "gone" /\ task'[t].tg = l
          /\ \A u \in Tids \ {t, l} : task'[u] = task[u]
      BY <1>7 DEF TakenOver
    <2>2. l \in Tids /\ task[l].tg = l BY <1>7, <1>8, <2>1
    <2>3. \A u \in Tids : task[u].st # "none" => task'[u].tg = task[u].tg /\ task'[u].st # "none"
      BY <1>7, <2>1, <2>2 DEF At
    <2>4. t # l => \A u \in Tids : task[u].tg # t BY <1>1, <1>3, <1>7, <1>8
    <2>5. task'[Root].tg = Root BY <1>1, <1>3, <2>3
    <2>6. ASSUME NEW u \in Tids PROVE Grouped(task', u)
      <3>1. CASE u = l BY <1>7, <2>1, <2>2, <3>1 DEF At, Grouped
      <3>2. CASE u = t /\ t # l BY <2>1, <2>2, <3>2 DEF At, Grouped
      <3>3. CASE u \notin {t, l}
        <4>1. task'[u] = task[u] BY <2>1, <3>3
        <4>2. task[u].st \notin {"none", "gone"} => task'[task[u].tg].st # "gone"
          <5>1. CASE task[u].tg = l BY <2>1, <5>1 DEF At
          <5>2. CASE task[u].tg # l BY <1>8, <2>1, <2>4, <5>2
          <5> QED BY <5>1, <5>2
        <4> QED BY <1>8, <2>3, <4>1, <4>2 DEF Grouped
      <3> QED BY <3>1, <3>2, <3>3
    <2> QED BY <2>5, <2>6 DEF Groups
  <1> QED BY <1>2, <1>5, <1>6, <1>7, KernelKept

LEMMA SameKernel ==
  ASSUME KernelInv, config' = config, task' = task, made' = made
  PROVE  KernelInv'
  <1>1. GoodTasks /\ made \in Seq(Calls \cup {"rt_sigreturn"}) BY DEF KernelInv, KernelBase
  <1>2. \A u \in Tids : GoodTask(task'[u]) /\ Kept(task[u], task'[u])
    BY <1>1 DEF GoodTasks, Kept
  <1> QED BY <1>1, <1>2, KeptStep DEF GoodTasks

LEMMA PlainKernel ==
  ASSUME KernelInv, config' = config, Everyone(task'), made' = made
  PROVE  KernelInv'
  <1>1. made \in Seq(Calls \cup {"rt_sigreturn"}) BY DEF KernelInv, KernelBase
  <1>2. \A u \in Tids : GoodTask(task'[u]) /\ Kept(task[u], task'[u])
    BY PlainKept DEF Everyone
  <1> QED BY <1>1, <1>2, KeptStep DEF Everyone

LEMMA GoingKernel ==
  ASSUME KernelInv, config' = config, NEW t \in Tids, NEW h, SetGoing(t, h, task'), made' = made
  PROVE  KernelInv'
  <1>1. made \in Seq(Calls \cup {"rt_sigreturn"}) BY DEF KernelInv, KernelBase
  <1>2. \A u \in Tids \ {t} : GoodTask(task'[u]) /\ Kept(task[u], task'[u])
    BY PlainKept DEF SetGoing
  <1>3. GoodTask(task'[t]) /\ Kept(task[t], task'[t])
    <2>1. Dies(task[t], task'[t]) => Plain(task[t], task'[t]) BY DEF Plain
    <2> QED BY <2>1, PlainKept, GoesOnKept DEF SetGoing
  <1> QED BY <1>1, <1>2, <1>3, KeptStep DEF SetGoing

LEMMA ReportKernel ==
  ASSUME KernelInv, config' = config, NEW t \in Tids, Waitable(t), task' = Report(t), made' = made
  PROVE  KernelInv'
  <1>1. /\ GoodTasks /\ made \in Seq(Calls \cup {"rt_sigreturn"}) /\ Groups(task)
        /\ Root \in Tids /\ task[Root].tg = Root /\ 0 \notin Tids
    BY RootType, KernelAssumption DEF KernelInv, KernelBase
  <1>2. /\ task' \in [Tids -> TaskSet] /\ \A u \in Tids : GoodTask(task'[u])
        /\ Reported(task[t], task'[t]) /\ \A u \in Tids \ {t} : task'[u] = task[u]
    BY <1>1, ReportEffect
  <1>3. CASE InStop(t)
    <2>1. Kept(task[t], task'[t]) BY <1>2, <1>3 DEF Reported, Kept, At, InStop
    <2>2. \A u \in Tids \ {t} : Kept(task[u], task'[u]) BY <1>2 DEF Kept
    <2> QED BY <1>1, <1>2, <2>1, <2>2, KeptStep
  <1>4. CASE ~InStop(t)
    <2>1. /\ task[t].st = "zombie" /\ task'[t].st = "gone" /\ task'[t].tg = task[t].tg
          /\ task[t].tg = t => \A u \in Others(t) : task[u].st = "gone"
      BY <1>2, <1>4 DEF Reported, Waitable, InStop, Leader
    <2>2. \A u \in Tids \ {t} : task[u].tg = t => task[u].st \in {"none", "gone"}
      <3> SUFFICES ASSUME NEW u \in Tids \ {t}, task[u].tg = t, task[u].st # "none"
                   PROVE  task[u].st = "gone"
        OBVIOUS
      <3>1. task[t].tg = t BY <1>1 DEF Groups, Grouped
      <3> QED BY <2>1, <3>1 DEF Others
    <2>3. \A u \in Tids : /\ task'[u].tg = task[u].tg
                          /\ task'[u].st = "none" <=> task[u].st = "none"
      BY <1>2, <2>1
    <2>4. ASSUME NEW u \in Tids PROVE Grouped(task', u)
      <3>1. Grouped(task, u) /\ GoodTask(task[u]) BY <1>1 DEF Groups, GoodTasks
      <3>2. CASE u = t
        BY <1>1, <2>1, <2>3, <3>1, <3>2 DEF Grouped, At, GoodTask
      <3>3. CASE u # t
        <4>1. task'[u] = task[u] BY <1>2, <3>3
        <4>2. /\ task[u].st # "none" => task[u].tg \in Tids
              /\ At(task[u], "exec") \/ At(task[u], "fork") => task[u].stop.msg \in Tids
              /\ task[u].st = "spawned" => task[u].child \in Tids
          BY <3>1 DEF GoodTask, StopAgrees
        <4>3. task[u].st \notin {"none", "gone"} => task'[task[u].tg].st # "gone"
          BY <1>2, <2>2, <3>1, <3>3, <4>2 DEF Grouped
        <4> QED BY <2>3, <3>1, <4>1, <4>2, <4>3 DEF Grouped
      <3> QED BY <3>2, <3>3
    <2>5. Groups(task') BY <2>4 DEF Groups
    <2>6. task'[Root].tg = Root BY <1>1, <2>3
    <2> QED BY <1>1, <1>2, <2>5, <2>6, KernelKept
  <1> QED BY <1>3, <1>4

LEMMA ListenKernel ==
  ASSUME KernelInv, config' = config, NEW t \in Tids, PtraceListen(t)
  PROVE  KernelInv'
  <1>1. GoodTasks /\ made \in Seq(Calls \cup {"rt_sigreturn"}) BY DEF KernelInv, KernelBase
  <1>2. /\ task' \in [Tids -> TaskSet] /\ \A u \in Tids : GoodTask(task'[u])
        /\ Listens(task[t], task'[t]) /\ \A u \in Tids \ {t} : task'[u] = task[u]
        /\ made' = made
    BY <1>1, ListenEffect
  <1>3. Kept(task[t], task'[t]) BY <1>2 DEF Listens, Kept, At
  <1>4. \A u \in Tids \ {t} : Kept(task[u], task'[u]) BY <1>2 DEF Kept
  <1> QED BY <1>1, <1>2, <1>3, <1>4, KeptStep

-----------------------------------------------------------------------------
(* What no step undoes: a task that was born stays in its thread group,    *)
(* and one that has been reaped does not change.  And an exec's event      *)
(* leaves nothing of the thread whose execve it was, unless it led its     *)
(* group.                                                                  *)
Ages(f, u) ==
  /\ task[u].st # "none" => f[u].tg = task[u].tg /\ f[u].st # "none"
  /\ task[u].st = "gone" => f[u] = task[u]
  /\ At(f[u], "exec") => \/ At(task[u], "exec") /\ f[u].stop.msg = task[u].stop.msg
                         \/ f[u].execd /\ f[u].stop.msg = u
                         \/ f[u].execd /\ f[f[u].stop.msg].st = "gone"

LEMMA PlainAges ==
  ASSUME NEW f, NEW u, Plain(task[u], f[u])
  PROVE  Ages(f, u)
  BY DEF Plain, Stays, Dies, Moves, Living, Ages, At

LEMMA GoingAges ==
  ASSUME NEW t \in Tids, NEW h, SetGoing(t, h, task')
  PROVE  \A u \in Tids : Ages(task', u)
  <1>1. \A u \in Tids \ {t} : Ages(task', u) BY PlainAges DEF SetGoing
  <1>2. Ages(task', t) BY DEF SetGoing, Dies, Living, GoesOn, Ages, At
  <1> QED BY <1>1, <1>2

LEMMA ReportAges ==
  ASSUME GoodTasks, NEW t \in Tids, Waitable(t), task' = Report(t)
  PROVE  \A u \in Tids : Ages(task', u)
  <1>1. Reported(task[t], task'[t]) /\ \A u \in Tids \ {t} : task'[u] = task[u]
    BY ReportEffect
  <1> QED BY <1>1 DEF Reported, Ages, At

LEMMA DetachAges ==
  ASSUME GoodTasks, NEW t \in Tids, NEW s \in Nat, PtraceDetach(t, s)
  PROVE  \A u \in Tids : Ages(task', u)
  <1>1. SetGoing(t, "free", task') BY DetachEffect
  <1> QED BY <1>1, GoingAges

-----------------------------------------------------------------------------
(* has_pending_syscall and the kernel.  Before the tracer has acted on a   *)
(* stop, and while a task runs, a call is pending exactly while the kernel *)
(* has the task in one that was traced; after it has, the entry or exit is *)
(* accounted for.  An exec leaves a tid with the record of its leader or   *)
(* with that of the thread that took it over, hence the exemption.         *)
Within(r) == r.st \in {"sys", "spawned", "ret", "exec"} \/ At(r, "exit") \/ At(r, "fork")

Ends(r)   == /\ r.call.nr \in Forks \cup {"execve"}
             /\ r.st = "ret" \/ At(r, "exec") \/ (At(r, "exit") /\ r.stop.val = "ok")

Before(r, p) ==
  \/ At(r, "exec")
  \/ /\ r.how = "CONT" => p = NoCall
     /\ p # NoCall => Within(r)
     /\ r.how = "SYSCALL" /\ Within(r) /\ ~Ends(r) => p # NoCall
     /\ Seccomp /\ r.how = "SYSCALL" => Within(r)
     /\ At(r, "entry") => ~Seccomp

After(r, p) ==
  /\ At(r, "entry") => p # NoCall /\ ~Seccomp
  /\ At(r, "seccomp") => p # NoCall
  /\ At(r, "exit") => p = NoCall
  /\ ~(At(r, "entry") \/ At(r, "seccomp") \/ At(r, "exit")) => Before(r, p)

LEMMA PlainBefore ==
  ASSUME NEW r, NEW s, NEW p, GoodTask(r), Plain(r, s), r.how # "free", Living(s), Before(r, p)
  PROVE  Living(r) /\ Before(s, p)
  <1>1. r \in TaskSet /\ r.how \in {"CONT", "SYSCALL"} BY DEF GoodTask, TaskSet
  <1>2. CASE s = r BY <1>2
  <1>3. CASE Stays(r, s)
    BY <1>3 DEF Stays, Before, Within, Ends, At
  <1>4. CASE Dies(r, s) BY <1>4 DEF Dies, Living
  <1>5. CASE Moves(r, s)
    <2>1. ~At(r, "exec") /\ Living(r) /\ s.how = r.how BY <1>5 DEF Moves, At
    <2>2. r.st = "ret" => r.call.nr \in Forks \cup {"execve"} BY DEF GoodTask, CallAgrees
    <2>3. CASE At(s, "exit") /\ r.st \in {"sys", "ret"}
      <3>1. r.st = "ret" => Ends(s) BY <1>5, <2>2, <2>3 DEF Moves, Ends, At
      <3>2. r.st = "sys" => ~Ends(r) BY DEF Ends, At
      <3>3. Within(r) /\ Within(s) BY <2>3 DEF Within
      <3> QED BY <1>1, <2>1, <2>3, <3>1, <3>2, <3>3 DEF Before, At
    <2>4. CASE ~(At(s, "exit") /\ r.st \in {"sys", "ret"})
      BY <1>1, <1>5, <2>1, <2>4 DEF Moves, Before, Within, Ends, At
    <2> QED BY <2>1, <2>3, <2>4
  <1> QED BY <1>2, <1>3, <1>4, <1>5 DEF Plain

LEMMA PlainStopped ==
  ASSUME NEW r, NEW s, Plain(r, s), r.st \in {"stop", "zombie", "gone"}
  PROVE  /\ s.st \in {"stop", "zombie", "gone"}
         /\ s.st = "stop" => /\ r.st = "stop" /\ s.stop = r.stop
                             /\ s.how = r.how /\ s.call = r.call
  BY DEF Plain, Stays, Dies, Moves, Living, At

LEMMA SameAfter ==
  ASSUME NEW r, NEW s, NEW p, After(r, p), s.st = r.st, s.stop = r.stop, s.how = r.how,
         s.call = r.call
  PROVE  After(s, p)
  BY DEF After, Before, Within, Ends, At

(* The tracer's request sets the task going in step. *)
LEMMA GoesOnBefore ==
  ASSUME NEW r, NEW s, NEW p, GoodTask(r), r.how # "free", After(r, p),
         NEW h, h = IF Seccomp /\ p = NoCall THEN "CONT" ELSE "SYSCALL", GoesOn(r, s, h)
  PROVE  Before(s, p)
  <1>1. r \in TaskSet /\ r.how \in {"CONT", "SYSCALL"} BY DEF GoodTask, TaskSet
  <1>2. s.how = h /\ r.st = "stop" BY DEF GoesOn
  <1>3. CASE At(r, "entry") \/ At(r, "seccomp")
    <2>1. p # NoCall /\ h = "SYSCALL" BY <1>3 DEF After
    <2>2. s.st = "sys" BY <1>3 DEF After, GoesOn, At
    <2> QED BY <1>2, <2>1, <2>2 DEF Before, Within, At
  <1>4. CASE At(r, "exit")
    <2>1. p = NoCall /\ s.st = "user" BY <1>4 DEF After, GoesOn, At
    <2> QED BY <1>2, <2>1 DEF Before, Within, At
  <1>5. CASE At(r, "fork") \/ At(r, "exec")
    <2>1. r.call.nr \in Forks \cup {"execve"} BY <1>5 DEF GoodTask, CallAgrees
    <2>2. s.st = "ret" /\ s.call = r.call BY <1>5 DEF GoesOn, At
    <2> QED BY <1>2, <2>1, <2>2 DEF Before, Within, Ends, At
  <1>6. CASE r.stop.kind \notin {"entry", "seccomp", "exit", "fork", "exec"}
    <2>1. s.st = "user" BY <1>6 DEF GoesOn, At
    <2>2. ~Within(r) /\ Before(r, p) BY <1>2, <1>6 DEF After, Within, At
    <2>3. p = NoCall BY <1>6, <2>2 DEF Before, At
    <2> QED BY <1>2, <2>1, <2>3 DEF Before, Within, At
  <1> QED BY <1>2, <1>3, <1>4, <1>5, <1>6 DEF At

-----------------------------------------------------------------------------
(* Whether a task has executed a new program changes only in the event of  *)
(* an execve.                                                              *)
SameProgram(f) == \A u \in Tids : task[u].st # "none" => f[u].execd = task[u].execd

LEMMA RecordPrograms ==
  ASSUME NEW r \in TaskSet
  PROVE  /\ \A kind, sig, msg, val : Halt(r, kind, sig, msg, val).execd = r.execd
         /\ \A code : Dead(r, code).execd = r.execd
         /\ \A c : Enter(r, c).execd = r.execd
         /\ \A val : Leave(r, val).execd = r.execd
         /\ \A kind, msg : Event(r, kind, msg).execd = r.execd
         /\ Continue(r).execd = r.execd
  <1>1. \A kind, sig, msg, val : Halt(r, kind, sig, msg, val).execd = r.execd
    BY DEF Halt, TaskSet
  <1>2. \A code : Dead(r, code).execd = r.execd BY DEF Dead, NoTask
  <1>3. \A c : Enter(r, c).execd = r.execd BY DEF Enter, Halt, InSyscall, TaskSet
  <1>4. \A val : Leave(r, val).execd = r.execd BY DEF Leave, Halt, TaskSet
  <1>5. \A kind, msg : Event(r, kind, msg).execd = r.execd BY DEF Event, Halt, TaskSet
  <1>6. Continue(r).execd = r.execd BY DEF Continue, TaskSet
  <1> QED BY <1>1, <1>2, <1>3, <1>4, <1>5, <1>6

LEMMA OneProgram ==
  ASSUME GoodTasks, NEW t \in Tids, NEW s, s.execd = task[t].execd
  PROVE  SameProgram([task EXCEPT ![t] = s])
  BY DEF SameProgram, GoodTasks

LEMMA KillPrograms ==
  ASSUME GoodTasks, NEW g, NEW code
  PROVE  SameProgram(KillGroup(g, code))
  <1>1. \A u \in Tids : task[u] \in TaskSet BY DEF GoodTasks
  <1>2. ASSUME NEW u \in Tids PROVE KillGroup(g, code)[u].execd = task[u].execd
    <2>1. Dead(task[u], code).execd = task[u].execd BY <1>1, RecordPrograms
    <2> QED BY <2>1 DEF KillGroup
  <1> QED BY <1>2 DEF SameProgram

LEMMA DeliverPrograms ==
  ASSUME GoodTasks, NEW t \in Tids, NEW base \in TaskSet, base.execd = task[t].execd,
         NEW s, NEW h, Deliver(t, base, s, h)
  PROVE  SameProgram(task')
  <1> DEFINE r == [base EXCEPT !.st = "user", !.how = h, !.stop = NoStop, !.seen = FALSE]
  <1>1. r.execd = base.execd BY DEF TaskSet
  <1>2. DOMAIN r = DOMAIN base BY DEF TaskSet
  <1>3. \/ task' = [task EXCEPT ![t] = r]
        \/ \E code : task' = KillGroup(r.tg, code)
        \/ \E g : task' = [u \in Tids |->
                           IF Alive(u) /\ task[u].tg = r.tg
                             THEN [IF u = t THEN r ELSE task[u] EXCEPT !.gst = g]
                             ELSE task[u]]
        \/ \E x : task' = [task EXCEPT ![t] =
                             [r EXCEPT !.rst = NoCall, !.again = NoCall, !.frames = x \o @]]
    BY DEF Deliver
  <1>4. \A g : [r EXCEPT !.gst = g].execd = base.execd BY DEF TaskSet
  <1>5. \A x : [r EXCEPT !.rst = NoCall, !.again = NoCall, !.frames = x \o @].execd = base.execd
    BY DEF TaskSet
  <1> HIDE DEF r
  <1>6. \A u \in Tids : \A g : [task[u] EXCEPT !.gst = g].execd = task[u].execd
    BY DEF GoodTasks, TaskSet
  <1>7. CASE \E g : task' = [u \in Tids |->
                           IF Alive(u) /\ task[u].tg = r.tg
                             THEN [IF u = t THEN r ELSE task[u] EXCEPT !.gst = g]
                             ELSE task[u]]
    BY <1>4, <1>6, <1>7 DEF SameProgram
  <1>8. ASSUME NEW x, task' = [task EXCEPT ![t] =
                             [r EXCEPT !.rst = NoCall, !.again = NoCall, !.frames = x \o @]]
        PROVE  SameProgram(task')
    <2> DEFINE y == [r EXCEPT !.rst = NoCall, !.again = NoCall, !.frames = x \o @]
    <2>1. y.execd = task[t].execd BY <1>5
    <2> HIDE DEF y
    <2>2. SameProgram([task EXCEPT ![t] = y]) BY <2>1, OneProgram
    <2> QED BY <1>8, <2>2 DEF y
  <1>9. CASE task' = [task EXCEPT ![t] = r] BY <1>1, <1>9, OneProgram
  <1>10. CASE \E code : task' = KillGroup(r.tg, code) BY <1>10, KillPrograms
  <1> QED BY <1>3, <1>7, <1>8, <1>9, <1>10

LEMMA GoOnPrograms ==
  ASSUME GoodTasks, NEW t \in Tids, NEW r \in TaskSet, r.execd = task[t].execd,
         NEW s, NEW h, GoOn(t, r, s, h)
  PROVE  SameProgram(task')
  <1> DEFINE e == [r EXCEPT !.how = h, !.stop = NoStop, !.seen = FALSE]
  <1>1. /\ Halt(e, "seccomp", 0, 0, "none").execd = r.execd
        /\ InSyscall(e).execd = r.execd
        /\ [e EXCEPT !.st = "user", !.call = NoCall].execd = r.execd
        /\ [e EXCEPT !.st = "ret"].execd = r.execd
        /\ [e EXCEPT !.st = "user"].execd = r.execd
    BY DEF Halt, InSyscall, TaskSet
  <1>2. \/ \E x \in {Halt(e, "seccomp", 0, 0, "none"), InSyscall(e),
                     [e EXCEPT !.st = "user", !.call = NoCall], [e EXCEPT !.st = "ret"],
                     [e EXCEPT !.st = "user"]} : task' = [task EXCEPT ![t] = x]
        \/ Deliver(t, r, s, h)
    BY DEF GoOn
  <1>3. CASE Deliver(t, r, s, h) BY <1>3, DeliverPrograms
  <1>4. ASSUME NEW x, x.execd = r.execd, task' = [task EXCEPT ![t] = x] PROVE SameProgram(task')
    BY <1>4, OneProgram
  <1> HIDE DEF e
  <1> QED BY <1>1, <1>2, <1>3, <1>4

(* Fork changes two tasks. *)
LEMMA ForkBorn ==
  ASSUME NEW t \in Tids, Fork(t)
  PROVE  \E c, b : /\ c \in Unborn /\ task[t].st = "sys"
                   /\ task' = [task EXCEPT ![t].st = "spawned", ![t].child = c, ![c] = b]
  <1> DEFINE c == CHOOSE u \in Unborn : \A v \in Unborn : u <= v
  <1>1. Unborn # {} /\ Unborn \subseteq Nat
    BY KernelAssumption DEF Fork, Unborn
  <1>2. c \in Unborn
    <2>1. Unborn \in SUBSET Nat BY <1>1
    <2>2. \E u \in Unborn : \A v \in Unborn : u <= v
      <3> HIDE DEF c
      <3> QED BY <1>1, <2>1, LeastElement
    <2> QED BY <2>2
  <1>3. task[t].st = "sys" /\ \E b : task' = [task EXCEPT ![t].st = "spawned", ![t].child = c, ![c] = b]
    BY DEF Fork
  <1> HIDE DEF c
  <1> QED BY <1>2, <1>3

LEMMA TasksPrograms ==
  ASSUME KernelBase, TasksStep, ~\E t \in Tids : ExecEvent(t)
  PROVE  SameProgram(task')
  <1>1. /\ GoodTasks /\ Root \in Tids /\ \A u \in Tids : task[u] \in TaskSet
    BY RootType DEF KernelBase, GoodTasks
  <1>2. CASE SetupFails
    <2>1. Dead(task[Root], 126).execd = task[Root].execd BY <1>1, RecordPrograms
    <2> QED BY <1>1, <1>2, <2>1, OneProgram DEF SetupFails
  <1>3. ASSUME NEW t \in Tids, KernelStep(t) \/ ProgramStep(t)
        PROVE  SameProgram(task')
    <2> DEFINE r == task[t]
    <2>1. r \in TaskSet BY <1>1
    <2>2. ASSUME NEW s, s.execd = r.execd, task' = [task EXCEPT ![t] = s] PROVE SameProgram(task')
      BY <1>1, <2>2, OneProgram
    <2>3. CASE \E nr \in Calls \cup {"rt_sigreturn"} : EnterSyscall(t, nr)
      <3>1. \E c : task' = [task EXCEPT ![t] = Enter(task[t], c)] BY <2>3 DEF EnterSyscall
      <3> QED BY <2>1, <2>2, <3>1, RecordPrograms
    <2>4. CASE DecideRestart(t)
      <3>1. PICK a : task' = [task EXCEPT ![t] = [r EXCEPT !.rst = NoCall, !.again = a]]
        BY <1>1, <2>4 DEF DecideRestart, GoodTasks, TaskSet
      <3>2. [r EXCEPT !.rst = NoCall, !.again = a].execd = r.execd BY <2>1 DEF TaskSet
      <3> QED BY <2>2, <3>1, <3>2
    <2>5. CASE Restart(t)
      <3> DEFINE x == [r EXCEPT !.again = NoCall]
      <3>1. x \in TaskSet /\ x.execd = r.execd BY <2>1, NoCallAgain DEF TaskSet
      <3>2. task' = [task EXCEPT ![t] = Enter(x, task[t].again)] BY <2>5 DEF Restart
      <3> HIDE DEF x
      <3> QED BY <2>2, <3>1, <3>2, RecordPrograms
    <2>6. CASE \E val \in {"ok", "err"} : Return(t, val)
      <3>1. \E val : task' = [task EXCEPT ![t] = Leave(task[t], val)] BY <2>6 DEF Return
      <3> QED BY <2>1, <2>2, <3>1, RecordPrograms
    <2>7. ASSUME NEW x, x.execd = r.execd, DOMAIN x = DOMAIN r, NEW val,
                 task' = [task EXCEPT ![t] = Leave(x, val)]
          PROVE  SameProgram(task')
      <3>1. Leave(x, val).execd = x.execd BY <2>1, <2>7 DEF Leave, Halt, TaskSet
      <3> QED BY <2>2, <2>7, <3>1
    <2>8. CASE Sigreturn(t)
      <3> DEFINE a == Head(r.frames).rst
                 f == Tail(r.frames)
                 x == [r EXCEPT !.again = a, !.frames = f]
      <3>2. task' = [task EXCEPT ![t] = Leave(x, "ok")] BY <2>8 DEF Sigreturn
      <3> HIDE DEF a, f
      <3>1. x.execd = r.execd /\ DOMAIN x = DOMAIN r BY <2>1 DEF TaskSet
      <3> HIDE DEF x
      <3> QED BY <2>7, <3>1, <3>2
    <2>9. CASE Interrupted(t)
      <3> DEFINE x == [r EXCEPT !.rst = task[t].call]
      <3>1. x.execd = r.execd /\ DOMAIN x = DOMAIN r BY <2>1 DEF TaskSet
      <3>2. task' = [task EXCEPT ![t] = Leave(x, "restart")] BY <2>9 DEF Interrupted
      <3> HIDE DEF x
      <3> QED BY <2>7, <3>1, <3>2
    <2>10. CASE Complete(t)
      <3> DEFINE x == [r EXCEPT !.child = 0]
      <3>1. x.execd = r.execd /\ DOMAIN x = DOMAIN r BY <2>1 DEF TaskSet
      <3>2. task' = [task EXCEPT ![t] = Leave(x, "ok")] BY <2>10 DEF Complete
      <3> HIDE DEF x
      <3> QED BY <2>7, <3>1, <3>2
    <2>11. CASE Fork(t)
      <3>1. PICK c, b : /\ c \in Unborn /\ task[t].st = "sys"
                        /\ task' = [task EXCEPT ![t].st = "spawned", ![t].child = c, ![c] = b]
        BY <2>11, <1>1, ForkBorn
      <3>2. c \in Tids /\ task[c].st = "none" /\ c # t BY <3>1 DEF Unborn
      <3>3. ASSUME NEW u \in Tids \ {c} PROVE task'[u].execd = task[u].execd
        <4> DEFINE q == task[t]
                   v == [q EXCEPT !.st = "spawned"]
                   w == [v EXCEPT !.child = c]
        <4>1. q \in TaskSet BY <1>1 DEF GoodTasks
        <4>2. task' = [task EXCEPT ![t] = w, ![c] = b] BY <1>1, <3>1, <3>2 DEF GoodTasks
        <4> HIDE DEF q
        <4>3. w.execd = q.execd BY <4>1 DEF TaskSet
        <4> HIDE DEF w
        <4>4. task'[t] = w BY <1>1, <3>2, <4>2 DEF GoodTasks
        <4>5. u # t => task'[u] = task[u] BY <1>1, <3>2, <4>2 DEF GoodTasks
        <4> QED BY <4>3, <4>4, <4>5 DEF q
      <3> QED BY <3>2, <3>3 DEF SameProgram
    <2>12. CASE ForkEvent(t)
      <3>1. task' = [task EXCEPT ![t] = Event(r, "fork", r.child)] BY <2>12 DEF ForkEvent
      <3>2. Event(r, "fork", r.child).execd = r.execd BY <2>1, RecordPrograms
      <3> QED BY <2>2, <3>1, <3>2
    <2>13. CASE GetSignal(t)
      <3> DEFINE s == LowestSignal(t)
      <3>1. \E x, kind, sig, val :
              /\ x.execd = r.execd /\ DOMAIN x = DOMAIN r
              /\ task' = [task EXCEPT ![t] = Halt(x, kind, sig, 0, val)]
        <4>1. /\ [r EXCEPT !.gst = 0, !.trap = FALSE].execd = r.execd
              /\ [r EXCEPT !.trap = FALSE].execd = r.execd
              /\ [r EXCEPT !.sigs = @ \ {s}, !.auto = @ /\ s # SIGSTOP].execd = r.execd
              /\ DOMAIN [r EXCEPT !.gst = 0, !.trap = FALSE] = DOMAIN r
              /\ DOMAIN [r EXCEPT !.trap = FALSE] = DOMAIN r
              /\ DOMAIN [r EXCEPT !.sigs = @ \ {s}, !.auto = @ /\ s # SIGSTOP] = DOMAIN r
          BY <2>1 DEF TaskSet
        <4>2. CASE r.gst # 0 BY <2>13, <4>1, <4>2 DEF GetSignal
        <4>3. CASE r.gst = 0 /\ r.trap BY <2>13, <4>1, <4>3 DEF GetSignal
        <4>4. CASE r.gst = 0 /\ ~r.trap BY <2>13, <4>1, <4>4 DEF GetSignal
        <4> QED BY <4>2, <4>3, <4>4
      <3>2. PICK x, kind, sig, val :
              /\ x.execd = r.execd /\ DOMAIN x = DOMAIN r
              /\ task' = [task EXCEPT ![t] = Halt(x, kind, sig, 0, val)]
        BY <3>1
      <3>3. Halt(x, kind, sig, 0, val).execd = x.execd BY <2>1, <3>2 DEF Halt, TaskSet
      <3> QED BY <2>2, <3>2, <3>3
    <2>14. CASE GetSignalUntraced(t)
      <3>1. CASE r.gst # 0
        <4>1. task' = [task EXCEPT ![t].st = "listen", ![t].gst = 0]
          BY <2>14, <3>1 DEF GetSignalUntraced
        <4> QED BY <1>1, <4>1 DEF SameProgram, GoodTasks, TaskSet
      <3>2. CASE r.gst = 0
        <4> DEFINE s == LowestSignal(t)
                   b == [r EXCEPT !.sigs = @ \ {s}]
        <4>1. Deliver(t, b, s, "free") BY <2>14, <3>2 DEF GetSignalUntraced
        <4>2. b \in TaskSet /\ b.execd = r.execd BY <2>1 DEF TaskSet
        <4> HIDE DEF b, s
        <4> QED BY <1>1, <4>1, <4>2, DeliverPrograms
      <3> QED BY <3>1, <3>2
    <2>15. CASE \E code \in ExitCodes : ExitGroup(t, code)
      BY <1>1, <2>15, KillPrograms DEF ExitGroup
    <2>16. CASE ExitThread(t)
      <3>1. task' = [task EXCEPT ![t] = Dead(r, 0)] BY <2>16 DEF ExitThread
      <3> QED BY <2>1, <2>2, <3>1, RecordPrograms
    <2>17. CASE ExecBegin(t)
      <3> DEFINE k == KillGroup(task[t].tg, 0)
                 x == [task[t] EXCEPT !.st = "exec"]
      <3>1. SameProgram(k) /\ DOMAIN k = Tids BY <1>1, KillPrograms DEF KillGroup
      <3>2. x.execd = r.execd BY <2>1 DEF TaskSet
      <3>3. task' = [k EXCEPT ![t] = x] BY <2>17 DEF ExecBegin
      <3> HIDE DEF k, x
      <3> QED BY <3>1, <3>2, <3>3 DEF SameProgram
    <2>18. CASE \E s \in Signals : SendSignal(t, s)
      <3>1. PICK s : SendSignal(t, s) BY <2>18
      <3>2. \A u \in Tids : Continue(task[u]).execd = task[u].execd
        BY <1>1, RecordPrograms
      <3>3. \A u \in Tids : DOMAIN Continue(task[u]) = DOMAIN task[u]
        BY <1>1 DEF Continue, TaskSet
      <3> DEFINE g == task[t].tg
                 f == [u \in Tids |-> IF Alive(u) /\ task[u].tg = g THEN Continue(task[u])
                                      ELSE task[u]]
      <3>4. \/ \E code : task' = KillGroup(g, code)
            \/ task' = [f EXCEPT ![t] = [f[t] EXCEPT !.sigs = @ \cup {s}]]
            \/ task' = [task EXCEPT ![t] = [task[t] EXCEPT !.sigs = @ \cup {s}]]
        <4>1. CASE s = SIGKILL BY <3>1, <4>1 DEF SendSignal
        <4>2. CASE s # SIGKILL /\ Disposition[s] = "cont" BY <3>1, <4>2 DEF SendSignal
        <4>3. CASE s # SIGKILL /\ Disposition[s] # "cont" BY <3>1, <4>3 DEF SendSignal
        <4> QED BY <4>1, <4>2, <4>3
      <3>5. \A u \in Tids : f[u].execd = task[u].execd /\ DOMAIN f[u] = DOMAIN task[u]
        BY <3>2, <3>3
      <3>6. DOMAIN f = Tids OBVIOUS
      <3> HIDE DEF f
      <3>7. [f[t] EXCEPT !.sigs = @ \cup {s}].execd = r.execd
        BY <2>1, <3>5 DEF TaskSet
      <3>8. [task[t] EXCEPT !.sigs = @ \cup {s}].execd = r.execd BY <2>1 DEF TaskSet
      <3>9. CASE task' = [f EXCEPT ![t] = [f[t] EXCEPT !.sigs = @ \cup {s}]]
        BY <3>5, <3>6, <3>7, <3>9 DEF SameProgram
      <3>10. CASE task' = [task EXCEPT ![t] = [task[t] EXCEPT !.sigs = @ \cup {s}]]
        BY <2>2, <3>8, <3>10
      <3> QED BY <1>1, <3>4, <3>9, <3>10, KillPrograms
    <2> QED BY <1>3, <2>3, <2>4, <2>5, <2>6, <2>8, <2>9, <2>10, <2>11, <2>12, <2>13, <2>14,
               <2>15, <2>16, <2>17, <2>18 DEF KernelStep, ProgramStep
  <1> QED BY <1>2, <1>3 DEF TasksStep

LEMMA TrapPrograms ==
  ASSUME GoodTasks, NEW T
  PROVE  SameProgram(Trapped(T)) /\ SameProgram(Killed(T))
  <1>1. \A u \in Tids : task[u] \in TaskSet BY DEF GoodTasks
  <1>2. SameProgram(Trapped(T)) BY <1>1 DEF SameProgram, Trapped, TaskSet
  <1>3. \A u \in Tids : Dead(task[u], -SIGKILL).execd = task[u].execd BY <1>1, RecordPrograms
  <1>4. SameProgram(Killed(T)) BY <1>3 DEF SameProgram, Killed
  <1> QED BY <1>2, <1>4

LEMMA ReportPrograms ==
  ASSUME GoodTasks, NEW t \in Tids
  PROVE  SameProgram(Report(t))
  BY DEF SameProgram, Report, GoodTasks, TaskSet

LEMMA DetachPrograms ==
  ASSUME GoodTasks, NEW t \in Tids, NEW s, PtraceDetach(t, s)
  PROVE  SameProgram(task')
  <1> DEFINE g == IF task[t].tg \in jobstop THEN SIGSTOP ELSE task[t].gst
             r == [task[t] EXCEPT !.trap = FALSE, !.gst = g]
  <1>1. GoOn(t, r, s, "free") BY DEF PtraceDetach
  <1>2. g \in Nat BY DEF GoodTasks, TaskSet, SIGSTOP
  <1> HIDE DEF g
  <1>3. r \in TaskSet /\ SameButGroup(task[t], r, g)
    <2>1. task[t] \in TaskSet BY DEF GoodTasks
    <2> QED BY <1>2, <2>1, DetachRecord
  <1>4. r.execd = task[t].execd BY <1>3 DEF SameButGroup
  <1> HIDE DEF r
  <1> QED BY <1>1, <1>3, <1>4, GoOnPrograms

-----------------------------------------------------------------------------
(* Detaching: a task that halts goes on only if the tracer lets it.        *)
Halting(r) == r.st \in {"stop", "zombie", "gone"} \/ r.how = "free"

(* What a step does to the tasks, as far as a detached one is concerned. *)
LetGo(t)  == ~Alive(t) \/ task[t].how = "free" \/ At(task[t], "exec")

Steady(t) == /\ Halting(task[t]) => Halting(task'[t])
             /\ task[t].st # "none" => task'[t].st # "none"
             /\ LetGo(t) /\ task[t].st # "none" => LetGo(t)'

LEMMA PlainSteady ==
  ASSUME NEW t \in Tids, Plain(task[t], task'[t])
  PROVE  Steady(t)
  BY DEF Plain, Stays, Dies, Moves, Living, Steady, Halting, LetGo, Alive, At

LEMMA EveryoneSteady ==
  ASSUME Everyone(task')
  PROVE  \A t \in Tids : Steady(t)
  BY PlainSteady DEF Everyone

LEMMA SameSteady ==
  ASSUME task' = task
  PROVE  \A t \in Tids : Steady(t)
  BY DEF Steady, LetGo, Alive, At

LEMMA ReportSteady ==
  ASSUME GoodTasks, NEW t \in Tids, Waitable(t), task' = Report(t)
  PROVE  (\A u \in Tids : Steady(u)) /\ (InStop(t) \/ LetGo(t)')
  <1>1. Reported(task[t], task'[t]) /\ \A u \in Tids \ {t} : task'[u] = task[u]
    BY ReportEffect
  <1> QED BY <1>1 DEF Reported, Steady, Halting, LetGo, Alive, At, InStop

(* A task set going no longer halts, unless it was let go. *)
LEMMA GoingSteady ==
  ASSUME NEW t \in Tids, NEW h, SetGoing(t, h, task')
  PROVE  /\ \A u \in Tids \ {t} : Steady(u)
         /\ task'[t].st # "none"
         /\ h = "free" => Steady(t) /\ LetGo(t)'
  <1>1. \A u \in Tids \ {t} : Steady(u) BY PlainSteady DEF SetGoing
  <1>2. Dies(task[t], task'[t]) \/ GoesOn(task[t], task'[t], h) BY DEF SetGoing
  <1>3. CASE Dies(task[t], task'[t]) BY <1>1, <1>3 DEF Dies, Living, Steady, Halting, LetGo, Alive
  <1>4. CASE GoesOn(task[t], task'[t], h)
    BY <1>1, <1>4 DEF GoesOn, Steady, Halting, LetGo, Alive, At
  <1> QED BY <1>2, <1>3, <1>4

LEMMA DetachSteady ==
  ASSUME GoodTasks, NEW t \in Tids, NEW s \in Nat, PtraceDetach(t, s)
  PROVE  (\A u \in Tids : Steady(u)) /\ LetGo(t)'
  <1>1. SetGoing(t, "free", task') BY DetachEffect
  <1> QED BY <1>1, GoingSteady

-----------------------------------------------------------------------------
(* Job control.  A task of a stopped group has its group stop before it    *)
(* (gst), or is in it, as reported or as left by PTRACE_LISTEN; when       *)
(* detach_all_tracees has interrupted it, it stops once more.              *)
Resting(r) == \/ r.gst # 0 \/ r.st = "listen"
              \/ At(r, "event_stop") /\ r.stop.sig # SIGTRAP

Caught(r)  == \/ r.gst # 0 \/ r.st = "listen" \/ At(r, "event_stop")
              \/ r.st = "user" /\ r.trap

GroupStops == {0} \cup 19..22

(* The tasks f of the stopped groups js rest; those in K may be caught. *)
AtRest(f, js, K) ==
  /\ \A u \in Tids : f[u].gst \in GroupStops
  /\ \A g \in js : \E u \in Tids : f[u].tg = g /\ f[u].st # "none"
  /\ \A u \in Tids : Living(f[u]) /\ f[u].tg \in js =>
       Resting(f[u]) \/ (u \in K /\ Caught(f[u]))

(* What a step may do to a task's rest. *)
Rests(r, s, js) ==
  /\ s.gst \in {r.gst} \cup GroupStops
  /\ Living(s) => Living(r) /\ s.tg = r.tg
  /\ Living(s) /\ s.tg \in js =>
       \/ s.gst # 0
       \/ r.tg \in jobstop /\ (Resting(r) => Resting(s)) /\ (Caught(r) => Caught(s))

(* Of a step that is nobody's birth and no exec's end. *)
StillResting(f, js) ==
  /\ js \subseteq jobstop \cup {task[u].tg : u \in {v \in Tids : task[v].st # "none"}}
  /\ \A u \in Tids : Rests(task[u], f[u], js)

LEMMA RestKept ==
  ASSUME NEW f, NEW js, NEW K, AtRest(task, jobstop, K), StillResting(f, js),
         \A u \in Tids : Ages(f, u)
  PROVE  AtRest(f, js, K)
  <1>1. \A u \in Tids : f[u].gst \in GroupStops BY DEF AtRest, StillResting, Rests
  <1>2. ASSUME NEW g \in js PROVE \E u \in Tids : f[u].tg = g /\ f[u].st # "none"
    <2>1. PICK u \in Tids : task[u].tg = g /\ task[u].st # "none"
      BY DEF StillResting, AtRest
    <2> QED BY <2>1 DEF Ages
  <1>3. ASSUME NEW u \in Tids, Living(f[u]), f[u].tg \in js
        PROVE  Resting(f[u]) \/ (u \in K /\ Caught(f[u]))
    <2>1. Rests(task[u], f[u], js) BY DEF StillResting
    <2>2. CASE f[u].gst # 0 BY <2>2 DEF Resting
    <2>3. CASE f[u].gst = 0
      <3>1. /\ Living(task[u]) /\ task[u].tg \in jobstop
            /\ (Resting(task[u]) => Resting(f[u])) /\ (Caught(task[u]) => Caught(f[u]))
        BY <1>3, <2>1, <2>3 DEF Rests
      <3>2. Resting(task[u]) \/ (u \in K /\ Caught(task[u])) BY <3>1 DEF AtRest
      <3> QED BY <3>1, <3>2
    <2> QED BY <2>2, <2>3
  <1> QED BY <1>1, <1>2, <1>3 DEF AtRest

(* One task changes. *)
LEMMA OneRests ==
  ASSUME GoodTasks, NEW t \in Tids, NEW s, Rests(task[t], s, jobstop)
  PROVE  StillResting([task EXCEPT ![t] = s], jobstop)
  <1>1. \A u \in Tids : Rests(task[u], task[u], jobstop) BY DEF Rests
  <1> QED BY <1>1 DEF StillResting, GoodTasks

(* The two ways a single task rests on: it has not been resting, or what   *)
(* is before it stays so.                                                  *)
LEMMA Awake ==
  ASSUME NEW r, NEW s, Living(r), ~Resting(r), ~Caught(r), s.tg = r.tg,
         s.gst \in {r.gst} \cup GroupStops
  PROVE  Rests(r, s, jobstop)
  BY DEF Rests, Living

LEMMA SameRest ==
  ASSUME NEW r, NEW s, Living(r), r.st \notin {"listen", "user"},
         ~At(r, "event_stop"), s.tg = r.tg, s.gst = r.gst
  PROVE  Rests(r, s, jobstop)
  BY DEF Rests, Living, Resting, Caught

LEMMA RecordRests ==
  ASSUME NEW r, DOMAIN r = DOMAIN NoTask
  PROVE  /\ \A kind, sig, msg, val :
              LET h == Halt(r, kind, sig, msg, val)
              IN  /\ h.gst = r.gst /\ h.tg = r.tg /\ h.st = "stop" /\ h.trap = r.trap
                  /\ h.stop.kind = kind /\ h.stop.sig = sig
         /\ \A code : Dead(r, code).gst = 0 /\ Dead(r, code).st = "zombie"
         /\ \A c : Enter(r, c).gst = r.gst /\ Enter(r, c).tg = r.tg
         /\ \A val : Leave(r, val).gst = r.gst /\ Leave(r, val).tg = r.tg
         /\ \A kind, msg : Event(r, kind, msg).gst = r.gst /\ Event(r, kind, msg).tg = r.tg
  <1>1. \A kind, sig, msg, val :
              LET h == Halt(r, kind, sig, msg, val)
              IN  /\ h.gst = r.gst /\ h.tg = r.tg /\ h.st = "stop" /\ h.trap = r.trap
                  /\ h.stop.kind = kind /\ h.stop.sig = sig
    BY DEF Halt, NoTask
  <1>2. \A code : Dead(r, code).gst = 0 /\ Dead(r, code).st = "zombie" BY DEF Dead, NoTask
  <1>3. \A c : Enter(r, c).gst = r.gst /\ Enter(r, c).tg = r.tg
    BY DEF Enter, Halt, InSyscall, NoTask
  <1>4. \A val : Leave(r, val).gst = r.gst /\ Leave(r, val).tg = r.tg
    BY DEF Leave, Halt, NoTask
  <1>5. \A kind, msg : Event(r, kind, msg).gst = r.gst /\ Event(r, kind, msg).tg = r.tg
    BY DEF Event, Halt, NoTask
  <1> QED BY <1>1, <1>2, <1>3, <1>4, <1>5

LEMMA KillRests ==
  ASSUME GoodTasks, NEW g, NEW code
  PROVE  StillResting(KillGroup(g, code), jobstop)
  <1>1. ASSUME NEW u \in Tids PROVE Rests(task[u], KillGroup(g, code)[u], jobstop)
    <2>1. Dead(task[u], code).gst = 0 /\ Dead(task[u], code).st = "zombie" BY DEF Dead, NoTask
    <2>2. Rests(task[u], Dead(task[u], code), jobstop)
      BY <2>1 DEF Rests, Living, GroupStops
    <2>3. Rests(task[u], task[u], jobstop) BY DEF Rests
    <2> QED BY <2>2, <2>3 DEF KillGroup
  <1> QED BY <1>1 DEF StillResting

LEMMA DeliverRests ==
  ASSUME GoodTasks, NEW t \in Tids, Living(task[t]), NEW base \in TaskSet,
         base.tg = task[t].tg,
         \A x : x.st = "user" /\ x.tg = base.tg /\ x.gst = base.gst /\ x.trap = base.trap =>
                  Rests(task[t], x, jobstop),
         NEW s, NEW h, Deliver(t, base, s, h)
  PROVE  StillResting(task', jobstop')
  <1> DEFINE r == [base EXCEPT !.st = "user", !.how = h, !.stop = NoStop, !.seen = FALSE]
             d == IF s \in DOMAIN Disposition THEN Disposition[s] ELSE "ignore"
             Fine(x) == x.st = "user" /\ x.tg = base.tg /\ x.gst = base.gst /\ x.trap = base.trap
  <1>1. Fine(r) /\ r.tg = task[t].tg BY DEF TaskSet
  <1>2. \A y : Fine([r EXCEPT !.rst = NoCall, !.again = NoCall, !.frames = y]) BY DEF TaskSet
  <1>3. ASSUME NEW x, Fine(x), task' = [task EXCEPT ![t] = x], jobstop' = jobstop
        PROVE  StillResting(task', jobstop')
    BY <1>3, OneRests
  <1>4. CASE d \in {"ignore", "cont"}
    <2>1. task' = [task EXCEPT ![t] = r] /\ jobstop' = jobstop BY <1>4 DEF Deliver
    <2> HIDE DEF r, Fine
    <2> QED BY <1>1, <1>3, <2>1
  <1>5. CASE d = "fatal"
    <2>1. task' = KillGroup(r.tg, -s) /\ jobstop' = jobstop BY <1>5 DEF Deliver
    <2> HIDE DEF r
    <2> QED BY <2>1, KillRests
  <1>6. CASE d = "stop"
    <2>1. s \in 19..22 BY <1>6, KernelAssumption
    <2>2. /\ task' = [u \in Tids |-> IF Alive(u) /\ task[u].tg = r.tg
                                       THEN [IF u = t THEN r ELSE task[u] EXCEPT !.gst = s]
                                       ELSE task[u]]
          /\ jobstop' = jobstop \cup {r.tg}
      BY <1>6 DEF Deliver
    <2>3. [r EXCEPT !.gst = s].gst = s /\ [r EXCEPT !.gst = s].tg = r.tg BY DEF TaskSet
    <2>4. \A u \in Tids : /\ [task[u] EXCEPT !.gst = s].gst = s
                          /\ [task[u] EXCEPT !.gst = s].tg = task[u].tg
      BY DEF GoodTasks, TaskSet
    <2>5. s # 0 /\ s \in GroupStops BY <2>1 DEF GroupStops
    <2>6. task[t].st # "none" BY DEF Living
    <2> HIDE DEF r
    <2>7. ASSUME NEW u \in Tids PROVE Rests(task[u], task'[u], jobstop')
      <3>1. CASE Alive(u) /\ task[u].tg = r.tg
        <4>1. task'[u].gst = s /\ task'[u].tg = task[u].tg
          BY <1>1, <2>2, <2>3, <2>4, <3>1
        <4>2. Living(task[u]) BY <3>1 DEF Alive, Living
        <4> QED BY <2>5, <4>1, <4>2 DEF Rests
      <3>2. CASE ~(Alive(u) /\ task[u].tg = r.tg)
        <4>1. task'[u] = task[u] BY <2>2, <3>2
        <4> QED BY <2>2, <3>2, <4>1 DEF Rests, Living, Alive
      <3> QED BY <3>1, <3>2
    <2> QED BY <1>1, <2>2, <2>6, <2>7 DEF StillResting
  <1>7. CASE d \notin {"ignore", "cont", "fatal", "stop"}
    <2>1. \E y : task' = [task EXCEPT ![t] = [r EXCEPT !.rst = NoCall, !.again = NoCall,
                                                      !.frames = y]]
      BY <1>7 DEF Deliver
    <2>2. jobstop' = jobstop BY <1>7 DEF Deliver
    <2> HIDE DEF r, Fine
    <2> QED BY <1>2, <1>3, <2>1, <2>2
  <1> QED BY <1>4, <1>5, <1>6, <1>7

(* A stopped task goes on: from any stop in which it has its group stop    *)
(* before it if its group is stopped, and with gst as it was or anew.      *)
LEMMA GoOnRests ==
  ASSUME GoodTasks, NEW t \in Tids, InStop(t), NEW r \in TaskSet, r.tg = task[t].tg,
         r.stop = task[t].stop,
         r.gst = task[t].gst \/ r.gst \in 19..22,
         task[t].tg \in jobstop => r.gst # 0,
         NEW s, NEW h, GoOn(t, r, s, h)
  PROVE  StillResting(task', jobstop')
  <1> DEFINE e == [r EXCEPT !.how = h, !.stop = NoStop, !.seen = FALSE]
             Fine(x) == x.tg = r.tg /\ x.gst = r.gst
  <1>1. \A x : Fine(x) => Rests(task[t], x, jobstop)
    <2>1. Living(task[t]) BY DEF InStop, Living
    <2> QED BY <2>1 DEF Rests, GroupStops
  <1>2. /\ Fine(Halt(e, "seccomp", 0, 0, "none")) /\ Fine(InSyscall(e))
        /\ Fine([e EXCEPT !.st = "user", !.call = NoCall]) /\ Fine([e EXCEPT !.st = "ret"])
        /\ Fine([e EXCEPT !.st = "user"])
    BY DEF Halt, InSyscall, TaskSet
  <1>3. \/ /\ \E x \in {Halt(e, "seccomp", 0, 0, "none"), InSyscall(e),
                     [e EXCEPT !.st = "user", !.call = NoCall], [e EXCEPT !.st = "ret"],
                     [e EXCEPT !.st = "user"]} : task' = [task EXCEPT ![t] = x]
           /\ jobstop' = jobstop
        \/ Deliver(t, r, s, h)
    BY DEF GoOn
  <1>4. CASE Deliver(t, r, s, h)
    <2>1. Living(task[t]) BY DEF InStop, Living
    <2> QED BY <1>1, <1>4, <2>1, DeliverRests
  <1>5. ASSUME NEW x, Fine(x), task' = [task EXCEPT ![t] = x], jobstop' = jobstop
        PROVE  StillResting(task', jobstop')
    BY <1>1, <1>5, OneRests
  <1> HIDE DEF e, Fine
  <1> QED BY <1>2, <1>3, <1>4, <1>5

LEMMA DetachRests ==
  ASSUME GoodTasks, NEW t \in Tids, NEW s, PtraceDetach(t, s)
  PROVE  StillResting(task', jobstop')
  <1> DEFINE g == IF task[t].tg \in jobstop THEN SIGSTOP ELSE task[t].gst
             r == [task[t] EXCEPT !.trap = FALSE, !.gst = g]
  <1>1. GoOn(t, r, s, "free") /\ InStop(t) BY DEF PtraceDetach
  <1>2. /\ g \in Nat /\ (g = task[t].gst \/ g \in 19..22)
        /\ task[t].tg \in jobstop => g # 0
    BY DEF GoodTasks, TaskSet, SIGSTOP
  <1> HIDE DEF g
  <1>0. r \in TaskSet /\ SameButGroup(task[t], r, g)
    <2>1. task[t] \in TaskSet BY DEF GoodTasks
    <2> QED BY <1>2, <2>1, DetachRecord
  <1>3. r \in TaskSet /\ r.tg = task[t].tg /\ r.gst = g /\ r.stop = task[t].stop
    <2> HIDE DEF r
    <2> QED BY <1>0 DEF SameButGroup
  <1> HIDE DEF r
  <1> QED BY <1>1, <1>2, <1>3, GoOnRests

LEMMA ForkRests ==
  ASSUME KernelInv, NEW t \in Tids, Fork(t), NEW K, AtRest(task, jobstop, K)
  PROVE  AtRest(task', jobstop', K)
  <1> DEFINE c == CHOOSE u \in Unborn : \A v \in Unborn : u <= v
  <1>1. KernelBase /\ GoodTasks /\ Groups(task) /\ 0 \notin Tids /\ jobstop' = jobstop
    BY KernelAssumption DEF KernelInv, KernelBase, Fork
  <1>2. c \in Unborn
    <2>1. Unborn \in SUBSET Nat /\ Unborn # {} BY KernelAssumption DEF Fork, Unborn
    <2>2. \E u \in Unborn : \A v \in Unborn : u <= v
      <3> HIDE DEF c
      <3> QED BY <2>1, LeastElement
    <2> QED BY <2>2
  <1>3. \E b : /\ task' = [task EXCEPT ![t].st = "spawned", ![t].child = c, ![c] = b]
               /\ b.gst = 0 /\ b.tg \in {task[t].tg, c} /\ b.st = "user"
    <2> DEFINE nr == task[t].call.nr
               b == [NoTask EXCEPT !.st = "user",
                    !.tg = IF nr = "clone" THEN task[t].tg ELSE c,
                    !.execd = task[t].execd /\ nr = "clone",
                    !.how = IF task[t].how = "free" THEN "free" ELSE "CONT",
                    !.sigs = IF Mode = "launch" THEN {SIGSTOP} ELSE {},
                    !.auto = Mode = "launch",
                    !.trap = Mode = "attach" /\ task[t].how # "free"]
    <2>1. task' = [task EXCEPT ![t].st = "spawned", ![t].child = c, ![c] = b] BY DEF Fork
    <2>2. b.gst = 0 /\ b.tg \in {task[t].tg, c} /\ b.st = "user"
      <3> HIDE DEF c
      <3> QED BY DEF NoTask
    <2> HIDE DEF b, c
    <2> QED BY <2>1, <2>2
  <1>4. task[t].st = "sys" /\ ~Deliverable(t) BY DEF Fork
  <1> HIDE DEF c
  <1>5. PICK b : /\ task' = [task EXCEPT ![t].st = "spawned", ![t].child = c, ![c] = b]
                 /\ b.gst = 0 /\ b.tg \in {task[t].tg, c} /\ b.st = "user"
    BY <1>3
  <1>6. c \in Tids /\ task[c].st = "none" /\ c # t /\ task[c].tg = 0
    BY <1>1, <1>2, <1>4 DEF Unborn, GoodTasks, GoodTask, NoTask
  <1>7. /\ task'[c] = b /\ task'[t].gst = task[t].gst /\ task'[t].tg = task[t].tg
        /\ task'[t].st = "spawned" /\ \A u \in Tids \ {t, c} : task'[u] = task[u]
    BY <1>1, <1>5, <1>6 DEF GoodTasks, TaskSet
  <1>8. task[t].tg \notin jobstop
    <2>1. task[t].gst = 0 BY <1>4 DEF Deliverable
    <2>2. ~Resting(task[t]) /\ ~Caught(task[t]) /\ Living(task[t])
      BY <1>4, <2>1 DEF Resting, Caught, At, Living
    <2> QED BY <2>2 DEF AtRest
  <1>9. c \notin jobstop
    <2>1. \A u \in Tids : task[u].st # "none" => task[u].tg # c
      BY <1>1, <1>6 DEF Groups, Grouped
    <2> QED BY <2>1 DEF AtRest
  <1>10. \A u \in Tids : task'[u].gst \in GroupStops BY <1>5, <1>7 DEF AtRest, GroupStops
  <1>11. \A g \in jobstop : \E u \in Tids : task'[u].tg = g /\ task'[u].st # "none"
    BY <1>6, <1>7 DEF AtRest
  <1>12. ASSUME NEW u \in Tids, Living(task'[u]), task'[u].tg \in jobstop
         PROVE  Resting(task'[u]) \/ (u \in K /\ Caught(task'[u]))
    <2>1. u \notin {t, c} BY <1>5, <1>7, <1>8, <1>9, <1>12
    <2> QED BY <1>7, <1>12, <2>1 DEF AtRest
  <1> QED BY <1>1, <1>10, <1>11, <1>12 DEF AtRest

LEMMA ExecRests ==
  ASSUME KernelInv, NEW t \in Tids, ExecEvent(t), NEW K, AtRest(task, jobstop, K)
  PROVE  AtRest(task', jobstop', K)
  <1> DEFINE l == task[t].tg
             r == [task[t] EXCEPT !.execd = TRUE, !.frames = << >>, !.again = NoCall]
             s == Event(r, "exec", t)
             b == [NoTask EXCEPT !.st = "gone", !.tg = l]
  <1>1. /\ KernelBase /\ GoodTasks /\ Groups(task) /\ jobstop' = jobstop
        /\ task[t].st = "exec" /\ GoodTask(task[t]) /\ l \in Tids
    BY DEF KernelInv, KernelBase, GoodTasks, GoodTask, ExecEvent
  <1>2. task' = [u \in Tids |-> IF u = l THEN s ELSE IF u = t THEN b ELSE task[u]]
    BY DEF ExecEvent
  <1>3. r.gst = task[t].gst /\ DOMAIN r = DOMAIN NoTask BY <1>1 DEF GoodTask, TaskSet, NoTask
  <1>4. b.gst = 0 /\ b.st = "gone" BY DEF NoTask
  <1> HIDE DEF r, b
  <1>5. s.gst = task[t].gst BY <1>3, RecordRests
  <1>6. TakenOver(t, l, task') BY <1>1, ExecEventEffect
  <1> HIDE DEF s
  <1>7. task'[l] = s /\ s.tg = l /\ s.st # "none" BY <1>1, <1>2, <1>6 DEF TakenOver, At
  <1>8. \A u \in Tids \ {l, t} : task'[u] = task[u] BY <1>2
  <1>9. t # l => task'[t] = b /\ task'[t].tg = l BY <1>2, <1>6 DEF TakenOver
  <1>10. l \in jobstop => s.gst # 0
    <2>1. Living(task[t]) /\ (Resting(task[t]) \/ Caught(task[t]) => task[t].gst # 0)
      BY <1>1 DEF Living, Resting, Caught, At
    <2> QED BY <1>5, <2>1 DEF AtRest
  <1>11. \A u \in Tids : task'[u].gst \in GroupStops
    BY <1>1, <1>4, <1>5, <1>7, <1>8, <1>9 DEF AtRest, GroupStops
  <1>12. ASSUME NEW g \in jobstop PROVE \E u \in Tids : task'[u].tg = g /\ task'[u].st # "none"
    <2>1. PICK u \in Tids : task[u].tg = g /\ task[u].st # "none" BY DEF AtRest
    <2>2. task[l].tg = l BY <1>1 DEF Groups, Grouped
    <2>3. CASE u \in {l, t} BY <1>1, <1>7, <2>1, <2>2, <2>3
    <2>4. CASE u \notin {l, t} BY <1>8, <2>1, <2>4
    <2> QED BY <2>3, <2>4
  <1>13. ASSUME NEW u \in Tids, Living(task'[u]), task'[u].tg \in jobstop
         PROVE  Resting(task'[u]) \/ (u \in K /\ Caught(task'[u]))
    <2>1. CASE u = l BY <1>7, <1>10, <1>13, <2>1 DEF Resting
    <2>2. CASE u # l
      <3>1. u # t BY <1>4, <1>9, <1>13, <2>2 DEF Living
      <3> QED BY <1>8, <1>13, <2>2, <3>1 DEF AtRest
    <2> QED BY <2>1, <2>2
  <1> QED BY <1>1, <1>11, <1>12, <1>13 DEF AtRest

LEMMA TasksRest ==
  ASSUME KernelInv, Mode = "attach", TasksStep, NEW K, AtRest(task, jobstop, K),
         ~\E t \in Tids : Fork(t) \/ ExecEvent(t)
  PROVE  StillResting(task', jobstop')
  <1>1. /\ GoodTasks /\ Root \in Tids /\ \A u \in Tids : task[u] \in TaskSet
        /\ \A u \in Tids : DOMAIN task[u] = DOMAIN NoTask
    BY RootType DEF KernelInv, KernelBase, GoodTasks, TaskSet, NoTask
  <1>2. CASE SetupFails
    <2>1. Dead(task[Root], 126).gst = 0 /\ Dead(task[Root], 126).st = "zombie"
      BY <1>1, RecordRests
    <2>2. Rests(task[Root], Dead(task[Root], 126), jobstop)
      BY <2>1 DEF Rests, Living, GroupStops
    <2> QED BY <1>1, <1>2, <2>2, OneRests DEF SetupFails
  <1>3. ASSUME NEW t \in Tids, KernelStep(t) \/ ProgramStep(t)
        PROVE  StillResting(task', jobstop')
    <2> DEFINE r == task[t]
    <2>1. r \in TaskSet /\ DOMAIN r = DOMAIN NoTask /\ r.gst \in GroupStops BY <1>1 DEF AtRest
    <2>2. ASSUME NEW s, Rests(r, s, jobstop), task' = [task EXCEPT ![t] = s], jobstop' = jobstop
          PROVE  StillResting(task', jobstop')
      BY <1>1, <2>2, OneRests
    <2>3. InUserMode(t) => Living(r) /\ ~Resting(r) /\ ~Caught(r)
      BY <2>1 DEF InUserMode, Deliverable, Living, Resting, Caught, At, TaskSet
    <2>4. CASE \E nr \in Calls \cup {"rt_sigreturn"} : EnterSyscall(t, nr)
      <3>1. InUserMode(t) /\ jobstop' = jobstop
            /\ \E c : task' = [task EXCEPT ![t] = Enter(task[t], c)]
        BY <2>4 DEF EnterSyscall
      <3>2. \A c : Enter(r, c).gst = r.gst /\ Enter(r, c).tg = r.tg BY <2>1, RecordRests
      <3>3. \A c : Rests(r, Enter(r, c), jobstop) BY <2>3, <3>1, <3>2, Awake
      <3> QED BY <2>2, <3>1, <3>3
    <2>5. CASE DecideRestart(t)
      <3>1. InUserMode(t) /\ jobstop' = jobstop BY <2>5 DEF DecideRestart
      <3>2. PICK a : task' = [task EXCEPT ![t] = [r EXCEPT !.rst = NoCall, !.again = a]]
        BY <1>1, <2>5 DEF DecideRestart, GoodTasks, TaskSet
      <3> DEFINE x == [r EXCEPT !.rst = NoCall, !.again = a]
      <3>3. x.gst = r.gst /\ x.tg = r.tg BY <2>1 DEF TaskSet
      <3> HIDE DEF x
      <3>4. Rests(r, x, jobstop) BY <2>3, <3>1, <3>3, Awake
      <3> QED BY <2>2, <3>1, <3>2, <3>4 DEF x
    <2>6. CASE Restart(t)
      <3> DEFINE x == [r EXCEPT !.again = NoCall]
                 y == Enter(x, task[t].again)
      <3>1. x.gst = r.gst /\ x.tg = r.tg /\ DOMAIN x = DOMAIN NoTask BY <2>1 DEF TaskSet
      <3>2. task' = [task EXCEPT ![t] = y] /\ InUserMode(t) /\ jobstop' = jobstop
        BY <2>6 DEF Restart
      <3> HIDE DEF x
      <3>3. y.gst = r.gst /\ y.tg = r.tg BY <3>1, RecordRests
      <3> HIDE DEF y
      <3>4. Rests(r, y, jobstop) BY <2>3, <3>2, <3>3, Awake
      <3> QED BY <2>2, <3>2, <3>4
    <2>7. ASSUME NEW s, s.gst = r.gst, s.tg = r.tg, r.st \in {"sys", "ret"},
                 task' = [task EXCEPT ![t] = s], jobstop' = jobstop
          PROVE  StillResting(task', jobstop')
      <3>1. Living(r) /\ r.st \notin {"listen", "user"} /\ ~At(r, "event_stop")
        BY <2>7 DEF Living, At
      <3>2. Rests(r, s, jobstop) BY <2>7, <3>1, SameRest
      <3> QED BY <2>2, <2>7, <3>2
    <2>8. CASE \E val \in {"ok", "err"} : Return(t, val)
      <3>1. PICK val \in {"ok", "err"} : Return(t, val) BY <2>8
      <3> DEFINE y == Leave(r, val)
      <3>2. task' = [task EXCEPT ![t] = y] /\ r.st = "sys" /\ jobstop' = jobstop
        BY <3>1 DEF Return
      <3>3. y.gst = r.gst /\ y.tg = r.tg BY <2>1, RecordRests
      <3> HIDE DEF y
      <3> QED BY <2>7, <3>2, <3>3
    <2>9. CASE Sigreturn(t)
      <3> DEFINE x == [r EXCEPT !.again = Head(r.frames).rst, !.frames = Tail(r.frames)]
                 y == Leave(x, "ok")
      <3>1. x.gst = r.gst /\ x.tg = r.tg /\ DOMAIN x = DOMAIN NoTask BY <2>1 DEF TaskSet
      <3>2. task' = [task EXCEPT ![t] = y] /\ r.st = "sys" /\ jobstop' = jobstop
        BY <2>9 DEF Sigreturn
      <3> HIDE DEF x
      <3>3. y.gst = r.gst /\ y.tg = r.tg BY <3>1, RecordRests
      <3> HIDE DEF y
      <3> QED BY <2>7, <3>2, <3>3
    <2>10. CASE Interrupted(t)
      <3> DEFINE x == [r EXCEPT !.rst = task[t].call]
                 y == Leave(x, "restart")
      <3>1. x.gst = r.gst /\ x.tg = r.tg /\ DOMAIN x = DOMAIN NoTask BY <2>1 DEF TaskSet
      <3>2. task' = [task EXCEPT ![t] = y] /\ r.st = "sys" /\ jobstop' = jobstop
        BY <2>10 DEF Interrupted
      <3> HIDE DEF x
      <3>3. y.gst = r.gst /\ y.tg = r.tg BY <3>1, RecordRests
      <3> HIDE DEF y
      <3> QED BY <2>7, <3>2, <3>3
    <2>11. CASE Complete(t)
      <3> DEFINE x == [r EXCEPT !.child = 0]
                 y == Leave(x, "ok")
      <3>1. x.gst = r.gst /\ x.tg = r.tg /\ DOMAIN x = DOMAIN NoTask BY <2>1 DEF TaskSet
      <3>2. task' = [task EXCEPT ![t] = y] /\ r.st = "ret" /\ jobstop' = jobstop
        BY <2>11 DEF Complete
      <3> HIDE DEF x
      <3>3. y.gst = r.gst /\ y.tg = r.tg BY <3>1, RecordRests
      <3> HIDE DEF y
      <3> QED BY <2>7, <3>2, <3>3
    <2>12. CASE ForkEvent(t)
      <3> DEFINE s == Event(r, "fork", r.child)
      <3>1. task' = [task EXCEPT ![t] = s] /\ jobstop' = jobstop /\ r.st = "spawned"
        BY <2>12 DEF ForkEvent
      <3>2. s.gst = r.gst /\ s.tg = r.tg BY <2>1, RecordRests
      <3> HIDE DEF s
      <3>3. Rests(r, s, jobstop) BY <3>1, <3>2, SameRest DEF Living, At
      <3> QED BY <2>2, <3>1, <3>3
    <2>13. CASE GetSignal(t)
      <3> DEFINE sg == LowestSignal(t)
      <3>1. r.st = "user" /\ jobstop' = jobstop /\ Living(r) BY <2>13 DEF GetSignal, Living
      <3>2. CASE r.gst # 0
        <4> DEFINE x == [r EXCEPT !.gst = 0, !.trap = FALSE]
                   s == Halt(x, "event_stop", r.gst, 0, "none")
        <4>1. x.gst = 0 /\ x.tg = r.tg /\ DOMAIN x = DOMAIN NoTask BY <2>1 DEF TaskSet
        <4>2. task' = [task EXCEPT ![t] = s] BY <2>13, <3>2 DEF GetSignal
        <4> HIDE DEF x
        <4>3. s.gst = 0 /\ s.tg = r.tg /\ s.st = "stop" /\ s.stop.kind = "event_stop"
              /\ s.stop.sig = r.gst
          BY <4>1, RecordRests
        <4>4. r.gst # SIGTRAP BY <2>1, <3>2 DEF GroupStops, SIGTRAP
        <4> HIDE DEF s
        <4>5. Resting(s) /\ Caught(s) BY <4>3, <4>4 DEF Resting, Caught, At
        <4>6. Rests(r, s, jobstop) BY <3>1, <4>3, <4>5 DEF Rests, GroupStops
        <4> QED BY <2>2, <3>1, <4>2, <4>6
      <3>3. CASE r.gst = 0 /\ r.trap
        <4> DEFINE x == [r EXCEPT !.trap = FALSE]
                   s == Halt(x, "event_stop", SIGTRAP, 0, "none")
        <4>1. x.gst = 0 /\ x.tg = r.tg /\ DOMAIN x = DOMAIN NoTask BY <2>1, <3>3 DEF TaskSet
        <4>2. task' = [task EXCEPT ![t] = s] BY <2>13, <3>3 DEF GetSignal
        <4> HIDE DEF x
        <4>3. s.gst = 0 /\ s.tg = r.tg /\ s.st = "stop" /\ s.stop.kind = "event_stop"
          BY <4>1, RecordRests
        <4> HIDE DEF s
        <4>4. Caught(s) /\ ~Resting(r) BY <3>1, <3>3, <4>3 DEF Resting, Caught, At
        <4>5. Rests(r, s, jobstop) BY <3>1, <4>3, <4>4 DEF Rests, GroupStops
        <4> QED BY <2>2, <3>1, <4>2, <4>5
      <3>4. CASE r.gst = 0 /\ ~r.trap
        <4> DEFINE x == [r EXCEPT !.sigs = @ \ {sg}, !.auto = @ /\ sg # SIGSTOP]
        <4>1. x.gst = r.gst /\ x.tg = r.tg /\ DOMAIN x = DOMAIN NoTask BY <2>1 DEF TaskSet
        <4>2. PICK val : task' = [task EXCEPT ![t] = Halt(x, "signal", sg, 0, val)]
          BY <2>13, <3>4 DEF GetSignal
        <4> HIDE DEF x
        <4> DEFINE s == Halt(x, "signal", sg, 0, val)
        <4>3. s.gst = r.gst /\ s.tg = r.tg BY <4>1, RecordRests
        <4> HIDE DEF s
        <4>4. ~Resting(r) /\ ~Caught(r) BY <3>1, <3>4 DEF Resting, Caught, At
        <4>5. Rests(r, s, jobstop) BY <3>1, <4>3, <4>4, Awake
        <4> QED BY <2>2, <3>1, <4>2, <4>5 DEF s
      <3> QED BY <3>2, <3>3, <3>4
    <2>14. CASE GetSignalUntraced(t)
      <3>1. r.st = "user" /\ Living(r) BY <2>14 DEF GetSignalUntraced, Living
      <3>2. CASE r.gst # 0
        <4> DEFINE s == [r EXCEPT !.st = "listen", !.gst = 0]
        <4>1. task' = [task EXCEPT ![t].st = "listen", ![t].gst = 0] /\ jobstop' = jobstop
          BY <2>14, <3>2 DEF GetSignalUntraced
        <4>2. task' = [task EXCEPT ![t] = s] BY <1>1, <4>1 DEF GoodTasks
        <4>3. s.st = "listen" /\ s.gst = 0 /\ s.tg = r.tg BY <2>1 DEF TaskSet
        <4> HIDE DEF s
        <4>4. Rests(r, s, jobstop) BY <3>1, <4>3 DEF Rests, Resting, Caught, GroupStops
        <4> QED BY <2>2, <4>1, <4>2, <4>4
      <3>3. CASE r.gst = 0
        <4> DEFINE sg == LowestSignal(t)
                   b == [r EXCEPT !.sigs = @ \ {sg}]
        <4>1. Deliver(t, b, sg, "free") BY <2>14, <3>3 DEF GetSignalUntraced
        <4>2. b \in TaskSet /\ b.tg = r.tg /\ b.gst = r.gst /\ b.trap = r.trap
          BY <2>1 DEF TaskSet
        <4> HIDE DEF b, sg
        <4>3. ASSUME NEW x, x.st = "user", x.tg = b.tg, x.gst = b.gst, x.trap = b.trap
              PROVE  Rests(r, x, jobstop)
          BY <3>1, <4>2, <4>3 DEF Rests, Resting, Caught, At
        <4> QED BY <1>1, <3>1, <4>1, <4>2, <4>3, DeliverRests
      <3> QED BY <3>2, <3>3
    <2>15. CASE \E code \in ExitCodes : ExitGroup(t, code)
      BY <1>1, <2>15, KillRests DEF ExitGroup
    <2>16. CASE ExitThread(t)
      <3>1. task' = [task EXCEPT ![t] = Dead(r, 0)] /\ jobstop' = jobstop
        BY <2>16 DEF ExitThread
      <3>2. Dead(r, 0).gst = 0 /\ Dead(r, 0).st = "zombie" BY <2>1, RecordRests
      <3>3. Rests(r, Dead(r, 0), jobstop) BY <3>2 DEF Rests, Living, GroupStops
      <3> QED BY <2>2, <3>1, <3>3
    <2>17. CASE ExecBegin(t)
      <3> DEFINE k == KillGroup(task[t].tg, 0)
                 x == [task[t] EXCEPT !.st = "exec"]
      <3>1. StillResting(k, jobstop) /\ DOMAIN k = Tids BY <1>1, KillRests DEF KillGroup
      <3>2. x.gst = r.gst /\ x.tg = r.tg BY <2>1 DEF TaskSet
      <3>3. task' = [k EXCEPT ![t] = x] /\ r.st = "sys" /\ jobstop' = jobstop
        BY <2>17 DEF ExecBegin
      <3> HIDE DEF k, x
      <3>4. Rests(r, x, jobstop) BY <3>2, <3>3, SameRest DEF Living, At
      <3> QED BY <3>1, <3>3, <3>4 DEF StillResting
    <2>18. CASE \E s \in Signals : SendSignal(t, s)
      <3>1. PICK s \in Signals : SendSignal(t, s) BY <2>18
      <3> DEFINE g == task[t].tg
                 f == [u \in Tids |-> IF Alive(u) /\ task[u].tg = g THEN Continue(task[u])
                                      ELSE task[u]]
                 add(x) == [x EXCEPT !.sigs = @ \cup {s}]
      <3>2. \A u \in Tids : /\ add(task[u]).gst = task[u].gst /\ add(task[u]).tg = task[u].tg
                            /\ add(task[u]).st = task[u].st /\ add(task[u]).trap = task[u].trap
                            /\ add(task[u]).stop = task[u].stop
        BY <1>1 DEF TaskSet
      <3>3. CASE s = SIGKILL
        <4>1. task' = KillGroup(g, -s) /\ jobstop' = jobstop BY <3>1, <3>3 DEF SendSignal
        <4> QED BY <1>1, <4>1, KillRests
      <3>4. CASE s # SIGKILL /\ Disposition[s] # "cont"
        <4>1. task' = [task EXCEPT ![t] = add(task[t])] /\ jobstop' = jobstop
          BY <3>1, <3>4 DEF SendSignal
        <4> HIDE DEF add
        <4>2. Rests(r, add(task[t]), jobstop) BY <3>2 DEF Rests, Resting, Caught, Living, At
        <4> QED BY <2>2, <4>1, <4>2
      <3>5. CASE s # SIGKILL /\ Disposition[s] = "cont"
        <4>1. task' = [f EXCEPT ![t] = add(f[t])] /\ jobstop' = jobstop \ {g} /\ Alive(t)
          BY <3>1, <3>5 DEF SendSignal
        <4>2. ASSUME NEW u \in Tids
              PROVE  /\ Continue(task[u]).gst = 0 /\ Continue(task[u]).tg = task[u].tg
                     /\ DOMAIN Continue(task[u]) = DOMAIN task[u]
          <5> DEFINE v == task[u]
                     w == {i \in v.sigs : ~Stopping(i)}
                     y == IF v.st = "listen" THEN "user" ELSE v.st
                     z == v.trap \/ (v.st = "listen" /\ v.how # "free")
                     k == [v EXCEPT !.gst = 0, !.sigs = w, !.st = y, !.trap = z]
          <5>1. v \in TaskSet BY <1>1
          <5> HIDE DEF v
          <5>2. Continue(v) = k BY <5>1 DEF Continue, TaskSet
          <5> HIDE DEF w, y, z
          <5>3. k.gst = 0 /\ k.tg = v.tg /\ DOMAIN k = DOMAIN v BY <5>1 DEF TaskSet
          <5> HIDE DEF k
          <5> QED BY <5>2, <5>3 DEF v
        <4>3. f[t] = Continue(task[t]) BY <4>1
        <4>4. add(f[t]).gst = 0 /\ add(f[t]).tg = g
          <5> DEFINE y == f[t]
          <5>1. DOMAIN y = DOMAIN r /\ y.gst = 0 /\ y.tg = g BY <4>2, <4>3
          <5> HIDE DEF y, f
          <5>2. "gst" \in DOMAIN y /\ "tg" \in DOMAIN y BY <2>1, <5>1 DEF TaskSet
          <5>3. [y EXCEPT !.sigs = @ \cup {s}].gst = 0 /\ [y EXCEPT !.sigs = @ \cup {s}].tg = g
            BY <5>1, <5>2
          <5> QED BY <5>3 DEF y
        <4>5. ASSUME NEW u \in Tids PROVE Rests(task[u], task'[u], jobstop')
          <5>1. CASE Alive(u) /\ task[u].tg = g
            <6>1. task'[u].gst = 0 /\ task'[u].tg = g
              <7>1. CASE u = t BY <4>1, <4>4, <7>1
              <7>2. CASE u # t BY <4>1, <4>2, <5>1, <7>2
              <7> QED BY <7>1, <7>2
            <6>2. g \notin jobstop' /\ Living(task[u]) BY <4>1, <5>1 DEF Living, Alive
            <6>3. task[u].tg = g BY <5>1
            <6> HIDE DEF f, add, r, g
            <6> QED BY <6>1, <6>2, <6>3 DEF Rests, GroupStops
          <5>2. CASE ~(Alive(u) /\ task[u].tg = g)
            <6>1. task'[u] = task[u] BY <4>1, <5>2
            <6> QED BY <4>1, <5>2, <6>1 DEF Rests, Living, Alive
          <5> QED BY <5>1, <5>2
        <4> HIDE DEF f, add
        <4> QED BY <4>1, <4>5 DEF StillResting
      <3> QED BY <3>3, <3>4, <3>5
    <2> QED BY <1>3, <2>4, <2>5, <2>6, <2>8, <2>9, <2>10, <2>11, <2>12, <2>13, <2>14,
               <2>15, <2>16, <2>17, <2>18 DEF KernelStep, ProgramStep
  <1> QED BY <1>2, <1>3 DEF TasksStep

(* What the tracer does to the tasks. *)
LEMMA ListenRests ==
  ASSUME GoodTasks, NEW t \in Tids, PtraceListen(t)
  PROVE  StillResting(task', jobstop')
  <1> DEFINE r == task[t]
             x == [r EXCEPT !.st = "listen", !.stop = NoStop, !.seen = FALSE]
             y == Halt(r, "event_stop", SIGTRAP, 0, "none")
             z == IF r.tg \in jobstop THEN x ELSE y
  <1>1. task' = [task EXCEPT ![t] = z] /\ jobstop' = jobstop /\ Living(r)
    BY DEF PtraceListen, InStop, Living
  <1>2. /\ x.st = "listen" /\ x.tg = r.tg /\ x.gst = r.gst
        /\ y.tg = r.tg /\ y.gst = r.gst
    BY DEF GoodTasks, TaskSet, Halt
  <1> HIDE DEF x, y, r
  <1>3. Rests(r, z, jobstop) BY <1>1, <1>2 DEF Rests, Resting, Caught
  <1> HIDE DEF z
  <1> QED BY <1>1, <1>3, OneRests DEF r

LEMMA KilledRests ==
  ASSUME GoodTasks, NEW T
  PROVE  StillResting(Killed(T), jobstop)
  <1>1. ASSUME NEW u \in Tids PROVE Rests(task[u], Killed(T)[u], jobstop)
    <2>1. Dead(task[u], -SIGKILL).gst = 0 /\ Dead(task[u], -SIGKILL).st = "zombie"
      BY DEF Dead, NoTask
    <2>2. Rests(task[u], Dead(task[u], -SIGKILL), jobstop)
      BY <2>1 DEF Rests, Living, GroupStops
    <2>3. Rests(task[u], task[u], jobstop) BY DEF Rests
    <2> QED BY <2>2, <2>3 DEF Killed
  <1> QED BY <1>1 DEF StillResting

LEMMA ReportRests ==
  ASSUME GoodTasks, NEW t \in Tids, Waitable(t)
  PROVE  StillResting(Report(t), jobstop)
  <1> DEFINE r == task[t]
             x == [r EXCEPT !.seen = TRUE]
             y == [r EXCEPT !.st = "gone"]
             z == IF InStop(t) THEN x ELSE y
  <1>1. Report(t) = [task EXCEPT ![t] = z] BY DEF Report
  <1>2. /\ x.st = r.st /\ x.tg = r.tg /\ x.gst = r.gst /\ x.stop = r.stop /\ x.trap = r.trap
        /\ y.st = "gone" /\ y.gst = r.gst
    BY DEF GoodTasks, TaskSet, States
  <1> HIDE DEF x, y, r
  <1>3. Rests(r, z, jobstop) BY <1>2 DEF Rests, Resting, Caught, Living, At
  <1> HIDE DEF z
  <1> QED BY <1>1, <1>3, OneRests DEF r

LEMMA TrappedRests ==
  ASSUME GoodTasks, NEW T
  PROVE  /\ \A u \in Tids :
              /\ Trapped(T)[u].gst = task[u].gst /\ Trapped(T)[u].tg = task[u].tg
              /\ (Living(Trapped(T)[u]) <=> Living(task[u]))
              /\ (Trapped(T)[u].st = "none" <=> task[u].st = "none")
              /\ u \notin T => Trapped(T)[u] = task[u]
              /\ u \in T /\ Caught(task[u]) => Caught(Trapped(T)[u])
  <1>1. SUFFICES ASSUME NEW u \in Tids
                 PROVE  /\ Trapped(T)[u].gst = task[u].gst /\ Trapped(T)[u].tg = task[u].tg
                        /\ (Living(Trapped(T)[u]) <=> Living(task[u]))
                        /\ (Trapped(T)[u].st = "none" <=> task[u].st = "none")
                        /\ (u \notin T => Trapped(T)[u] = task[u])
                        /\ (u \in T /\ Caught(task[u]) => Caught(Trapped(T)[u]))
    OBVIOUS
  <1> DEFINE r == task[u]
             x == [r EXCEPT !.trap = TRUE, !.st = IF @ = "listen" THEN "user" ELSE @]
             f == Trapped(T)
  <1>2. CASE u \in T /\ Alive(u)
    <2>1. f[u] = x BY <1>2 DEF Trapped
    <2>2. /\ x.gst = r.gst /\ x.tg = r.tg /\ x.stop = r.stop /\ x.trap
          /\ x.st = IF r.st = "listen" THEN "user" ELSE r.st
      BY DEF GoodTasks, TaskSet, States
    <2> HIDE DEF x
    <2>3. (Living(x) <=> Living(r)) /\ (x.st = "none" <=> r.st = "none") BY <2>2 DEF Living
    <2>4. Caught(r) => Caught(x) BY <2>2 DEF Caught, At
    <2> QED BY <1>2, <2>1, <2>2, <2>3, <2>4
  <1>3. CASE ~(u \in T /\ Alive(u))
    <2>1. f[u] = task[u] BY <1>3 DEF Trapped
    <2> HIDE DEF f
    <2> QED BY <2>1 DEF f
  <1> QED BY <1>2, <1>3

LEMMA RestsMore ==
  ASSUME NEW f, NEW js, NEW K, NEW L, K \subseteq L, AtRest(f, js, K)
  PROVE  AtRest(f, js, L)
  BY DEF AtRest

-----------------------------------------------------------------------------
(* Signals.  What the records of the tasks say about them: ptrace's own    *)
(* SIGSTOP is the first a newborn task takes, and the only one.            *)
Newborns == Mode = "launch" /\ Follow

Certain  == Mode = "attach" \/ Follow

Proper(r) ==
  /\ r.auto => /\ Newborns /\ SIGSTOP \in r.sigs /\ r.frames = << >>
               /\ r.st = "user" \/ At(r, "group_stop")
  /\ Certain /\ SIGSTOP \in r.sigs => r.auto
  /\ At(r, "signal") => /\ r.stop.val = "auto" => Mode = "launch" /\ r.stop.sig = SIGSTOP
                        /\ Certain /\ r.stop.sig = SIGSTOP => r.stop.val = "auto"
  /\ Newborns => /\ \A s \in r.sigs : s >= SIGSTOP
                 /\ r.gst # SIGSTOP
                 /\ At(r, "group_stop") => r.stop.sig # SIGSTOP
  /\ Mode = "launch" => ~r.trap /\ r.st # "listen" /\ r.how # "free"
  /\ r.how = "free" => r.st # "stop"
  /\ r.st = "spawned" \/ At(r, "fork") => Follow
  /\ ~At(r, "none")

(* A child of an attached process that the tracer does not know yet is on  *)
(* its way to its first stop or in it.                                     *)
Stray(r) == (r.st = "user" /\ r.trap) \/ At(r, "event_stop") \/ At(r, "exec")

(* What a step does to a task, as far as its signals are concerned.        *)
Minds(r, s) ==
  /\ Proper(s)
  /\ s.auto => r.auto \/ (r.st = "none" /\ Follow)
  /\ At(s, "signal") =>
       \/ At(r, "signal") /\ s.stop = r.stop
       \/ r.st = "user" /\ r.how # "free" /\ (s.stop.val = "auto" => r.auto)

Heeds(r, s) ==
  /\ Minds(r, s)
  /\ Mode = "attach" /\ Living(s) =>
       Stray(s) \/ (Living(r) /\ ~Stray(r)) \/ s.how = "free"

LEMMA SameHeeds ==
  ASSUME NEW r, Proper(r)
  PROVE  Heeds(r, r)
  BY DEF Heeds, Minds, Living

(* A step within a call. *)
Calm(r, s) ==
  /\ s.sigs = r.sigs /\ s.auto = r.auto /\ s.gst = r.gst /\ s.how = r.how /\ s.trap = r.trap
  /\ ~At(s, "signal") /\ ~At(s, "group_stop") /\ ~At(s, "none") /\ s.st # "listen"
  /\ s.st = "stop" => s.how # "free"
  /\ s.st = "spawned" \/ At(s, "fork") => Follow

LEMMA CalmHeeds ==
  ASSUME NEW r, NEW s, Proper(r), ~r.auto, Living(r), ~Stray(r), Calm(r, s)
  PROVE  Heeds(r, s)
  <1>1. ~s.auto BY DEF Calm
  <1>2. Proper(s) BY <1>1 DEF Proper, Calm
  <1> QED BY <1>1, <1>2 DEF Heeds, Minds, Calm

LEMMA InCallCalm ==
  ASSUME NEW r, Proper(r), r.st \in {"sys", "ret", "spawned", "exec"}
  PROVE  ~r.auto /\ Living(r) /\ ~Stray(r)
  BY DEF Proper, Living, Stray, At

LEMMA UserCalm ==
  ASSUME NEW t \in Tids, Proper(task[t]), InUserMode(t)
  PROVE  ~task[t].auto /\ Living(task[t]) /\ ~Stray(task[t])
  <1>1. task[t].auto => Unblocked(t) # {} BY DEF Proper, Unblocked
  <1> QED BY <1>1 DEF InUserMode, Deliverable, Living, Stray, At

LEMMA FreeUnfiltered ==
  ASSUME KernelBase, NEW r, Proper(r), NEW nr
  PROVE  Filtered(nr) => r.how # "free"
  BY KernelAssumption DEF KernelBase, Filtered, Proper, Mode, Seccomp

LEMMA RecordCalm ==
  ASSUME KernelBase, NEW r, DOMAIN r = DOMAIN NoTask, Proper(r),
         r.st = "spawned" => Follow
  PROVE  /\ \A c : Calm(r, Enter(r, c))
         /\ \A val : Calm(r, Leave(r, val))
         /\ \A msg : Calm(r, Event(r, "exec", msg)) /\ (Follow => Calm(r, Event(r, "fork", msg)))
  <1>1. \A c : Calm(r, Enter(r, c))
    <2> TAKE c
    <2> DEFINE e == [r EXCEPT !.call = c]
    <2>1. /\ e.sigs = r.sigs /\ e.auto = r.auto /\ e.gst = r.gst /\ e.how = r.how
          /\ e.trap = r.trap /\ DOMAIN e = DOMAIN NoTask
      BY DEF NoTask
    <2>2. Enter(r, c) = IF r.how = "SYSCALL" THEN Halt(e, "entry", 0, 0, "none")
                        ELSE IF Filtered(c.nr) THEN Halt(e, "seccomp", 0, 0, "none")
                        ELSE InSyscall(e)
      BY DEF Enter
    <2> HIDE DEF e
    <2>3. r.how = "SYSCALL" => Calm(r, Halt(e, "entry", 0, 0, "none"))
      BY <2>1 DEF Calm, Halt, At, NoTask
    <2>4. r.how # "free" => Calm(r, Halt(e, "seccomp", 0, 0, "none"))
      BY <2>1 DEF Calm, Halt, At, NoTask
    <2>5. Calm(r, InSyscall(e)) BY <2>1 DEF Calm, InSyscall, At, NoTask
    <2>6. Filtered(c.nr) => r.how # "free" BY FreeUnfiltered
    <2> QED BY <2>2, <2>3, <2>4, <2>5, <2>6
  <1>2. \A val : Calm(r, Leave(r, val))
    <2> TAKE val
    <2> DEFINE y == Leave(r, val)
    <2>1. /\ y.sigs = r.sigs /\ y.auto = r.auto /\ y.gst = r.gst /\ y.how = r.how
          /\ y.trap = r.trap
          /\ y.st = "user" \/ (y.st = "stop" /\ y.stop.kind = "exit" /\ r.how = "SYSCALL")
      BY DEF Leave, Halt, NoTask
    <2> HIDE DEF y
    <2>2. Calm(r, y) BY <2>1 DEF Calm, At
    <2> QED BY <2>2 DEF y
  <1>3. ASSUME NEW msg, NEW kind \in {"exec", "fork"}, kind = "fork" => Follow
        PROVE  Calm(r, Event(r, kind, msg))
    <2> DEFINE y == [r EXCEPT !.st = "ret"]
    <2>1. /\ y.sigs = r.sigs /\ y.auto = r.auto /\ y.gst = r.gst /\ y.how = r.how
          /\ y.trap = r.trap /\ y.st = "ret"
      BY DEF NoTask
    <2>2. Event(r, kind, msg) = IF r.how = "free" THEN y ELSE Halt(r, kind, SIGTRAP, msg, "none")
      BY DEF Event
    <2> HIDE DEF y
    <2>3. r.how # "free" => Calm(r, Halt(r, kind, SIGTRAP, msg, "none"))
      BY <1>3 DEF Calm, Halt, At, NoTask
    <2>4. Calm(r, y) BY <2>1 DEF Calm, At
    <2> QED BY <2>2, <2>3, <2>4
  <1> QED BY <1>1, <1>2, <1>3

LEMMA DeadHeeds ==
  ASSUME NEW r, Proper(r), NEW code
  PROVE  Heeds(r, Dead(r, code))
  <1> DEFINE d == Dead(r, code)
  <1>1. d.sigs = {} /\ d.auto = FALSE /\ d.gst = 0 /\ d.how = r.how /\ d.trap = FALSE
        /\ d.st = "zombie"
    BY DEF Dead, NoTask
  <1> HIDE DEF d
  <1>2. Proper(d) BY <1>1 DEF Proper, At, SIGSTOP
  <1>3. Heeds(r, d) BY <1>1, <1>2 DEF Heeds, Minds, At, Living
  <1> QED BY <1>3 DEF d

LEMMA KillHeeds ==
  ASSUME \A u \in Tids : Proper(task[u]), NEW g, NEW code
  PROVE  \A u \in Tids : Heeds(task[u], KillGroup(g, code)[u])
  BY SameHeeds, DeadHeeds DEF KillGroup

LEMMA OneHeeds ==
  ASSUME GoodTasks, \A u \in Tids : Proper(task[u]), NEW t \in Tids, NEW s, Heeds(task[t], s)
  PROVE  \A u \in Tids : Heeds(task[u], [task EXCEPT ![t] = s][u])
  BY SameHeeds DEF GoodTasks

(* A signal is let through to a task whose record says nothing of ptrace's *)
(* own SIGSTOP.                                                            *)
LEMMA DeliverHeeds ==
  ASSUME GoodTasks, \A u \in Tids : Proper(task[u]), NEW t \in Tids, Living(task[t]),
         NEW base \in TaskSet, base.sigs \subseteq task[t].sigs, ~base.auto,
         base.tg = task[t].tg, base.gst = task[t].gst \/ Mode = "attach",
         Mode = "launch" => ~base.trap, SIGSTOP \notin base.sigs \/ ~Certain,
         NEW s, NEW h, h = "free" => Mode = "attach", Newborns => s # SIGSTOP,
         Deliver(t, base, s, h)
  PROVE  /\ \A u \in Tids \ {t} : Heeds(task[u], task'[u])
         /\ Proper(task'[t]) /\ ~task'[t].auto
         /\ Living(task'[t]) => task'[t].st = "user" /\ (task'[t].trap = base.trap)
  <1> DEFINE r == [base EXCEPT !.st = "user", !.how = h, !.stop = NoStop, !.seen = FALSE]
             d == IF s \in DOMAIN Disposition THEN Disposition[s] ELSE "ignore"
             Fine(x) == /\ x.st = "user" /\ x.how = h /\ x.sigs = base.sigs
                        /\ x.auto = base.auto /\ x.trap = base.trap
                        /\ x.gst = base.gst \/ x.gst = s
             Goal == /\ \A u \in Tids \ {t} : Heeds(task[u], task'[u])
                     /\ Proper(task'[t]) /\ ~task'[t].auto
                     /\ Living(task'[t]) => task'[t].st = "user" /\ (task'[t].trap = base.trap)
  <1>1. Fine(r) /\ r.tg = base.tg BY DEF TaskSet
  <1>2. \A y : Fine([r EXCEPT !.rst = NoCall, !.again = NoCall, !.frames = y]) BY DEF TaskSet
  <1>3. ASSUME NEW x, Fine(x) PROVE Proper(x) /\ ~x.auto /\ (x.trap = base.trap)
    <2>1. ~x.auto BY <1>3
    <2>2. Newborns => x.gst # SIGSTOP BY <1>3 DEF Proper, Newborns
    <2>3. (Mode = "launch" => ~x.trap) /\ x.st = "user" /\ x.how = h /\ x.sigs = base.sigs BY <1>3
    <2>4. Newborns => \A z \in x.sigs : z >= SIGSTOP BY <2>3 DEF Proper
    <2> HIDE DEF Fine
    <2>5. Proper(x) BY <2>1, <2>2, <2>3, <2>4 DEF Proper, At
    <2> QED BY <1>3, <2>1, <2>5 DEF Fine
  <1>4. ASSUME NEW x, Fine(x), task' = [task EXCEPT ![t] = x] PROVE Goal
    <2>1. task'[t] = x /\ \A u \in Tids \ {t} : task'[u] = task[u] BY <1>4 DEF GoodTasks
    <2>2. Proper(x) /\ ~x.auto /\ x.st = "user" /\ (x.trap = base.trap) BY <1>3, <1>4
    <2> HIDE DEF Fine
    <2> QED BY <2>1, <2>2, SameHeeds
  <1>5. CASE d \in {"ignore", "cont"}
    <2>1. task' = [task EXCEPT ![t] = r] BY <1>5 DEF Deliver
    <2> HIDE DEF r, Fine, Goal
    <2>2. Goal BY <1>1, <1>4, <2>1
    <2> QED BY <2>2 DEF Goal
  <1>6. CASE d = "fatal"
    <2>1. task' = KillGroup(r.tg, -s) BY <1>6 DEF Deliver
    <2>2. \A u \in Tids : Heeds(task[u], task'[u])
      <3> HIDE DEF r
      <3> QED BY <2>1, KillHeeds
    <2>3. r.tg = task[t].tg /\ Alive(t) BY <1>1 DEF Alive, Living
    <2>4. task'[t] = Dead(task[t], -s)
      <3> HIDE DEF r
      <3> QED BY <2>1, <2>3 DEF KillGroup
    <2>5. Dead(task[t], -s).auto = FALSE /\ Dead(task[t], -s).st = "zombie" BY DEF Dead, NoTask
    <2>6. ~task'[t].auto /\ ~Living(task'[t]) BY <2>4, <2>5 DEF Living
    <2> QED BY <2>2, <2>6 DEF Heeds, Minds
  <1>7. CASE d = "stop"
    <2>1. task' = [u \in Tids |-> IF Alive(u) /\ task[u].tg = r.tg
                                    THEN [IF u = t THEN r ELSE task[u] EXCEPT !.gst = s]
                                    ELSE task[u]]
      BY <1>7 DEF Deliver
    <2>2. r.tg = task[t].tg /\ Alive(t) BY <1>1 DEF Alive, Living
    <2> DEFINE x == [r EXCEPT !.gst = s]
    <2>3. Fine(x) BY DEF TaskSet
    <2>4. task'[t] = x
      <3> HIDE DEF r
      <3> QED BY <2>1, <2>2
    <2> HIDE DEF x
    <2>5. Proper(x) /\ ~x.auto /\ x.st = "user" /\ (x.trap = base.trap) BY <1>3, <2>3
    <2>6. ASSUME NEW u \in Tids \ {t} PROVE Heeds(task[u], task'[u])
      <3> DEFINE y == [task[u] EXCEPT !.gst = s]
      <3>1. /\ y.st = task[u].st /\ y.stop = task[u].stop /\ y.sigs = task[u].sigs /\ y.gst = s
            /\ y.auto = task[u].auto /\ y.frames = task[u].frames /\ y.how = task[u].how
            /\ y.trap = task[u].trap
        BY DEF GoodTasks, TaskSet
      <3>2. task'[u] = y \/ task'[u] = task[u]
        <4> HIDE DEF r
        <4> QED BY <2>1
      <3> HIDE DEF y
      <3>3. Proper(y) BY <3>1 DEF Proper, At
      <3>4. Heeds(task[u], y) BY <3>1, <3>3 DEF Heeds, Minds, Stray, At, Living
      <3> QED BY <3>2, <3>4, SameHeeds
    <2> QED BY <2>4, <2>5, <2>6
  <1>8. CASE d \notin {"ignore", "cont", "fatal", "stop"}
    <2>1. \E y : task' = [task EXCEPT ![t] = [r EXCEPT !.rst = NoCall, !.again = NoCall,
                                                      !.frames = y]]
      BY <1>8 DEF Deliver
    <2> HIDE DEF r, Fine, Goal
    <2>2. Goal BY <1>2, <1>4, <2>1
    <2> QED BY <2>2 DEF Goal
  <1> QED BY <1>5, <1>6, <1>7, <1>8

(* A stopped task goes on.                                                 *)
LEMMA GoOnHeeds ==
  ASSUME GoodTasks, \A u \in Tids : Proper(task[u]), NEW t \in Tids, InStop(t),
         NEW r \in TaskSet, r.tg = task[t].tg, r.stop = task[t].stop, r.sigs = task[t].sigs,
         r.auto = task[t].auto, r.frames = task[t].frames,
         r.gst = task[t].gst \/ Mode = "attach", r.st = "stop", r.trap => task[t].trap,
         NEW s, NEW h, h = "free" => Mode = "attach",
         task[t].stop.kind = "signal" /\ Newborns => s # SIGSTOP, GoOn(t, r, s, h)
  PROVE  /\ \A u \in Tids \ {t} : Heeds(task[u], task'[u])
         /\ Minds(task[t], task'[t]) /\ ~At(task'[t], "signal")
         /\ faults' = faults \cup SignalFaults(task[t].stop, s)
  <1> DEFINE e == [r EXCEPT !.how = h, !.stop = NoStop, !.seen = FALSE]
             Fine(x) == /\ x.how = h /\ x.sigs = r.sigs /\ x.auto = r.auto
                        /\ x.frames = r.frames /\ x.gst = r.gst /\ x.trap = r.trap
                        /\ ~At(x, "signal") /\ ~At(x, "group_stop") /\ ~At(x, "fork")
                        /\ ~At(x, "none") /\ x.st \notin {"listen", "spawned"}
                        /\ x.st = "stop" => h # "free"
                        /\ x.auto => x.st = "user"
             Goal == /\ \A u \in Tids \ {t} : Heeds(task[u], task'[u])
                     /\ Minds(task[t], task'[t]) /\ ~At(task'[t], "signal")
  <1>1. task[t].auto => task[t].stop.kind = "group_stop"
    BY DEF Proper, InStop, At
  <1>2. ASSUME NEW x, Fine(x), task' = [task EXCEPT ![t] = x] PROVE Goal
    <2>1. task'[t] = x /\ \A u \in Tids \ {t} : task'[u] = task[u] BY <1>2 DEF GoodTasks
    <2>2. Proper(x)
      <3>1. Proper(task[t]) /\ (Mode = "launch" => ~task[t].trap) BY DEF Proper
      <3>2. Mode = "launch" => ~x.trap BY <1>2, <3>1
      <3>3. Newborns => x.gst = task[t].gst BY <1>2 DEF Newborns
      <3> QED BY <1>2, <3>1, <3>2, <3>3 DEF Proper
    <2>3. Minds(task[t], x) BY <1>2, <2>2 DEF Minds
    <2>4. ~At(x, "signal") BY <1>2
    <2> HIDE DEF Fine
    <2> QED BY <2>1, <2>3, <2>4, SameHeeds
  <1>3. /\ e.how = h /\ e.sigs = r.sigs /\ e.auto = r.auto /\ e.frames = r.frames
        /\ e.gst = r.gst /\ e.trap = r.trap /\ e.st = "stop" /\ DOMAIN e = DOMAIN NoTask
    BY DEF TaskSet, NoTask
  <1>4. faults' = faults \cup SignalFaults(task[t].stop, s) BY DEF GoOn
  <1> DEFINE k == task[t].stop.kind
             B(x) == task' = [task EXCEPT ![t] = x]
  <1>5. ASSUME k = "entry", h # "free", B(Halt(e, "seccomp", 0, 0, "none")) PROVE Goal
    <2> DEFINE x == Halt(e, "seccomp", 0, 0, "none")
    <2>1. ~r.auto BY <1>1, <1>5
    <2> HIDE DEF e
    <2>2. Fine(x) BY <1>3, <1>5, <2>1 DEF Halt, At, NoTask
    <2> HIDE DEF Fine, Goal, x
    <2> QED BY <1>2, <1>5, <2>2 DEF x
  <1>6. ASSUME NEW st \in {"sys", "user", "ret"}, st # "user" => k # "group_stop",
               NEW x, x.st = st, x.how = h, x.sigs = r.sigs, x.auto = r.auto, x.frames = r.frames,
               x.gst = r.gst, x.trap = r.trap, B(x)
        PROVE  Goal
    <2>1. Fine(x) BY <1>1, <1>6 DEF At
    <2> HIDE DEF Fine, Goal
    <2> QED BY <1>2, <1>6, <2>1
  <1>7. CASE k = "signal" \/ k = "none"
    <2>1. k = "signal" BY <1>7 DEF Proper, InStop, At
    <2>2. Deliver(t, r, s, h) BY <2>1 DEF GoOn
    <2>3. ~r.auto /\ Living(task[t]) BY <1>1, <2>1 DEF InStop, Living
    <2>4. /\ Mode = "launch" => ~r.trap
          /\ SIGSTOP \notin r.sigs \/ ~Certain
      BY <2>3 DEF Proper
    <2>5. /\ \A u \in Tids \ {t} : Heeds(task[u], task'[u])
          /\ Proper(task'[t]) /\ ~task'[t].auto
          /\ Living(task'[t]) => task'[t].st = "user" /\ (task'[t].trap = r.trap)
      BY <2>1, <2>2, <2>3, <2>4, DeliverHeeds
    <2>6. ~At(task'[t], "signal") BY <2>5 DEF At, Living
    <2>7. Minds(task[t], task'[t]) BY <2>5, <2>6 DEF Minds
    <2> QED BY <1>4, <2>5, <2>6, <2>7
  <1>8. CASE k = "entry"
    <2>1. (B(Halt(e, "seccomp", 0, 0, "none")) /\ h # "free") \/ B(InSyscall(e))
      BY <1>8 DEF GoOn
    <2> DEFINE x == InSyscall(e)
    <2>2. /\ x.st = "sys" /\ x.how = h /\ x.sigs = r.sigs /\ x.auto = r.auto
          /\ x.frames = r.frames /\ x.gst = r.gst /\ x.trap = r.trap
      BY DEF InSyscall, TaskSet
    <2>3. CASE B(x)
      <3> HIDE DEF x, Goal
      <3>1. Goal BY <1>6, <1>8, <2>2, <2>3
      <3> QED BY <1>4, <3>1 DEF Goal
    <2>4. CASE B(Halt(e, "seccomp", 0, 0, "none")) /\ h # "free"
      <3> HIDE DEF e, Goal
      <3>1. Goal BY <1>5, <1>8, <2>4
      <3> QED BY <1>4, <3>1 DEF Goal
    <2> QED BY <2>1, <2>3, <2>4
  <1>9. CASE k = "seccomp"
    <2> DEFINE x == InSyscall(e)
    <2>1. B(x) BY <1>9 DEF GoOn
    <2>2. /\ x.st = "sys" /\ x.how = h /\ x.sigs = r.sigs /\ x.auto = r.auto
          /\ x.frames = r.frames /\ x.gst = r.gst /\ x.trap = r.trap
      BY DEF InSyscall, TaskSet
    <2> HIDE DEF x, Goal
    <2>3. Goal BY <1>6, <1>9, <2>1, <2>2
    <2> QED BY <1>4, <2>3 DEF Goal
  <1>10. CASE k = "exit"
    <2> DEFINE x == [e EXCEPT !.st = "user", !.call = NoCall]
    <2>1. B(x) BY <1>10 DEF GoOn
    <2>2. /\ x.st = "user" /\ x.how = h /\ x.sigs = r.sigs /\ x.auto = r.auto
          /\ x.frames = r.frames /\ x.gst = r.gst /\ x.trap = r.trap
      BY DEF TaskSet
    <2> HIDE DEF x, Goal
    <2>3. Goal BY <1>6, <2>1, <2>2
    <2> QED BY <1>4, <2>3 DEF Goal
  <1>11. CASE k \in {"fork", "exec"}
    <2> DEFINE x == [e EXCEPT !.st = "ret"]
    <2>1. B(x) BY <1>11 DEF GoOn
    <2>2. /\ x.st = "ret" /\ x.how = h /\ x.sigs = r.sigs /\ x.auto = r.auto
          /\ x.frames = r.frames /\ x.gst = r.gst /\ x.trap = r.trap
      BY DEF TaskSet
    <2> HIDE DEF x, Goal
    <2>3. Goal BY <1>6, <1>11, <2>1, <2>2
    <2> QED BY <1>4, <2>3 DEF Goal
  <1>12. CASE k \in {"event_stop", "group_stop"}
    <2> DEFINE x == [e EXCEPT !.st = "user"]
    <2>1. B(x) BY <1>12 DEF GoOn
    <2>2. /\ x.st = "user" /\ x.how = h /\ x.sigs = r.sigs /\ x.auto = r.auto
          /\ x.frames = r.frames /\ x.gst = r.gst /\ x.trap = r.trap
      BY DEF TaskSet
    <2> HIDE DEF x, Goal
    <2>3. Goal BY <1>6, <2>1, <2>2
    <2> QED BY <1>4, <2>3 DEF Goal
  <1>13. k \in Kinds BY DEF GoodTasks, TaskSet, StopSet
  <1> QED BY <1>7, <1>8, <1>9, <1>10, <1>11, <1>12, <1>13 DEF Kinds

LEMMA DetachHeeds ==
  ASSUME GoodTasks, \A u \in Tids : Proper(task[u]), Mode = "attach", NEW t \in Tids,
         NEW s \in Nat, PtraceDetach(t, s)
  PROVE  /\ \A u \in Tids : Heeds(task[u], task'[u])
         /\ faults' = faults \cup SignalFaults(task[t].stop, s)
  <1> DEFINE g == IF task[t].tg \in jobstop THEN SIGSTOP ELSE task[t].gst
             r == [task[t] EXCEPT !.trap = FALSE, !.gst = g]
  <1>1. GoOn(t, r, s, "free") /\ InStop(t) BY DEF PtraceDetach
  <1>2. g \in Nat BY DEF GoodTasks, TaskSet, SIGSTOP
  <1> HIDE DEF g
  <1>0. r \in TaskSet /\ SameButGroup(task[t], r, g)
    <2>1. task[t] \in TaskSet BY DEF GoodTasks
    <2> QED BY <1>2, <2>1, DetachRecord
  <1>3. /\ r \in TaskSet /\ r.tg = task[t].tg /\ r.stop = task[t].stop
        /\ r.sigs = task[t].sigs /\ r.auto = task[t].auto /\ r.frames = task[t].frames
        /\ r.st = "stop" /\ (r.trap => task[t].trap)
    <2> HIDE DEF r
    <2> QED BY <1>0, <1>1 DEF SameButGroup, InStop
  <1> HIDE DEF r
  <1>4. ~Newborns BY DEF Newborns
  <1>5. /\ \A u \in Tids \ {t} : Heeds(task[u], task'[u])
        /\ Minds(task[t], task'[t]) /\ ~At(task'[t], "signal")
        /\ faults' = faults \cup SignalFaults(task[t].stop, s)
    BY <1>1, <1>3, <1>4, GoOnHeeds
  <1>6. Living(task'[t]) => task'[t].how = "free"
    <2>1. SetGoing(t, "free", task') BY DetachEffect
    <2> QED BY <2>1 DEF SetGoing, Dies, GoesOn, Living
  <1> QED BY <1>5, <1>6 DEF Heeds

LEMMA KilledHeeds ==
  ASSUME \A u \in Tids : Proper(task[u]), NEW T
  PROVE  \A u \in Tids : Heeds(task[u], Killed(T)[u])
  BY SameHeeds, DeadHeeds DEF Killed

LEMMA TrappedHeeds ==
  ASSUME GoodTasks, \A u \in Tids : Proper(task[u]), Mode = "attach", NEW T
  PROVE  \A u \in Tids : Heeds(task[u], Trapped(T)[u])
  <1> TAKE u \in Tids
  <1> DEFINE r == task[u]
             x == [r EXCEPT !.trap = TRUE, !.st = IF @ = "listen" THEN "user" ELSE @]
  <1>1. /\ x.sigs = r.sigs /\ x.auto = r.auto /\ x.frames = r.frames /\ x.gst = r.gst
        /\ x.how = r.how /\ x.stop = r.stop /\ x.trap = TRUE
        /\ x.st = IF r.st = "listen" THEN "user" ELSE r.st
    BY DEF GoodTasks, TaskSet
  <1>2. Trapped(T)[u] = x \/ Trapped(T)[u] = r BY DEF Trapped
  <1>3. ~Newborns /\ Mode # "launch" /\ ~r.auto BY DEF Newborns, Proper
  <1> HIDE DEF x
  <1>4. ~x.auto BY <1>1, <1>3
  <1>5. Proper(x) BY <1>1, <1>3, <1>4 DEF Proper, At
  <1>6. Heeds(r, x) BY <1>1, <1>4, <1>5 DEF Heeds, Minds, Stray, Living, At
  <1> QED BY <1>2, <1>6, SameHeeds

LEMMA ReportHeeds ==
  ASSUME GoodTasks, \A u \in Tids : Proper(task[u]), NEW t \in Tids, Waitable(t)
  PROVE  \A u \in Tids : Heeds(task[u], Report(t)[u])
  <1> DEFINE r == task[t]
             x == [r EXCEPT !.seen = TRUE]
             y == [r EXCEPT !.st = "gone"]
  <1>1. /\ x.sigs = r.sigs /\ x.auto = r.auto /\ x.frames = r.frames /\ x.gst = r.gst
        /\ x.how = r.how /\ x.stop = r.stop /\ x.trap = r.trap /\ x.st = r.st
    BY DEF GoodTasks, TaskSet
  <1>2. /\ y.sigs = r.sigs /\ y.auto = r.auto /\ y.frames = r.frames /\ y.gst = r.gst
        /\ y.how = r.how /\ y.stop = r.stop /\ y.trap = r.trap /\ y.st = "gone"
    BY DEF GoodTasks, TaskSet
  <1>3. /\ Report(t) = [task EXCEPT ![t] = IF InStop(t) THEN x ELSE y]
        /\ InStop(t) \/ r.st = "zombie"
    BY DEF Report, Waitable
  <1> HIDE DEF x, y
  <1>4. Heeds(r, x)
    <2>1. Proper(x) BY <1>1 DEF Proper, At
    <2> QED BY <1>1, <2>1 DEF Heeds, Minds, Stray, Living, At
  <1>5. r.st = "zombie" => Heeds(r, y)
    <2>1. r.st = "zombie" => ~r.auto BY DEF Proper, At
    <2>2. r.st = "zombie" => Proper(y) BY <1>2, <2>1 DEF Proper, At
    <2> QED BY <1>2, <2>2 DEF Heeds, Minds, Living, At
  <1>6. Heeds(task[t], IF InStop(t) THEN x ELSE y) BY <1>3, <1>4, <1>5
  <1> QED BY <1>3, <1>6, OneHeeds

LEMMA ListenHeeds ==
  ASSUME GoodTasks, \A u \in Tids : Proper(task[u]), Mode = "attach", NEW t \in Tids,
         PtraceListen(t)
  PROVE  /\ \A u \in Tids \ {t} : Heeds(task[u], task'[u])
         /\ Minds(task[t], task'[t]) /\ ~At(task'[t], "signal") /\ faults' = faults
  <1> DEFINE r == task[t]
             x == [r EXCEPT !.st = "listen", !.stop = NoStop, !.seen = FALSE]
             y == Halt(r, "event_stop", SIGTRAP, 0, "none")
  <1>1. /\ r.st = "stop" /\ faults' = faults
        /\ task' = [task EXCEPT ![t] = x] \/ task' = [task EXCEPT ![t] = y]
    BY DEF PtraceListen, InStop
  <1>2. /\ x.sigs = r.sigs /\ x.auto = r.auto /\ x.frames = r.frames /\ x.gst = r.gst
        /\ x.how = r.how /\ x.trap = r.trap /\ x.st = "listen"
    BY DEF GoodTasks, TaskSet
  <1>3. /\ y.sigs = r.sigs /\ y.auto = r.auto /\ y.frames = r.frames /\ y.gst = r.gst
        /\ y.how = r.how /\ y.trap = r.trap /\ y.st = "stop" /\ y.stop.kind = "event_stop"
    BY DEF GoodTasks, TaskSet, Halt
  <1>4. ~Newborns /\ Mode # "launch" /\ ~r.auto /\ r.how # "free"
    BY <1>1 DEF Newborns, Proper
  <1> HIDE DEF x, y
  <1>5. ~x.auto /\ ~y.auto BY <1>2, <1>3, <1>4
  <1>6. Proper(x) /\ ~At(x, "signal") BY <1>2, <1>4, <1>5 DEF Proper, At
  <1>7. Proper(y) /\ ~At(y, "signal") BY <1>3, <1>4, <1>5 DEF Proper, At
  <1>8. Minds(r, x) /\ Minds(r, y) BY <1>5, <1>6, <1>7 DEF Minds
  <1> QED BY <1>1, <1>6, <1>7, <1>8, SameHeeds DEF GoodTasks

(* The kernel lets go of a running task.                                   *)
LEMMA LetGoHeeds ==
  ASSUME GoodTasks, \A u \in Tids : Proper(task[u]), Mode = "attach", NEW t \in Tids,
         ~InStop(t), task' = [task EXCEPT ![t].how = "free", ![t].trap = FALSE]
  PROVE  \A u \in Tids : Heeds(task[u], task'[u])
  <1> DEFINE r == task[t]
             x == [r EXCEPT !.how = "free", !.trap = FALSE]
  <1>1. /\ x.sigs = r.sigs /\ x.auto = r.auto /\ x.frames = r.frames /\ x.gst = r.gst
        /\ x.how = "free" /\ x.trap = FALSE /\ x.st = r.st
    BY DEF GoodTasks, TaskSet
  <1>2. task' = [task EXCEPT ![t] = x] BY DEF GoodTasks, TaskSet
  <1>3. ~Newborns /\ Mode # "launch" /\ ~r.auto /\ r.st # "stop"
    BY DEF Newborns, Proper, InStop
  <1> HIDE DEF x
  <1>4. ~x.auto BY <1>1, <1>3
  <1>5. Proper(x) BY <1>1, <1>3, <1>4 DEF Proper, At
  <1>6. Heeds(r, x) BY <1>1, <1>3, <1>4, <1>5 DEF Heeds, Minds, At
  <1> QED BY <1>2, <1>6, OneHeeds

(* Two records that differ in nothing signals have to do with.             *)
Alike(r, x) ==
  /\ x.sigs = r.sigs /\ x.auto = r.auto /\ x.gst = r.gst /\ x.how = r.how
  /\ x.trap = r.trap /\ x.st = r.st /\ x.stop = r.stop /\ DOMAIN x = DOMAIN NoTask

LEMMA AlikeCalm ==
  ASSUME NEW r, NEW x, Proper(r), ~r.auto, Alike(r, x)
  PROVE  Proper(x) /\ \A y : Calm(x, y) => Calm(r, y)
  <1>1. ~x.auto BY DEF Alike
  <1>2. Proper(x) BY <1>1 DEF Proper, Alike, At
  <1>3. \A y : Calm(x, y) => Calm(r, y) BY DEF Calm, Alike
  <1> QED BY <1>2, <1>3

LEMMA GetSignalHeeds ==
  ASSUME KernelBase, \A u \in Tids : Proper(task[u]), NEW t \in Tids, GetSignal(t)
  PROVE  \A u \in Tids : Heeds(task[u], task'[u])
  <1> DEFINE r == task[t]
             s == LowestSignal(t)
  <1>1. /\ Proper(r) /\ r.st = "user" /\ Living(r) /\ r.how # "free" /\ GoodTasks
        /\ r \in TaskSet /\ Deliverable(t)
    BY DEF GetSignal, Living, KernelBase, GoodTasks
  <1>2. Mode \in {"launch", "attach"} BY KernelAssumption DEF KernelBase, Mode
  <1>3. CASE r.gst # 0
    <2> DEFINE k == IF Mode = "attach" THEN "event_stop" ELSE "group_stop"
               y == Halt([r EXCEPT !.gst = 0, !.trap = FALSE], k, r.gst, 0, "none")
    <2>1. task' = [task EXCEPT ![t] = y] BY <1>3 DEF GetSignal
    <2>2. /\ y.sigs = r.sigs /\ y.auto = r.auto /\ y.frames = r.frames /\ y.gst = 0
          /\ y.how = r.how /\ y.trap = FALSE /\ y.st = "stop" /\ y.stop.kind = k
          /\ y.stop.sig = r.gst
      BY <1>1 DEF Halt, TaskSet
    <2> HIDE DEF y
    <2>3. Proper(y) BY <1>1, <1>2, <2>2 DEF Proper, At, Newborns, SIGSTOP
    <2>4. Mode = "attach" => Stray(y) BY <2>2 DEF Stray, At
    <2>5. Heeds(r, y) BY <2>2, <2>3, <2>4 DEF Heeds, Minds, At
    <2> QED BY <1>1, <2>1, <2>5, OneHeeds
  <1>4. CASE r.gst = 0 /\ r.trap
    <2> DEFINE y == Halt([r EXCEPT !.trap = FALSE], "event_stop", SIGTRAP, 0, "none")
    <2>1. task' = [task EXCEPT ![t] = y] BY <1>4 DEF GetSignal
    <2>2. /\ y.sigs = r.sigs /\ y.auto = r.auto /\ y.frames = r.frames /\ y.gst = r.gst
          /\ y.how = r.how /\ y.trap = FALSE /\ y.st = "stop" /\ y.stop.kind = "event_stop"
      BY <1>1 DEF Halt, TaskSet
    <2> HIDE DEF y
    <2>3. Mode # "launch" /\ ~r.auto BY <1>1, <1>4 DEF Proper, Newborns
    <2>4. ~y.auto BY <2>2, <2>3
    <2>5. Proper(y) BY <1>1, <2>2, <2>3, <2>4 DEF Proper, At, Newborns
    <2>6. Heeds(r, y) BY <2>2, <2>4, <2>5 DEF Heeds, Minds, At, Stray
    <2> QED BY <1>1, <2>1, <2>6, OneHeeds
  <1>5. CASE r.gst = 0 /\ ~r.trap
    <2> DEFINE v == IF s = SIGSTOP /\ r.auto THEN "auto" ELSE "none"
               x == [r EXCEPT !.sigs = @ \ {s}, !.auto = @ /\ s # SIGSTOP]
               y == Halt(x, "signal", s, 0, v)
    <2>1. task' = [task EXCEPT ![t] = y] BY <1>5 DEF GetSignal
    <2>2. /\ y.sigs = r.sigs \ {s} /\ y.auto = (r.auto /\ s # SIGSTOP)
          /\ y.frames = r.frames /\ y.gst = r.gst
          /\ y.how = r.how /\ y.trap = r.trap /\ y.st = "stop" /\ y.stop.kind = "signal"
          /\ y.stop.sig = s /\ y.stop.val = v
      BY <1>1 DEF Halt, TaskSet
    <2>3. Unblocked(t) # {} BY <1>1, <1>5 DEF Deliverable
    <2>4. s \in Unblocked(t) /\ s \in Nat BY <1>1, <2>3, LowestSignalType
    <2>5. s \in r.sigs BY <2>4 DEF Unblocked
    <2>6. r.auto => s = SIGSTOP
      <3> SUFFICES ASSUME r.auto PROVE s = SIGSTOP OBVIOUS
      <3>1. SIGSTOP \in Unblocked(t) BY <1>1 DEF Proper, Unblocked
      <3>2. Unblocked(t) \subseteq Nat \ {0} BY <1>1 DEF TaskSet, Unblocked
      <3>3. \E m \in Unblocked(t) : \A j \in Unblocked(t) : m <= j
        BY <2>3, <3>2, LeastElement
      <3>4. s <= SIGSTOP BY <3>1, <3>3 DEF LowestSignal
      <3>5. s >= SIGSTOP BY <1>1, <2>5 DEF Proper
      <3> QED BY <2>4, <3>4, <3>5 DEF SIGSTOP
    <2> HIDE DEF y, x, s
    <2>7. ~y.auto BY <2>2, <2>6
    <2>8. v = "auto" => r.auto /\ s = SIGSTOP OBVIOUS
    <2>9. Certain /\ s = SIGSTOP => v = "auto" BY <1>1, <2>5 DEF Proper
    <2> HIDE DEF v
    <2>10. Certain => SIGSTOP \notin y.sigs BY <1>1, <2>2, <2>6 DEF Proper
    <2>11. Newborns => \A z \in y.sigs : z >= SIGSTOP BY <1>1, <2>2 DEF Proper
    <2>12. r.auto => Mode = "launch" BY <1>1 DEF Proper, Newborns
    <2>13. Proper(y)
      BY <1>1, <2>2, <2>7, <2>8, <2>9, <2>10, <2>11, <2>12 DEF Proper, At
    <2>14. Minds(r, y) BY <1>1, <2>2, <2>7, <2>8, <2>13 DEF Minds
    <2>15. Living(r) /\ ~Stray(r) BY <1>1, <1>5 DEF Stray, At
    <2>16. Heeds(r, y) BY <2>14, <2>15 DEF Heeds
    <2> QED BY <1>1, <2>1, <2>16, OneHeeds
  <1> QED BY <1>3, <1>4, <1>5

LEMMA UntracedHeeds ==
  ASSUME KernelBase, \A u \in Tids : Proper(task[u]), NEW t \in Tids, GetSignalUntraced(t)
  PROVE  \A u \in Tids : Heeds(task[u], task'[u])
  <1> DEFINE r == task[t]
             sg == LowestSignal(t)
  <1>1. /\ Proper(r) /\ r.st = "user" /\ Living(r) /\ r.how = "free" /\ GoodTasks
        /\ r \in TaskSet /\ Deliverable(t)
    BY DEF GetSignalUntraced, Living, KernelBase, GoodTasks, Deliverable
  <1>2. Mode = "attach"
    BY <1>1, KernelAssumption DEF KernelBase, Mode, Proper
  <1>3. ~r.auto /\ ~Newborns /\ Certain /\ SIGSTOP \notin r.sigs
    BY <1>1, <1>2 DEF Proper, Newborns, Certain
  <1>4. CASE r.gst # 0
    <2> DEFINE s == [r EXCEPT !.st = "listen", !.gst = 0]
    <2>1. task' = [task EXCEPT ![t].st = "listen", ![t].gst = 0]
      BY <1>4 DEF GetSignalUntraced
    <2>2. task' = [task EXCEPT ![t] = s] BY <1>1, <2>1 DEF GoodTasks
    <2>3. /\ s.sigs = r.sigs /\ s.auto = r.auto /\ s.how = "free" /\ s.st = "listen"
      BY <1>1 DEF TaskSet
    <2> HIDE DEF s
    <2>4. ~s.auto BY <1>3, <2>3
    <2>5. Proper(s) BY <1>2, <1>3, <2>3, <2>4 DEF Proper, At
    <2>6. Heeds(r, s) BY <2>3, <2>4, <2>5 DEF Heeds, Minds, At
    <2> QED BY <1>1, <2>2, <2>6, OneHeeds
  <1>5. CASE r.gst = 0
    <2> DEFINE b == [r EXCEPT !.sigs = @ \ {sg}]
    <2>1. Deliver(t, b, sg, "free") BY <1>5 DEF GetSignalUntraced
    <2>2. /\ b \in TaskSet /\ b.sigs \subseteq r.sigs /\ b.auto = r.auto
          /\ b.tg = r.tg /\ b.gst = r.gst
      BY <1>1 DEF TaskSet
    <2> HIDE DEF b, sg
    <2>3. ~b.auto BY <1>3, <2>2
    <2>4. /\ \A u \in Tids \ {t} : Heeds(task[u], task'[u])
          /\ Proper(task'[t]) /\ ~task'[t].auto
          /\ Living(task'[t]) => task'[t].st = "user" /\ (task'[t].trap = b.trap)
      BY <1>1, <1>2, <1>3, <2>1, <2>2, <2>3, DeliverHeeds
    <2>5. Everyone(task') BY GetSignalUntracedEffect
    <2>6. task'[t].how = "free"
      BY <1>1, <2>5 DEF Everyone, Plain, Stays, Dies, Moves
    <2>7. Heeds(r, task'[t]) BY <2>4, <2>6 DEF Heeds, Minds, At, Living
    <2> QED BY <2>4, <2>7
  <1> QED BY <1>4, <1>5

LEMMA ContinueHeeds ==
  ASSUME GoodTasks, \A u \in Tids : Proper(task[u]), ~Newborns, NEW u \in Tids,
         Living(task[u]),
         NEW y, y.gst = 0, y.auto = task[u].auto, y.how = task[u].how,
         y.stop = task[u].stop, Certain => SIGSTOP \notin y.sigs,
         y.st = (IF task[u].st = "listen" THEN "user" ELSE task[u].st),
         y.trap <=> (task[u].trap \/ (task[u].st = "listen" /\ task[u].how # "free"))
  PROVE  Heeds(task[u], y)
  <1> DEFINE r == task[u]
  <1>1. Proper(r) /\ ~r.auto BY DEF Proper
  <1>2. ~y.auto BY <1>1
  <1>3. Mode = "launch" => ~y.trap BY <1>1 DEF Proper
  <1>4. Proper(y) BY <1>1, <1>2, <1>3 DEF Proper, At
  <1>5. At(y, "signal") => At(r, "signal") /\ y.stop = r.stop BY DEF At
  <1>6. Stray(r) => Stray(y)
    <2>1. r.st = "user" /\ r.trap => y.st = "user" /\ y.trap OBVIOUS
    <2>2. r.st = "stop" => y.st = "stop" /\ y.stop = r.stop OBVIOUS
    <2> QED BY <2>1, <2>2 DEF Stray, At
  <1> QED BY <1>2, <1>4, <1>5, <1>6 DEF Heeds, Minds

LEMMA SendHeeds ==
  ASSUME KernelBase, OwnStopCertain, \A u \in Tids : Proper(task[u]), NEW t \in Tids,
         NEW s \in Signals, SendSignal(t, s)
  PROVE  \A u \in Tids : Heeds(task[u], task'[u])
  <1> DEFINE g == task[t].tg
             f == [u \in Tids |-> IF Alive(u) /\ task[u].tg = g THEN Continue(task[u])
                                  ELSE task[u]]
             add(x) == [x EXCEPT !.sigs = @ \cup {s}]
             r == task[t]
  <1>1. /\ GoodTasks /\ Alive(t) /\ Living(r) /\ r \in TaskSet
        /\ \A u \in Tids : task[u] \in TaskSet
        /\ s \in DOMAIN Disposition /\ s \in Nat
    BY KernelAssumption DEF KernelBase, GoodTasks, SendSignal, Alive, Living, Signals
  <1>2. Certain => s # SIGSTOP BY DEF OwnStopCertain, Certain
  <1>3. Newborns /\ s # SIGKILL => s > SIGSTOP BY DEF OwnStopCertain, Newborns
  <1>4. CASE s = SIGKILL
    <2>1. task' = KillGroup(g, -s) BY <1>4 DEF SendSignal
    <2> QED BY <2>1, KillHeeds
  <1>5. CASE s # SIGKILL /\ Disposition[s] # "cont"
    <2> DEFINE y == add(r)
    <2>1. task' = [task EXCEPT ![t] = y] BY <1>5 DEF SendSignal
    <2>2. /\ y.sigs = r.sigs \cup {s} /\ y.auto = r.auto /\ y.frames = r.frames
          /\ y.gst = r.gst /\ y.how = r.how /\ y.trap = r.trap /\ y.st = r.st
          /\ y.stop = r.stop
      BY <1>1 DEF TaskSet
    <2> HIDE DEF y
    <2>3. Newborns => \A z \in y.sigs : z >= SIGSTOP
      BY <1>1, <1>3, <1>5, <2>2 DEF Proper, SIGSTOP
    <2>4. Certain /\ SIGSTOP \in y.sigs => y.auto BY <1>2, <2>2 DEF Proper
    <2>5. Proper(y) BY <2>2, <2>3, <2>4 DEF Proper, At
    <2>6. Heeds(r, y) BY <2>2, <2>5 DEF Heeds, Minds, Stray, Living, At
    <2> QED BY <1>1, <2>1, <2>6, OneHeeds
  <1>6. CASE s # SIGKILL /\ Disposition[s] = "cont"
    <2>1. ~Newborns BY <1>1, <1>3, <1>6, KernelAssumption DEF SIGSTOP
    <2>2. task' = [f EXCEPT ![t] = add(f[t])] BY <1>6 DEF SendSignal
    <2>3. \A u \in Tids :
            LET y == Continue(task[u])
            IN  /\ y.gst = 0 /\ y.auto = task[u].auto /\ y.how = task[u].how
                /\ y.stop = task[u].stop /\ y.sigs \subseteq task[u].sigs
                /\ y.st = (IF task[u].st = "listen" THEN "user" ELSE task[u].st)
                /\ y.trap = (task[u].trap \/ (task[u].st = "listen" /\ task[u].how # "free"))
                /\ DOMAIN y = DOMAIN task[u]
      BY <1>1 DEF Continue, TaskSet
    <2>4. \A u \in Tids : Certain => SIGSTOP \notin task[u].sigs BY <2>1 DEF Proper
    <2>5. ASSUME NEW u \in Tids, Alive(u), task[u].tg = g, u # t
          PROVE  Heeds(task[u], task'[u])
      <3>1. task'[u] = Continue(task[u]) BY <2>2, <2>5
      <3>2. Living(task[u]) BY <2>5 DEF Alive, Living
      <3> DEFINE y == Continue(task[u])
      <3>3. /\ y.gst = 0 /\ y.auto = task[u].auto /\ y.how = task[u].how
            /\ y.stop = task[u].stop /\ y.sigs \subseteq task[u].sigs
            /\ y.st = (IF task[u].st = "listen" THEN "user" ELSE task[u].st)
            /\ y.trap = (task[u].trap \/ (task[u].st = "listen" /\ task[u].how # "free"))
        BY <2>3
      <3> HIDE DEF y
      <3>4. Certain => SIGSTOP \notin y.sigs BY <2>4, <3>3
      <3>5. y.trap <=> (task[u].trap \/ (task[u].st = "listen" /\ task[u].how # "free"))
        BY <3>3
      <3>6. Heeds(task[u], y) BY <1>1, <2>1, <3>2, <3>3, <3>4, <3>5, ContinueHeeds
      <3> QED BY <3>1, <3>6 DEF y
    <2>6. Heeds(task[t], task'[t])
      <3> DEFINE z == Continue(task[t])
                 y == [z EXCEPT !.sigs = @ \cup {s}]
      <3>1. f[t] = z BY <1>1
      <3>2. task'[t] = y BY <2>2, <3>1
      <3>3. /\ z.gst = 0 /\ z.auto = task[t].auto /\ z.how = task[t].how
            /\ z.stop = task[t].stop /\ z.sigs \subseteq task[t].sigs
            /\ z.st = (IF task[t].st = "listen" THEN "user" ELSE task[t].st)
            /\ z.trap = (task[t].trap \/ (task[t].st = "listen" /\ task[t].how # "free"))
            /\ DOMAIN z = DOMAIN NoTask
        BY <1>1, <2>3 DEF TaskSet, NoTask
      <3> HIDE DEF z
      <3>4. /\ y.gst = z.gst /\ y.auto = z.auto /\ y.how = z.how /\ y.stop = z.stop
            /\ y.sigs = z.sigs \cup {s} /\ y.st = z.st /\ y.trap = z.trap
        BY <3>3 DEF NoTask
      <3> HIDE DEF y, f, add
      <3>5. Certain => SIGSTOP \notin y.sigs BY <1>2, <2>4, <3>3, <3>4
      <3>6. y.trap <=> (task[t].trap \/ (task[t].st = "listen" /\ task[t].how # "free"))
        BY <3>3, <3>4
      <3>7. /\ y.gst = 0 /\ y.auto = task[t].auto /\ y.how = task[t].how
            /\ y.stop = task[t].stop
            /\ y.st = (IF task[t].st = "listen" THEN "user" ELSE task[t].st)
        BY <3>3, <3>4
      <3>8. Heeds(task[t], y) BY <1>1, <2>1, <3>5, <3>6, <3>7, ContinueHeeds
      <3> QED BY <3>2, <3>8
    <2>7. ASSUME NEW u \in Tids, ~(Alive(u) /\ task[u].tg = g)
          PROVE  Heeds(task[u], task'[u])
      <3>1. u # t BY <1>1, <2>7
      <3>2. task'[u] = task[u] BY <2>2, <2>7, <3>1
      <3> QED BY <3>2, SameHeeds
    <2> QED BY <2>5, <2>6, <2>7
  <1> QED BY <1>4, <1>5, <1>6

LEMMA ForkHeeds ==
  ASSUME KernelBase, \A u \in Tids : Proper(task[u]), NEW t \in Tids, Fork(t)
  PROVE  \A u \in Tids : Heeds(task[u], task'[u])
  <1> DEFINE c == CHOOSE u \in Unborn : \A v \in Unborn : u <= v
             r == task[t]
             x == [r EXCEPT !.st = "spawned", !.child = c]
  <1>1. GoodTasks /\ r.st = "sys" /\ Follow /\ Mode \in {"launch", "attach"}
    BY KernelAssumption DEF KernelBase, Fork, Mode
  <1>2. c \in Unborn
    <2>1. Unborn \in SUBSET Nat /\ Unborn # {} BY KernelAssumption DEF Fork, Unborn
    <2>2. \E u \in Unborn : \A v \in Unborn : u <= v
      <3> HIDE DEF c
      <3> QED BY <2>1, LeastElement
    <2> QED BY <2>2
  <1>3. \E b : /\ task' = [task EXCEPT ![t].st = "spawned", ![t].child = c, ![c] = b]
               /\ b.st = "user" /\ b.gst = 0 /\ b.frames = << >>
               /\ b.how = (IF r.how = "free" THEN "free" ELSE "CONT")
               /\ b.sigs = (IF Mode = "launch" THEN {SIGSTOP} ELSE {})
               /\ b.auto = (Mode = "launch")
               /\ b.trap = (Mode = "attach" /\ r.how # "free")
    <2> DEFINE nr == task[t].call.nr
               g  == IF nr = "clone" THEN task[t].tg ELSE c
               b == [NoTask EXCEPT !.st = "user",
                    !.tg = g,
                    !.execd = task[t].execd /\ nr = "clone",
                    !.how = IF task[t].how = "free" THEN "free" ELSE "CONT",
                    !.sigs = IF Mode = "launch" THEN {SIGSTOP} ELSE {},
                    !.auto = Mode = "launch",
                    !.trap = Mode = "attach" /\ task[t].how # "free"]
    <2>1. task' = [task EXCEPT ![t].st = "spawned", ![t].child = c, ![c] = b] BY DEF Fork
    <2>2. /\ b.st = "user" /\ b.gst = 0 /\ b.frames = << >>
          /\ b.how = (IF r.how = "free" THEN "free" ELSE "CONT")
          /\ b.sigs = (IF Mode = "launch" THEN {SIGSTOP} ELSE {})
          /\ b.auto = (Mode = "launch")
          /\ b.trap = (Mode = "attach" /\ r.how # "free")
      <3> HIDE DEF c, g
      <3> QED BY DEF NoTask
    <2> HIDE DEF b, c
    <2> QED BY <2>1, <2>2
  <1> HIDE DEF c
  <1>4. PICK b : /\ task' = [task EXCEPT ![t].st = "spawned", ![t].child = c, ![c] = b]
                 /\ b.st = "user" /\ b.gst = 0 /\ b.frames = << >>
                 /\ b.how = (IF r.how = "free" THEN "free" ELSE "CONT")
                 /\ b.sigs = (IF Mode = "launch" THEN {SIGSTOP} ELSE {})
                 /\ b.auto = (Mode = "launch")
                 /\ b.trap = (Mode = "attach" /\ r.how # "free")
    BY <1>3
  <1>5. c \in Tids /\ task[c].st = "none" /\ c # t BY <1>1, <1>2 DEF Unborn
  <1>6. /\ x.sigs = r.sigs /\ x.auto = r.auto /\ x.gst = r.gst /\ x.how = r.how
        /\ x.trap = r.trap /\ x.st = "spawned"
    BY <1>1 DEF GoodTasks, TaskSet
  <1>7. task'[t] = x /\ task'[c] = b /\ \A u \in Tids \ {t, c} : task'[u] = task[u]
    BY <1>1, <1>4, <1>5 DEF GoodTasks, TaskSet
  <1> HIDE DEF x
  <1>8. Heeds(r, x)
    <2>1. ~r.auto /\ Living(r) /\ ~Stray(r) BY <1>1, InCallCalm
    <2>2. Calm(r, x) BY <1>1, <1>6 DEF Calm, At
    <2> QED BY <2>1, <2>2, CalmHeeds
  <1>9. Heeds(task[c], b)
    <2>1. b.auto <=> Mode = "launch" BY <1>4
    <2>2. b.trap <=> (Mode = "attach" /\ r.how # "free") BY <1>4
    <2>3. Mode = "launch" => Newborns BY <1>1 DEF Newborns
    <2>4. Mode = "launch" => r.how # "free" BY DEF Proper
    <2>5. \A z \in b.sigs : z >= SIGSTOP BY <1>4 DEF SIGSTOP
    <2>6. SIGSTOP \in b.sigs <=> Mode = "launch" BY <1>4
    <2>7. b.how = "free" <=> r.how = "free" BY <1>4
    <2>8. Mode = "launch" => Mode # "attach" OBVIOUS
    <2>9. Proper(b)
      BY <1>4, <2>1, <2>2, <2>3, <2>4, <2>5, <2>6, <2>7, <2>8 DEF Proper, At, SIGSTOP
    <2>10. Minds(task[c], b) BY <1>1, <1>4, <1>5, <2>9 DEF Minds, At
    <2>11. Mode = "attach" => Stray(b) \/ b.how = "free" BY <1>4, <2>2, <2>7 DEF Stray
    <2> QED BY <2>10, <2>11 DEF Heeds
  <1> QED BY <1>7, <1>8, <1>9, SameHeeds

LEMMA ExecHeeds ==
  ASSUME KernelBase, \A u \in Tids : Proper(task[u]), NEW t \in Tids, ExecEvent(t)
  PROVE  \A u \in Tids : Heeds(task[u], task'[u])
  <1> DEFINE l == task[t].tg
             r == [task[t] EXCEPT !.execd = TRUE, !.frames = << >>, !.again = NoCall]
             s == Event(r, "exec", t)
             b == [NoTask EXCEPT !.st = "gone", !.tg = l]
  <1>1. task[t].st = "exec" /\ task[t] \in TaskSet BY DEF ExecEvent, KernelBase, GoodTasks
  <1>2. task' = [u \in Tids |-> IF u = l THEN s ELSE IF u = t THEN b ELSE task[u]]
    BY DEF ExecEvent
  <1>3. Alike(task[t], r) BY <1>1 DEF Alike, TaskSet, NoTask
  <1>4. b.st = "gone" /\ b.auto = FALSE /\ b.sigs = {} /\ b.gst = 0 /\ b.trap = FALSE
        /\ b.how = "CONT"
    BY DEF NoTask
  <1> HIDE DEF r, b
  <1>5. s.st = "ret" \/ (s.stop.kind = "exec" /\ s.st = "stop")
    <2>1. DOMAIN r = DOMAIN NoTask BY <1>3 DEF Alike
    <2>2. Halt(r, "exec", SIGTRAP, t, "none").st = "stop"
          /\ Halt(r, "exec", SIGTRAP, t, "none").stop.kind = "exec"
      BY <2>1 DEF Halt, NoTask
    <2>3. [r EXCEPT !.st = "ret"].st = "ret" BY <2>1 DEF NoTask
    <2> QED BY <2>2, <2>3 DEF Event
  <1>6. ~task[t].auto /\ Living(task[t]) /\ ~Stray(task[t]) BY <1>1, InCallCalm
  <1>7. Proper(r) /\ \A y : Calm(r, y) => Calm(task[t], y) BY <1>3, <1>6, AlikeCalm
  <1>8. Calm(task[t], s)
    <2>1. DOMAIN r = DOMAIN NoTask /\ (r.st = "spawned" => Follow)
      BY <1>1, <1>3 DEF Alike
    <2>2. \A msg : Calm(r, Event(r, "exec", msg)) BY <1>7, <2>1, RecordCalm
    <2> HIDE DEF s
    <2>3. Calm(r, s) BY <2>2 DEF s
    <2> QED BY <1>7, <2>3
  <1>9. Heeds(task[t], s)
    <2> HIDE DEF s
    <2> QED BY <1>6, <1>8, CalmHeeds
  <1>10. s.st = "ret" => s.how = "free"
    <2>1. s.st = "ret" => r.how = "free" BY <1>3 DEF Event, Halt, Alike, NoTask
    <2> QED BY <1>3, <1>8, <2>1 DEF Alike, Calm
  <1> HIDE DEF s
  <1>11. \A q : Heeds(q, s)
    <2>1. ~s.auto /\ ~At(s, "signal") BY <1>6, <1>8 DEF Calm
    <2>2. Stray(s) \/ s.how = "free" BY <1>5, <1>10 DEF Stray, At
    <2> QED BY <1>9, <2>1, <2>2 DEF Heeds, Minds
  <1>12. \A q : Heeds(q, b)
    <2>1. Proper(b) BY <1>4 DEF Proper, At, SIGSTOP
    <2> QED BY <1>4, <2>1 DEF Heeds, Minds, At, Living
  <1> QED BY <1>2, <1>11, <1>12, SameHeeds

(* The steps of the tasks.                                                 *)
LEMMA TasksHeed ==
  ASSUME KernelBase, OwnStopCertain, \A u \in Tids : Proper(task[u]), TasksStep
  PROVE  \A u \in Tids : Heeds(task[u], task'[u])
  <1>1. /\ GoodTasks /\ Root \in Tids /\ \A u \in Tids : task[u] \in TaskSet
        /\ \A u \in Tids : DOMAIN task[u] = DOMAIN NoTask
        /\ \A u \in Tids : task[u].st = "spawned" => Follow
    BY RootType DEF KernelBase, GoodTasks, TaskSet, NoTask, Proper
  <1>2. CASE SetupFails
    <2>1. Heeds(task[Root], Dead(task[Root], 126)) BY <1>1, DeadHeeds
    <2> QED BY <1>1, <1>2, <2>1, OneHeeds DEF SetupFails
  <1>3. ASSUME NEW t \in Tids, KernelStep(t) \/ ProgramStep(t)
        PROVE  \A u \in Tids : Heeds(task[u], task'[u])
    <2> DEFINE r == task[t]
               Goal == \A u \in Tids : Heeds(task[u], task'[u])
    <2>1. r \in TaskSet /\ DOMAIN r = DOMAIN NoTask /\ Proper(r) /\ (r.st = "spawned" => Follow)
      BY <1>1
    <2>2. ASSUME NEW s, Calm(r, s), r.st \in {"sys", "ret", "spawned", "exec"} \/ InUserMode(t),
                 task' = [task EXCEPT ![t] = s]
          PROVE  Goal
      <3>1. ~r.auto /\ Living(r) /\ ~Stray(r) BY <2>1, <2>2, InCallCalm, UserCalm
      <3>2. Heeds(r, s) BY <2>1, <2>2, <3>1, CalmHeeds
      <3> QED BY <1>1, <2>2, <3>2, OneHeeds
    <2>3. ASSUME NEW x, Alike(r, x), r.st \in {"sys", "ret", "spawned", "exec"} \/ InUserMode(t)
          PROVE  /\ \A c : Calm(r, Enter(x, c))
                 /\ \A val : Calm(r, Leave(x, val))
                 /\ Calm(r, x) \/ At(x, "group_stop")
      <3>1. ~r.auto BY <2>1, <2>3, InCallCalm, UserCalm
      <3>2. Proper(x) /\ \A y : Calm(x, y) => Calm(r, y) BY <2>1, <2>3, <3>1, AlikeCalm
      <3>3. DOMAIN x = DOMAIN NoTask /\ (x.st = "spawned" => Follow)
        BY <2>1, <2>3 DEF Alike
      <3>4. (\A c : Calm(x, Enter(x, c))) /\ (\A val : Calm(x, Leave(x, val)))
        BY <3>2, <3>3, RecordCalm
      <3>5. r.st # "stop" BY <2>3 DEF InUserMode
      <3>6. Calm(r, x) BY <2>1, <2>3, <3>3, <3>5 DEF Calm, Alike, At, InUserMode
      <3> QED BY <3>2, <3>4, <3>6
    <2>4. Alike(r, r) BY <2>1 DEF Alike
    <2> HIDE DEF Goal
    <2>5. CASE \E nr \in Calls \cup {"rt_sigreturn"} : EnterSyscall(t, nr)
      <3>1. InUserMode(t) /\ \E c : task' = [task EXCEPT ![t] = Enter(r, c)]
        BY <2>5 DEF EnterSyscall
      <3> QED BY <2>2, <2>3, <2>4, <3>1 DEF Goal
    <2>6. CASE DecideRestart(t)
      <3>1. InUserMode(t) BY <2>6 DEF DecideRestart
      <3>2. PICK a : task' = [task EXCEPT ![t] = [r EXCEPT !.rst = NoCall, !.again = a]]
        BY <1>1, <2>6 DEF DecideRestart, GoodTasks, TaskSet
      <3> DEFINE x == [r EXCEPT !.rst = NoCall, !.again = a]
      <3>3. Alike(r, x) /\ x.st = "user" BY <2>1, <3>1 DEF Alike, TaskSet, InUserMode
      <3> HIDE DEF x
      <3>4. Calm(r, x) BY <2>3, <3>1, <3>3 DEF At
      <3> QED BY <2>2, <3>1, <3>2, <3>4 DEF Goal, x
    <2>7. CASE Restart(t)
      <3> DEFINE x == [r EXCEPT !.again = NoCall]
      <3>1. Alike(r, x) BY <2>1 DEF Alike, TaskSet
      <3>2. InUserMode(t) /\ task' = [task EXCEPT ![t] = Enter(x, r.again)]
        BY <2>7 DEF Restart
      <3> HIDE DEF x
      <3> QED BY <2>2, <2>3, <3>1, <3>2 DEF Goal
    <2>8. CASE \E val \in {"ok", "err"} : Return(t, val)
      <3>1. r.st = "sys" /\ \E val : task' = [task EXCEPT ![t] = Leave(r, val)]
        BY <2>8 DEF Return
      <3> QED BY <2>2, <2>3, <2>4, <3>1 DEF Goal
    <2>9. CASE Sigreturn(t)
      <3> DEFINE x == [r EXCEPT !.again = Head(r.frames).rst, !.frames = Tail(r.frames)]
      <3>1. Alike(r, x) BY <2>1 DEF Alike, TaskSet
      <3>2. r.st = "sys" /\ task' = [task EXCEPT ![t] = Leave(x, "ok")]
        BY <2>9 DEF Sigreturn
      <3> HIDE DEF x
      <3> QED BY <2>2, <2>3, <3>1, <3>2 DEF Goal
    <2>10. CASE Interrupted(t)
      <3> DEFINE x == [r EXCEPT !.rst = task[t].call]
      <3>1. Alike(r, x) BY <2>1 DEF Alike, TaskSet
      <3>2. r.st = "sys" /\ task' = [task EXCEPT ![t] = Leave(x, "restart")]
        BY <2>10 DEF Interrupted
      <3> HIDE DEF x
      <3> QED BY <2>2, <2>3, <3>1, <3>2 DEF Goal
    <2>11. CASE Complete(t)
      <3> DEFINE x == [r EXCEPT !.child = 0]
      <3>1. Alike(r, x) BY <2>1 DEF Alike, TaskSet
      <3>2. r.st = "ret" /\ task' = [task EXCEPT ![t] = Leave(x, "ok")]
        BY <2>11 DEF Complete
      <3> HIDE DEF x
      <3> QED BY <2>2, <2>3, <3>1, <3>2 DEF Goal
    <2>12. CASE ForkEvent(t)
      <3>1. r.st = "spawned" /\ task' = [task EXCEPT ![t] = Event(r, "fork", r.child)]
        BY <2>12 DEF ForkEvent
      <3>2. Calm(r, Event(r, "fork", r.child)) BY <2>1, <3>1, RecordCalm
      <3> QED BY <2>2, <3>1, <3>2 DEF Goal
    <2>13. CASE Fork(t) BY <2>13, ForkHeeds DEF Goal
    <2>14. CASE ExecEvent(t) BY <2>14, ExecHeeds DEF Goal
    <2>15. CASE GetSignal(t) BY <2>15, GetSignalHeeds DEF Goal
    <2>16. CASE GetSignalUntraced(t) BY <2>16, UntracedHeeds DEF Goal
    <2>17. CASE \E code \in ExitCodes : ExitGroup(t, code)
      BY <2>17, KillHeeds DEF ExitGroup, Goal
    <2>18. CASE ExitThread(t)
      <3>1. Heeds(r, Dead(r, 0)) BY <2>1, DeadHeeds
      <3> QED BY <1>1, <2>18, <3>1, OneHeeds DEF ExitThread, Goal
    <2>19. CASE ExecBegin(t)
      <3> DEFINE k == KillGroup(task[t].tg, 0)
                 x == [task[t] EXCEPT !.st = "exec"]
      <3>1. (\A u \in Tids : Heeds(task[u], k[u])) /\ DOMAIN k = Tids
        BY KillHeeds DEF KillGroup
      <3>2. task' = [k EXCEPT ![t] = x] /\ r.st = "sys" BY <2>19 DEF ExecBegin
      <3>3. /\ x.sigs = r.sigs /\ x.auto = r.auto /\ x.gst = r.gst /\ x.how = r.how
            /\ x.trap = r.trap /\ x.st = "exec"
        BY <2>1 DEF TaskSet
      <3> HIDE DEF k, x
      <3>4. Calm(r, x) BY <3>3 DEF Calm, At
      <3>5. ~r.auto /\ Living(r) /\ ~Stray(r) BY <2>1, <3>2, InCallCalm
      <3>6. Heeds(r, x) BY <2>1, <3>4, <3>5, CalmHeeds
      <3> QED BY <3>1, <3>2, <3>6 DEF Goal
    <2>20. CASE \E s \in Signals : SendSignal(t, s) BY <2>20, SendHeeds DEF Goal
    <2>21. KernelStep(t) => Goal
      BY <2>6, <2>7, <2>9, <2>10, <2>11, <2>12, <2>13, <2>14, <2>15, <2>16, <2>17, <2>18
         DEF KernelStep, Goal
    <2>22. ProgramStep(t) => Goal BY <2>5, <2>8, <2>19, <2>20 DEF ProgramStep, Goal
    <2> QED BY <1>3, <2>21, <2>22 DEF Goal
  <1> QED BY <1>2, <1>3 DEF TasksStep

=============================================================================
