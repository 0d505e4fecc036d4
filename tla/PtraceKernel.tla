---------------------------- MODULE PtraceKernel ----------------------------
(***************************************************************************)
(* EXTERNAL: the Linux tasks being traced and the ptrace interface, as the *)
(* code in src/src/trace.c uses it.  Tasks make system calls, take signals,*)
(* fork, exec and die; a traced task that reaches a ptrace-stop waits for  *)
(* the tracer.  Nothing here is code of the repository: it is the world    *)
(* the tracer has to keep up with.                                         *)
(***************************************************************************)
EXTENDS Integers, FiniteSets, Sequences

CONSTANTS Tids,         \* thread ids, positive numbers, handed out in order
          Disposition,  \* signal -> what the program does with it
          MaxIds,       \* bound on the system calls made
          Configs       \* command lines, each with a program to trace

VARIABLES config,    \* the member of Configs this is a run of; never changes
          task,      \* task[t]: the kernel's view of a task
          result,    \* result[i]: how call i ended as its caller sees it
          made,      \* made[i]: what call i is
          nsigs,     \* signals sent so far
          jobstop,   \* thread groups in a job-control stop
          faults     \* history: what went wrong with signal delivery

kernel == <<task, result, made, nsigs, jobstop, faults>>

(* struct sg_config *)
Mode     == config.mode       \* "launch" or "attach"
Follow   == config.follow     \* -f: PTRACE_O_TRACEFORK | TRACEVFORK | TRACECLONE
Seccomp  == config.seccomp    \* --seccomp-bpf
Selected == config.selected   \* the calls the -e filter selects

(* The program, and what is done to it. *)
InitTasks  == config.tasks      \* tasks that exist when tracing starts
Calls      == config.calls      \* calls user code may make
Signals    == config.signals    \* signals that may be sent to the tasks
ExitCodes  == config.codes      \* arguments of exit_group
MaxCalls   == config.maxCalls   \* bounds on the calls, besides exits and
MaxSignals == config.maxSignals \* sigreturns, and on the signals

Ids     == 1..MaxIds
Root    == CHOOSE t \in InitTasks : \A u \in InitTasks : t <= u
SIGTRAP == 5
SIGKILL == 9
SIGSTOP == 19
Forks   == {"fork", "vfork", "clone"}
Exits   == {"exit", "exit_group"}

(* Calls a signal can interrupt before they have had an effect. *)
Interruptible == {"read", "nanosleep", "restart_syscall"} \cup Forks

ASSUME KernelAssumption ==
  /\ Tids \subseteq Nat \ {0} /\ IsFiniteSet(Tids) /\ MaxIds \in Nat
  /\ DOMAIN Disposition \subseteq Nat \ {0}
  (* SIGSTOP, SIGTSTP, SIGTTIN and SIGTTOU, and SIGCONT. *)
  /\ \A s \in DOMAIN Disposition : Disposition[s] = "stop" => s \in 19..22
  /\ \A s \in DOMAIN Disposition : Disposition[s] = "cont" => s = 18
  /\ \A c \in Configs :
       /\ c.mode \in {"launch", "attach"}
       /\ c.follow \in BOOLEAN /\ c.seccomp \in BOOLEAN
       /\ c.seccomp => c.mode = "launch"
       /\ c.tasks \subseteq Tids /\ c.tasks # {}
       /\ c.mode = "launch" => \E t \in Tids : c.tasks = {t}
       /\ c.signals \subseteq DOMAIN Disposition
       /\ c.codes \subseteq 0..255 /\ "rt_sigreturn" \notin c.calls
       (* Every handler needs an rt_sigreturn and every task an exit. *)
       /\ c.maxCalls + c.maxSignals + Cardinality(Tids) <= MaxIds

NoCall == [id |-> 0, nr |-> "none"]
NoStop == [kind |-> "none", sig |-> 0, msg |-> 0, val |-> "none"]

(* st:  none | user | sys | spawned | ret | exec | stop | listen | zombie | gone *)
NoTask == [st |-> "none", tg |-> 0,
           how |-> "CONT",      \* how it was last resumed; "free": untraced
           call |-> NoCall,     \* the call it is in
           rst |-> NoCall,      \* the interrupted call, not yet decided upon
           again |-> NoCall,    \* the call to be entered again
           frames |-> << >>,    \* signal handlers entered, with what each
                                \* restarts on return
           sigs |-> {},         \* pending signals
           auto |-> FALSE,      \* the pending SIGSTOP is ptrace's own
           gst |-> 0,           \* pending group stop
           trap |-> FALSE,      \* pending PTRACE_EVENT_STOP trap
           stop |-> NoStop,     \* the current ptrace-stop
           seen |-> FALSE,      \* waitpid has reported it
           child |-> 0,         \* the child fork made
           execd |-> FALSE,     \* has executed a new program
           code |-> 0]          \* wait status once dead: exited with n, killed by -n

Alive(t)  == task[t].st \notin {"none", "zombie", "gone"}
Traced(t) == task[t].st \notin {"none", "gone"} /\ task[t].how # "free"
Leader(t) == task[t].tg = t
Others(t) == {u \in Tids \ {t} : task[u].tg = task[t].tg}

(* A signal is blocked while its handler runs. *)
Unblocked(t) == {s \in task[t].sigs :
                   \A i \in DOMAIN task[t].frames : task[t].frames[i].sig # s}

Deliverable(t) == Unblocked(t) # {} \/ task[t].trap \/ task[t].gst # 0

Halt(r, kind, sig, msg, val) ==
  [r EXCEPT !.st = "stop", !.seen = FALSE,
            !.stop = [kind |-> kind, sig |-> sig, msg |-> msg, val |-> val]]

Dead(r, code) == [NoTask EXCEPT !.st = "zombie", !.tg = r.tg, !.how = r.how,
                                !.execd = r.execd, !.code = code]

(* All tasks of group g die at once; a ptrace-stop does not protect one.   *)
KillGroup(g, code) ==
  [u \in Tids |-> IF Alive(u) /\ task[u].tg = g THEN Dead(task[u], code) ELSE task[u]]

KernelInit ==
  /\ config \in Configs
  /\ task = [t \in Tids |->
               IF t \notin InitTasks THEN NoTask
               ELSE LET r == [NoTask EXCEPT !.st = "user", !.tg = Root]
                    IN  IF Mode = "attach" THEN r
                        ELSE [Halt(r, "signal", SIGSTOP, 0, "auto") EXCEPT !.seen = TRUE]]
  /\ result = [i \in Ids |-> "none"]
  /\ made = << >> /\ nsigs = 0
  /\ jobstop = {} /\ faults = {}

-----------------------------------------------------------------------------
(* The seccomp program of prepare_seccomp_program. *)
Filtered(nr) == Seccomp /\ (nr \in Selected \/ nr = "rt_sigreturn")

InSyscall(r) == [r EXCEPT !.st = "sys", !.stop = NoStop]

Enter(r, c) ==
  LET e == [r EXCEPT !.call = c]
  IN  IF r.how = "SYSCALL" THEN Halt(e, "entry", 0, 0, "none")
      ELSE IF Filtered(c.nr) THEN Halt(e, "seccomp", 0, 0, "none")
      ELSE InSyscall(e)

(* The call ends: a syscall-exit-stop if the tracer asked for one. *)
Leave(r, val) ==
  LET e == [r EXCEPT !.st = "user"]
  IN  IF r.how = "SYSCALL" THEN Halt(e, "exit", 0, 0, val)
      ELSE [e EXCEPT !.call = NoCall]

(* A PTRACE_EVENT stop inside a fork or an exec, if the task is traced. *)
Event(r, kind, msg) == IF r.how = "free" THEN [r EXCEPT !.st = "ret"]
                       ELSE Halt(r, kind, SIGTRAP, msg, "none")

InUserMode(t) == task[t].st = "user" /\ ~Deliverable(t)

EnterSyscall(t, nr) ==
  /\ InUserMode(t) /\ task[t].rst = NoCall /\ task[t].again = NoCall
  /\ Len(made) < MaxIds
  /\ \/ nr \in Calls \ Exits /\ Len(made) < MaxCalls
     \/ nr \in Calls \cap Exits
     \/ nr = "rt_sigreturn" /\ task[t].frames # << >>
  /\ made' = Append(made, nr)
  /\ task' = [task EXCEPT ![t] = Enter(@, [id |-> Len(made'), nr |-> nr])]
  /\ UNCHANGED <<result, nsigs, jobstop, faults>>

(* With no signal left, an interrupted call is going to be entered again;  *)
(* a sleep goes through restart_syscall.                                   *)
DecideRestart(t) ==
  LET c == task[t].rst
  IN  /\ InUserMode(t) /\ c # NoCall
      /\ task' = [task EXCEPT ![t].rst = NoCall,
                   ![t].again = [c EXCEPT !.nr = IF @ = "nanosleep" THEN "restart_syscall" ELSE @]]
      /\ UNCHANGED <<result, made, nsigs, jobstop, faults>>

Restart(t) ==
  /\ InUserMode(t) /\ task[t].again # NoCall
  /\ task' = [task EXCEPT ![t] = Enter([@ EXCEPT !.again = NoCall], task[t].again)]
  /\ UNCHANGED <<result, made, nsigs, jobstop, faults>>

Return(t, val) ==
  LET c == task[t].call
  IN  /\ task[t].st = "sys"
      /\ c.nr \notin Exits \cup {"rt_sigreturn"}
      /\ val = "ok" => c.nr # "execve" /\ (c.nr \in Forks => ~Follow)
      /\ task' = [task EXCEPT ![t] = Leave(@, val)]
      /\ result' = [result EXCEPT ![c.id] = val]
      /\ UNCHANGED <<made, nsigs, jobstop, faults>>

Sigreturn(t) ==
  LET r == task[t]
  IN  /\ r.st = "sys" /\ r.call.nr = "rt_sigreturn"
      /\ task' = [task EXCEPT ![t] =
                    Leave([@ EXCEPT !.again = Head(r.frames).rst, !.frames = Tail(r.frames)], "ok")]
      /\ result' = [result EXCEPT ![r.call.id] = "ok"]
      /\ UNCHANGED <<made, nsigs, jobstop, faults>>

(* A signal, a group stop or a trap makes a waiting call return one of the *)
(* kernel's restart codes, which only the tracer can see.                  *)
Interrupted(t) ==
  /\ task[t].st = "sys" /\ task[t].call.nr \in Interruptible /\ Deliverable(t)
  /\ task' = [task EXCEPT ![t] = Leave([@ EXCEPT !.rst = task[t].call], "restart")]
  /\ UNCHANGED <<result, made, nsigs, jobstop, faults>>

-----------------------------------------------------------------------------
(* fork, vfork and clone with -f: the child is running before the parent   *)
(* reports it, and stops by itself first.                                  *)
Unborn == {t \in Tids : task[t].st = "none"}

Fork(t) ==
  LET nr == task[t].call.nr
      c  == CHOOSE u \in Unborn : \A v \in Unborn : u <= v
      newborn == [NoTask EXCEPT !.st = "user",
                    !.tg = IF nr = "clone" THEN task[t].tg ELSE c,
                    !.execd = task[t].execd /\ nr = "clone",
                    !.how = IF task[t].how = "free" THEN "free" ELSE "CONT",
                    !.sigs = IF Mode = "launch" THEN {SIGSTOP} ELSE {},
                    !.auto = Mode = "launch",
                    !.trap = Mode = "attach" /\ task[t].how # "free"]
  IN  /\ task[t].st = "sys" /\ nr \in Forks /\ Follow
      /\ ~Deliverable(t) /\ Unborn # {}
      /\ task' = [task EXCEPT ![t].st = "spawned", ![t].child = c, ![c] = newborn]
      /\ UNCHANGED <<result, made, nsigs, jobstop, faults>>

ForkEvent(t) ==
  /\ task[t].st = "spawned"
  /\ task' = [task EXCEPT ![t] = Event(@, "fork", task[t].child)]
  /\ UNCHANGED <<result, made, nsigs, jobstop, faults>>

(* The tail of a fork or an exec, after its event stop.  A vfork parent    *)
(* first waits for its child to exec or die.                               *)
Complete(t) ==
  LET r == task[t]
  IN  /\ r.st = "ret"
      /\ r.call.nr = "vfork" => ~Alive(r.child) \/ task[r.child].execd
      /\ task' = [task EXCEPT ![t] = Leave([@ EXCEPT !.child = 0], "ok")]
      /\ result' = [result EXCEPT ![r.call.id] = "ok"]
      /\ UNCHANGED <<made, nsigs, jobstop, faults>>

(* execve past the point of no return kills the other threads, waits until *)
(* all but the leader are reaped, and takes over the leader's tid, whose   *)
(* own death is never reported.                                            *)
ExecBegin(t) ==
  /\ task[t].st = "sys" /\ task[t].call.nr = "execve"
  /\ task' = [KillGroup(task[t].tg, 0) EXCEPT ![t] = [task[t] EXCEPT !.st = "exec"]]
  /\ UNCHANGED <<result, made, nsigs, jobstop, faults>>

ExecEvent(t) ==
  LET l == task[t].tg
      r == [task[t] EXCEPT !.execd = TRUE, !.frames = << >>, !.again = NoCall]
  IN  /\ task[t].st = "exec"
      /\ \A u \in Others(t) \ {l} : task[u].st = "gone"
      /\ task' = [u \in Tids |-> IF u = l THEN Event(r, "exec", t)
                                 ELSE IF u = t THEN [NoTask EXCEPT !.st = "gone", !.tg = l]
                                 ELSE task[u]]
      /\ result' = [result EXCEPT ![r.call.id] = "ok"]
      /\ UNCHANGED <<made, nsigs, jobstop, faults>>

ExitGroup(t, code) ==
  /\ task[t].st = "sys" /\ task[t].call.nr = "exit_group"
  /\ task' = KillGroup(task[t].tg, code)
  /\ UNCHANGED <<result, made, nsigs, jobstop, faults>>

ExitThread(t) ==
  /\ task[t].st = "sys" /\ task[t].call.nr = "exit"
  /\ task' = [task EXCEPT ![t] = Dead(@, 0)]
  /\ UNCHANGED <<result, made, nsigs, jobstop, faults>>

(* install_seccomp_program fails in the launched child: _exit(126). *)
SetupFails ==
  /\ Seccomp /\ InUserMode(Root) /\ made = << >>
  /\ task' = [task EXCEPT ![Root] = Dead(@, 126)]
  /\ UNCHANGED <<result, made, nsigs, jobstop, faults>>

-----------------------------------------------------------------------------
(* Signals. *)
Stopping(s) == Disposition[s] = "stop"

(* A listening task of a continued group reports a trap again. *)
Continue(r) == [r EXCEPT !.gst = 0,
                         !.sigs = {s \in @ : ~Stopping(s)},
                         !.st = IF @ = "listen" THEN "user" ELSE @,
                         !.trap = @ \/ (r.st = "listen" /\ r.how # "free")]

SendSignal(t, s) ==
  LET g == task[t].tg
      add(r) == [r EXCEPT !.sigs = @ \cup {s}]
      InGroup(u) == Alive(u) /\ task[u].tg = g
  IN  /\ Alive(t) /\ nsigs < MaxSignals /\ s \notin task[t].sigs
      /\ nsigs' = nsigs + 1
      /\ CASE s = SIGKILL -> /\ task' = KillGroup(g, -s)
                             /\ UNCHANGED jobstop
           [] s # SIGKILL /\ Disposition[s] = "cont" ->
                /\ task' = [[u \in Tids |-> IF InGroup(u) THEN Continue(task[u]) ELSE task[u]]
                              EXCEPT ![t] = add(@)]
                /\ jobstop' = jobstop \ {g}
           [] OTHER -> /\ task' = [task EXCEPT ![t] = add(@)]
                       /\ UNCHANGED jobstop
      /\ UNCHANGED <<result, made, faults>>

(* Signal s (0: none) is let through to task t, whose record is base and   *)
(* which goes on as h says.                                                *)
Deliver(t, base, s, h) ==
  LET r == [base EXCEPT !.st = "user", !.how = h, !.stop = NoStop, !.seen = FALSE]
      d == IF s \in DOMAIN Disposition THEN Disposition[s] ELSE "ignore"
      eintr == /\ r.rst # NoCall /\ r.rst.nr \notin Forks
               /\ d = "eintr" \/ r.rst.nr \in {"nanosleep", "restart_syscall"}
      back  == IF eintr THEN NoCall ELSE IF r.rst # NoCall THEN r.rst ELSE r.again
      handled == [r EXCEPT !.rst = NoCall, !.again = NoCall,
                           !.frames = <<[sig |-> s, rst |-> back]>> \o @]
  IN  CASE d \in {"ignore", "cont"} ->
             task' = [task EXCEPT ![t] = r] /\ UNCHANGED <<result, jobstop>>
        [] d = "fatal" ->
             task' = KillGroup(r.tg, -s) /\ UNCHANGED <<result, jobstop>>
        [] d = "stop" ->
             /\ task' = [u \in Tids |->
                           IF Alive(u) /\ task[u].tg = r.tg
                             THEN [IF u = t THEN r ELSE task[u] EXCEPT !.gst = s]
                             ELSE task[u]]
             /\ jobstop' = jobstop \cup {r.tg} /\ UNCHANGED result
        [] OTHER ->
             /\ task' = [task EXCEPT ![t] = handled]
             /\ result' = IF eintr THEN [result EXCEPT ![r.rst.id] = "eintr"] ELSE result
             /\ UNCHANGED jobstop

LowestSignal(t) == CHOOSE x \in Unblocked(t) : \A y \in Unblocked(t) : x <= y

(* On the way back to user mode: group stop, then trap, then the lowest    *)
(* pending signal.                                                         *)
GetSignal(t) ==
  LET r == task[t]
      s == LowestSignal(t)
      taken == [r EXCEPT !.sigs = @ \ {s}, !.auto = @ /\ s # SIGSTOP]
      own   == IF s = SIGSTOP /\ r.auto THEN "auto" ELSE "none"
      groupstop == IF Mode = "attach" THEN "event_stop" ELSE "group_stop"
  IN  /\ r.st = "user" /\ Deliverable(t) /\ r.how # "free"
      /\ task' = [task EXCEPT ![t] =
           IF r.gst # 0 THEN Halt([r EXCEPT !.gst = 0, !.trap = FALSE], groupstop, r.gst, 0, "none")
           ELSE IF r.trap THEN Halt([r EXCEPT !.trap = FALSE], "event_stop", SIGTRAP, 0, "none")
           ELSE Halt(taken, "signal", s, 0, own)]
      /\ UNCHANGED <<result, made, nsigs, jobstop, faults>>

(* The same for a task that is not traced any more. *)
GetSignalUntraced(t) ==
  LET r == task[t]
  IN  /\ r.st = "user" /\ r.how = "free" /\ (r.gst # 0 \/ Unblocked(t) # {})
      /\ IF r.gst # 0
           THEN task' = [task EXCEPT ![t].st = "listen", ![t].gst = 0]
                /\ UNCHANGED <<result, jobstop>>
           ELSE Deliver(t, [r EXCEPT !.sigs = @ \ {LowestSignal(t)}], LowestSignal(t), "free")
      /\ UNCHANGED <<made, nsigs, faults>>

-----------------------------------------------------------------------------
(* The ptrace requests and waitpid.  A request on a task that is not in a  *)
(* ptrace-stop fails with ESRCH.                                           *)
InStop(t) == task[t].st = "stop"

(* What a resumption with signal s does to signals: a genuine one must go  *)
(* on to the program, ptrace's own SIGSTOP must not.                       *)
SignalFaults(stop, s) ==
  IF stop.kind # "signal" THEN {}
  ELSE IF stop.val = "auto" THEN (IF s = 0 THEN {} ELSE {"injected"})
  ELSE (IF s = stop.sig THEN {} ELSE {"swallowed"})

(* PTRACE_SYSCALL, PTRACE_CONT (h) or, with h = "free", PTRACE_DETACH of a *)
(* stopped task whose record is r.                                         *)
GoOn(t, r, s, h) ==
  LET e == [r EXCEPT !.how = h, !.stop = NoStop, !.seen = FALSE]
      Becomes(x) == task' = [task EXCEPT ![t] = x] /\ UNCHANGED <<result, jobstop>>
  IN  /\ CASE r.stop.kind = "entry" ->
                 Becomes(IF Filtered(r.call.nr) /\ h # "free"
                           THEN Halt(e, "seccomp", 0, 0, "none") ELSE InSyscall(e))
            [] r.stop.kind = "seccomp" -> Becomes(InSyscall(e))
            [] r.stop.kind = "exit" -> Becomes([e EXCEPT !.st = "user", !.call = NoCall])
            [] r.stop.kind \in {"fork", "exec"} -> Becomes([e EXCEPT !.st = "ret"])
            [] r.stop.kind \in {"event_stop", "group_stop"} -> Becomes([e EXCEPT !.st = "user"])
            [] OTHER -> Deliver(t, r, s, h)
      /\ faults' = faults \cup SignalFaults(r.stop, s)
      /\ UNCHANGED <<made, nsigs>>

PtraceResume(t, s, h) == InStop(t) /\ GoOn(t, task[t], s, h)

(* A detached task of a stopped group stops again by itself. *)
PtraceDetach(t, s) ==
  /\ InStop(t)
  /\ GoOn(t, [task[t] EXCEPT !.trap = FALSE,
                             !.gst = IF task[t].tg \in jobstop THEN SIGSTOP ELSE @], s, "free")

(* PTRACE_LISTEN: keep the group stop, but let SIGCONT end it. *)
PtraceListen(t) ==
  /\ InStop(t) /\ task[t].stop.kind = "event_stop"
  /\ task' = [task EXCEPT ![t] = IF task[t].tg \in jobstop
                                   THEN [@ EXCEPT !.st = "listen", !.stop = NoStop, !.seen = FALSE]
                                   ELSE Halt(@, "event_stop", SIGTRAP, 0, "none")]
  /\ UNCHANGED <<result, made, nsigs, jobstop, faults>>

(* PTRACE_INTERRUPT of the tasks in T *)
Trapped(T) == [u \in Tids |-> IF u \in T /\ Alive(u)
                                THEN [task[u] EXCEPT !.trap = TRUE,
                                                     !.st = IF @ = "listen" THEN "user" ELSE @]
                                ELSE task[u]]

(* waitpid can report t: an unreported stop, or a death; a leader's death  *)
(* only when the rest of its group has been reaped.                        *)
Waitable(t) ==
  /\ Traced(t)
  /\ \/ InStop(t) /\ ~task[t].seen
     \/ /\ task[t].st = "zombie"
        /\ Leader(t) => \A u \in Others(t) : task[u].st = "gone"

HaveChildren == \E t \in Tids : Traced(t)

(* waitpid's effect on the task it reports. *)
Report(t) == [task EXCEPT ![t] = IF InStop(t) THEN [@ EXCEPT !.seen = TRUE]
                                 ELSE [@ EXCEPT !.st = "gone"]]

(* Steps of the tasks that happen by themselves ... *)
KernelStep(t) ==
  \/ DecideRestart(t) \/ Restart(t) \/ Sigreturn(t) \/ Interrupted(t)
  \/ Fork(t) \/ ForkEvent(t) \/ Complete(t) \/ ExecEvent(t)
  \/ GetSignal(t) \/ GetSignalUntraced(t)
  \/ \E code \in ExitCodes : ExitGroup(t, code)
  \/ ExitThread(t)

(* ... and those that depend on the program and on the outside. *)
ProgramStep(t) ==
  \/ \E nr \in Calls \cup {"rt_sigreturn"} : EnterSyscall(t, nr)
  \/ \E val \in {"ok", "err"} : Return(t, val)
  \/ ExecBegin(t)
  \/ \E s \in Signals : SendSignal(t, s)
=============================================================================
