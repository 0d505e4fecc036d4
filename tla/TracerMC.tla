------------------------------ MODULE TracerMC ------------------------------
(* Small worlds for Tracer. *)
EXTENDS Tracer

(* Signals by their Linux numbers: SIGUSR1 (10) and SIGUSR2 (12) have      *)
(* handlers, with and without SA_RESTART; SIGTERM (15) kills; SIGCHLD (17) *)
(* is ignored; SIGCONT (18), SIGSTOP (19) and SIGTSTP (20) control jobs.   *)
Dispositions ==
  [s \in {9, 10, 12, 15, 17, 18, 19, 20} |->
     CASE s = 10 -> "restart" [] s = 12 -> "eintr" [] s \in {9, 15} -> "fatal"
       [] s = 17 -> "ignore"  [] s = 18 -> "cont"  [] OTHER -> "stop"]

(* A command that reads once and exits, and a process to attach to. *)
Launch == [mode |-> "launch", follow |-> FALSE, seccomp |-> FALSE, format |-> "text",
           selected |-> {"read"}, tasks |-> {1}, calls |-> {"read", "exit_group"},
           signals |-> {}, codes |-> {0}, maxCalls |-> 1, maxSignals |-> 0,
           shutdowns |-> {}, writesFail |-> FALSE, memoryFails |-> FALSE]
AttachTo == [Launch EXCEPT !.mode = "attach"]

(* Calls that are interrupted and restarted, or not. *)
Restarting == [Launch EXCEPT !.selected = {"read", "execve", "exit_group"},
                 !.calls = {"read", "getpid", "execve", "exit_group"},
                 !.signals = {10, 17}, !.maxCalls = 3, !.maxSignals = 1]
Filtering  == [Restarting EXCEPT !.seccomp = TRUE, !.format = "ndjson", !.codes = {0, 126}]
Failing    == [Launch EXCEPT !.calls = {"read", "nanosleep", "exit_group"},
                 !.selected = {"read", "nanosleep", "restart_syscall", "exit_group"},
                 !.signals = {12, 17}, !.maxSignals = 1]
CallConfigs == {Restarting, Filtering, Failing}

(* Threads, forks and execs. *)
Threads == [Launch EXCEPT !.follow = TRUE, !.selected = {"read", "clone"}, !.codes = {0, 3},
              !.calls = {"read", "clone", "exit", "exit_group"}, !.maxCalls = 3]
Execs   == [Launch EXCEPT !.follow = TRUE, !.selected = {"read", "execve"}, !.codes = {3},
              !.calls = {"read", "clone", "execve", "exit_group"}, !.maxCalls = 3]
Forking == [Launch EXCEPT !.follow = TRUE, !.selected = {"fork", "vfork", "execve"},
              !.codes = {0, 3}, !.maxCalls = 2,
              !.calls = {"fork", "vfork", "execve", "exit_group"}]
Seized  == [AttachTo EXCEPT !.tasks = {1, 2}, !.calls = {"read", "exit"}, !.maxCalls = 3]
TaskConfigs == {Threads, Execs, Forking, Seized}

(* Signals of every kind to a command, and job control of two threads. *)
Signalled == [Launch EXCEPT !.signals = {10, 12, 15, 17, 18, 20}, !.maxSignals = 2]
Jobs      == [AttachTo EXCEPT !.tasks = {1, 2}, !.calls = {"read", "exit"},
                !.signals = {10, 18, 20}, !.maxSignals = 2]
Overtaken == [AttachTo EXCEPT !.tasks = {1, 2}, !.calls = {"execve", "exit"},
                !.signals = {20}, !.maxSignals = 1]
SignalConfigs == {Signalled, Jobs, Overtaken}

LoopConfigs == CallConfigs \cup TaskConfigs \cup SignalConfigs

(* SIGINT to the tracer at any moment. *)
Detaching == [AttachTo EXCEPT !.follow = TRUE, !.calls = {"read", "fork", "exit_group"},
                !.signals = {10, 18, 20}, !.maxSignals = 1,
                !.shutdowns = {2}, !.writesFail = TRUE, !.memoryFails = TRUE]
Killing   == [Launch EXCEPT !.follow = TRUE, !.calls = {"read", "clone", "execve", "exit_group"},
                !.selected = {"read", "execve"}, !.maxCalls = 2, !.shutdowns = {2},
                !.writesFail = TRUE, !.memoryFails = TRUE]
Killing1  == [Launch EXCEPT !.signals = {10, 18, 20}, !.maxSignals = 2,
                !.shutdowns = {2}, !.writesFail = TRUE, !.memoryFails = TRUE]
ShutdownConfigs == {Detaching, Killing, Killing1}

(* Worlds in which promises of the documentation are not kept. *)
TwoHandlers == {[Launch EXCEPT !.signals = {10}, !.maxCalls = 2, !.maxSignals = 2]}
QuickChild  == {[Launch EXCEPT !.follow = TRUE, !.selected = {"fork"},
                   !.calls = {"fork", "exit_group"}]}
Quiet       == {[Launch EXCEPT !.shutdowns = {2}]}
=============================================================================
