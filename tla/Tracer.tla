------------------------------- MODULE Tracer -------------------------------
(***************************************************************************)
(* sysgaze's tracing loop (src/src/trace.c) with the part of the output    *)
(* writer that pairs unfinished and resumed lines (src/src/output.c), over *)
(* the tasks of PtraceKernel.                                              *)
(*                                                                         *)
(* One turn of trace_loop is three steps: waitpid, the handler of what it  *)
(* reported, and the resumption; tasks run, die and receive signals in     *)
(* between.  The shutdown signal may arrive between any two steps.         *)
(***************************************************************************)
EXTENDS PtraceKernel

Format          == config.format     \* "text", "ndjson" or "summary" (-c)
ShutdownSignals == config.shutdowns  \* SIGINT and SIGTERM the tracer may get
WritesFail      == config.writesFail \* whether writing the output may fail
MemoryFails     == config.memoryFails \* whether a record may not be allocated

ASSUME TracerAssumption ==
  \A c \in Configs : /\ c.format \in {"text", "ndjson", "summary"}
                      /\ c.shutdowns \subseteq {2, 15}
                      /\ c.writesFail \in BOOLEAN /\ c.memoryFails \in BOOLEAN

VARIABLES tracees,   \* context->tracees, by tid
          out,       \* what has been written, and output->unfinished_tids
          pc,        \* where sg_trace_run is
          cur,       \* what waitpid reported, and what to do about it
          root,      \* root_tid, root_status (-1: unknown), root_exec_observed
          shutdown,  \* shutdown_signal
          end,       \* success and *command_status
          todo,      \* tracees detach_all_tracees has not reached
          heap       \* the allocated arrays of captured argument strings

tracer == <<tracees, out, pc, cur, root, shutdown, end, todo, heap>>
vars   == <<config, kernel, tracer>>

(* struct sg_tracee; pend and intr are pending_syscall and                 *)
(* interrupted_syscall, NoCall when their has_ flag is false, and pendArgs *)
(* and intrArgs are their decoded_arguments, 0 for NULL.                   *)
Fresh(newborn) == [known |-> TRUE, newborn |-> newborn, inStop |-> FALSE, sig |-> 0,
                   pend |-> NoCall, pendArgs |-> 0, intr |-> NoCall, intrArgs |-> 0,
                   ready |-> FALSE]
Absent == [Fresh(FALSE) EXCEPT !.known = FALSE]
Known  == {t \in Tids : tracees[t].known}

NoEvent == [tid |-> 0, stop |-> NoStop, deliver |-> 0, listen |-> FALSE]

Init ==
  /\ KernelInit
  /\ tracees = [t \in Tids |->
                  IF t \notin InitTasks THEN Absent
                  ELSE IF Mode = "attach" THEN Fresh(TRUE)
                  ELSE [Fresh(FALSE) EXCEPT !.inStop = TRUE]]
  /\ out = [unfinished |-> {}, shown |-> {}, resumed |-> {},
            report |-> [i \in Ids |-> "none"]]
  /\ pc = IF Mode = "attach" THEN "interrupt" ELSE "start"
  /\ cur = NoEvent
  /\ root = [tid |-> Root, status |-> -1, exec |-> FALSE]
  /\ shutdown = 0
  /\ end = [ok |-> TRUE, status |-> 0]
  /\ todo = IF Mode = "attach" THEN InitTasks ELSE {}
  /\ heap = {}

-----------------------------------------------------------------------------
(* Output *)

IsSelected(c) == c # NoCall /\ c.nr \in Selected

(* The call flush_unfinished_syscalls would print for a tracee. *)
Running(r) == IF r.pend # NoCall THEN r.pend ELSE r.intr

(* A call that has not finished gets a line once, until its tid prints a   *)
(* completed call; except -1 (here 0) spares no one.                       *)
flush_unfinished_syscalls(o, tr, except) ==
  LET F == {t \in Tids \ {except} : tr[t].known /\ IsSelected(Running(tr[t]))}
  IN  IF Format # "text" THEN o
      ELSE [o EXCEPT !.shown = @ \cup {Running(tr[t]) : t \in F \ o.unfinished},
                     !.unfinished = @ \cup F]

(* A bug: a tid that has resumed once stays in unfinished_tids. *)
unfinished_kept(o, t) == o

unfinished_remove(o, t) == [o EXCEPT !.unfinished = @ \ {t}]

(* t's completed call c; a tid in unfinished_tids prints                   *)
(* "<... name resumed>" and leaves it.                                     *)
write_text_syscall(o, t, c, res) ==
  unfinished_remove([o EXCEPT !.resumed = IF t \in o.unfinished THEN @ \cup {c} ELSE @,
                              !.report[c.id] = res], t)

write_syscall(o, tr, t, c, res) ==
  IF IsSelected(c)
    THEN write_text_syscall(flush_unfinished_syscalls(o, tr, t), t, c, res) ELSE o

(* The lines of signals, children and exits matter for what they flush. *)
write_signal(o, tr)        == flush_unfinished_syscalls(o, tr, 0)
write_process_start(o, tr) == flush_unfinished_syscalls(o, tr, 0)
write_exit(o, tr, t)       == unfinished_remove(flush_unfinished_syscalls(o, tr, 0), t)

migrate_tid(o, former, current) ==
  IF former \in o.unfinished
    THEN [o EXCEPT !.unfinished = (@ \ {former}) \cup {current}] ELSE o

-----------------------------------------------------------------------------
(* Starting *)

(* A bug: with --seccomp-bpf a task is never made to stop when a call ends. *)
AlwaysCont(r) == IF Seccomp THEN "CONT" ELSE "SYSCALL"

ResumeRequest(r) == IF Seccomp /\ r.pend = NoCall THEN "CONT" ELSE "SYSCALL"

StartLaunch ==
  /\ pc = "start"
  /\ IF InStop(Root)
       THEN /\ PtraceResume(Root, 0, ResumeRequest(tracees[Root]))
            /\ tracees' = [tracees EXCEPT ![Root].inStop = FALSE]
            /\ pc' = "wait" /\ UNCHANGED end
       ELSE /\ end' = [end EXCEPT !.ok = FALSE]
            /\ pc' = "finish" /\ UNCHANGED <<kernel, tracees>>
  /\ UNCHANGED <<out, cur, root, shutdown, todo, heap>>

(* The PTRACE_INTERRUPT loop that ends prepare_attach. *)
InterruptOne(t) ==
  /\ pc = "interrupt" /\ t \in todo
  /\ task' = Trapped({t})
  /\ todo' = todo \ {t}
  /\ pc' = IF todo' = {} THEN "wait" ELSE pc
  /\ UNCHANGED <<result, made, nsigs, jobstop, faults>>
  /\ UNCHANGED <<tracees, out, cur, root, shutdown, end, heap>>

-----------------------------------------------------------------------------
(* trace_loop: waiting *)

Finish(ok, status) == end' = [ok |-> ok, status |-> status] /\ pc' = "finish"

LoopEnds ==
  /\ pc = "wait" /\ Known = {}
  /\ Finish(TRUE, IF Mode = "attach" \/ root.status < 0 THEN 0 ELSE root.status)
  /\ UNCHANGED <<kernel, tracees, out, cur, root, shutdown, todo, heap>>

Wait(t) ==
  /\ pc \in {"wait", "blocked"} /\ Known # {} /\ Waitable(t)
  /\ cur' = [NoEvent EXCEPT !.tid = t,
               !.stop = IF InStop(t) THEN task[t].stop
                        ELSE [NoStop EXCEPT !.kind = "exited", !.msg = task[t].code]]
  /\ task' = Report(t)
  /\ pc' = "handle"
  /\ UNCHANGED <<result, made, nsigs, jobstop, faults>>
  /\ UNCHANGED <<tracees, out, root, shutdown, end, todo, heap>>

Block ==
  /\ pc = "wait" /\ Known # {} /\ HaveChildren
  /\ \A t \in Tids : ~Waitable(t)
  /\ pc' = "blocked"
  /\ UNCHANGED <<kernel, tracees, out, cur, root, shutdown, end, todo, heap>>

(* waitpid fails with ECHILD. *)
WaitFails ==
  /\ pc = "wait" /\ Known # {} /\ ~HaveChildren
  /\ Finish(FALSE, end.status)
  /\ UNCHANGED <<kernel, tracees, out, cur, root, shutdown, todo, heap>>

(* shutdown_handler; it interrupts waitpid only where waitpid sleeps. *)
ShutdownArrives(s) ==
  /\ shutdown = 0 /\ pc \notin {"interrupt", "done"}
  /\ shutdown' = s
  /\ IF pc = "blocked" THEN Finish(TRUE, 128 + s) ELSE UNCHANGED <<end, pc>>
  /\ UNCHANGED <<kernel, tracees, out, cur, root, todo, heap>>

-----------------------------------------------------------------------------
(* trace_loop: handlers of what waitpid reported about cur.tid *)

Handling(kinds) == pc = "handle" /\ cur.stop.kind \in kinds

(* The stop a ptrace request finds: if another thread's exec took over the *)
(* tid in the meantime it is not the one waitpid reported.                 *)
Now == task[cur.tid].stop

(* The record the loop goes on with; an unknown task that stops is added   *)
(* under -f.                                                               *)
Tracee == IF tracees[cur.tid].known THEN tracees[cur.tid] ELSE Fresh(TRUE)
(* A bug: a child that stops before its parent reports it is dropped. *)
OnlyIfKnown == tracees[cur.tid].known

IsTracked == tracees[cur.tid].known \/ Follow

(* The strings a record owns, and freeing them (release_tracee).           *)
Strings(r)         == {r.pendArgs, r.intrArgs} \ {0}
release_tracee(r)  == heap' = heap \ Strings(r)

(* sg_decoder_capture_entry: every capture allocates strings of its own,   *)
(* those of the same call entered again included.                          *)
NewString   == CHOOSE n \in 1..Cardinality(heap) + 1 : n \notin heap
Captures(c) == IsSelected(c) /\ Format # "summary"
captured(c) == IF Captures(c) THEN NewString ELSE 0

ToResume(tr, r, o, deliver, listen) ==
  /\ tracees' = [tr EXCEPT ![cur.tid] = [r EXCEPT !.inStop = TRUE]]
  /\ out' = o
  /\ cur' = [cur EXCEPT !.deliver = deliver, !.listen = listen]
  /\ pc' = "resume"
  /\ UNCHANGED <<kernel, shutdown, end, todo>>

(* A handler that returns false leaves the tracee in its stop, and nothing *)
(* uses the output any more, however much of it has been written.          *)
Fails(tr, r) ==
  /\ tracees' = [tr EXCEPT ![cur.tid] = [r EXCEPT !.inStop = TRUE]]
  /\ Finish(FALSE, end.status)
  /\ UNCHANGED <<kernel, out, cur, shutdown, todo>>

(* A call that has ended, or that is given up, leaves its record.          *)
Ended(r)   == [r EXCEPT !.pend = NoCall, !.pendArgs = 0]
Dropped(r) == [r EXCEPT !.intr = NoCall, !.intrArgs = 0, !.ready = FALSE]

(* begin_syscall: what becomes of the tracee and of the output when call c *)
(* is entered.                                                             *)
CompletesExec(r) == r.pend.nr = "execve"
Restarts(r, c)   == r.intr # NoCall /\ r.ready /\ c.nr \in {r.intr.nr, "restart_syscall"}

(* A bug: the first entry after an interruption decides, handler or not. *)
GivenUpAtOnce(r, c) == r.intr # NoCall /\ ~Restarts(r, c)

GivenUp(r, c)    == r.intr # NoCall /\ r.ready /\ ~Restarts(r, c)

(* The record when an execve's end and a call given up have been dealt with.*)
WithoutExec(r)  == IF CompletesExec(r) THEN Ended(r) ELSE r
Settled(r, c)   == IF GivenUp(r, c) THEN Dropped(WithoutExec(r)) ELSE WithoutExec(r)

begin_tracee(r, c) ==
  IF Restarts(r, c) THEN [Dropped(r) EXCEPT !.pend = r.intr, !.pendArgs = r.intrArgs]
  ELSE [Settled(r, c) EXCEPT !.pend = c, !.pendArgs = captured(c)]

settled_output(o, r, c) ==
  LET t  == cur.tid
      o1 == IF CompletesExec(r) THEN write_syscall(o, tracees, t, r.pend, "ok") ELSE o
  IN  IF GivenUp(r, c) THEN write_syscall(o1, tracees, t, r.intr, "eintr") ELSE o1

begin_output(o, r, c) ==
  LET o2 == settled_output(o, r, c)
  IN  IF Restarts(r, c) \/ IsSelected(c)
        THEN flush_unfinished_syscalls(o2, tracees, cur.tid) ELSE o2

(* The strings freed by then, and the ones captured.                       *)
ExecFreed(r)     == IF CompletesExec(r) THEN {r.pendArgs} ELSE {}
Freed(r, c)      == ExecFreed(r) \cup (IF GivenUp(r, c) THEN {r.intrArgs} ELSE {})
begin_heap(r, c) ==
  (heap \ Freed(r, c))
  \cup (IF Captures(c) /\ ~Restarts(r, c) THEN {captured(c)} ELSE {})

(* Where begin_syscall may fail: writing the execve's end, writing the call*)
(* given up, and capturing the new one or flushing the others; what is left*)
(* of the record then, and what has been freed.                            *)
Fallible == WritesFail /\ Format # "summary"
begin_stages(r, c) ==
  {[left |-> r, freed |-> {},
    fails |-> Fallible /\ CompletesExec(r) /\ IsSelected(r.pend)],
   [left |-> WithoutExec(r), freed |-> ExecFreed(r),
    fails |-> Fallible /\ GivenUp(r, c) /\ IsSelected(r.intr)],
   [left |-> Settled(r, c), freed |-> Freed(r, c),
    fails |-> \/ MemoryFails /\ Captures(c) /\ ~Restarts(r, c)
              \/ Fallible /\ begin_output(out, r, c) # settled_output(out, r, c)]}

Entered == task[cur.tid].call
AtEntry == /\ Handling({"entry", "exit", "seccomp"}) /\ IsTracked /\ InStop(cur.tid)
           /\ Now.kind = IF cur.stop.kind = "seccomp" THEN "seccomp" ELSE "entry"
MayEnter(r) == r.pend = NoCall \/ CompletesExec(r)

SyscallEntry ==
  LET r == Tracee
  IN  /\ AtEntry /\ MayEnter(r)
      /\ ToResume(tracees, begin_tracee(r, Entered), begin_output(out, r, Entered), 0, FALSE)
      /\ heap' = begin_heap(r, Entered)
      /\ UNCHANGED root

EntryFails ==
  LET r == Tracee
  IN  /\ AtEntry
      /\ IF MayEnter(r)
           THEN \E s \in begin_stages(r, Entered) :
                  s.fails /\ Fails(tracees, s.left) /\ heap' = heap \ s.freed
           ELSE Fails(tracees, r) /\ UNCHANGED heap
      /\ UNCHANGED root

(* A bug: the kernel's restart codes are taken for results. *)
NoRestartResult(val) == FALSE

is_restart_result(val) == val = "restart"

(* finish_syscall *)
finish_tracee(r, val) ==
  IF r.pend = NoCall THEN r
  ELSE IF is_restart_result(val)
    THEN [Ended(r) EXCEPT !.intr = r.pend, !.intrArgs = r.pendArgs, !.ready = FALSE]
  ELSE IF r.intr # NoCall /\ r.pend.nr = "rt_sigreturn"
    THEN [Ended(r) EXCEPT !.ready = TRUE]
  ELSE IF r.intr # NoCall /\ ~r.ready /\ r.pend.nr = r.intr.nr
    THEN Dropped(Ended(r))
  ELSE Ended(r)

(* A bug: the call interrupted before this one is overwritten. *)
FinishFreeingOne(r, val) ==
  heap \ IF r.pend = NoCall \/ is_restart_result(val) THEN {} ELSE {r.pendArgs}

finish_heap(r, val) ==
  heap \ IF r.pend = NoCall THEN {}
         ELSE IF is_restart_result(val) THEN IF r.intr # NoCall THEN {r.intrArgs} ELSE {}
         ELSE IF finish_tracee(r, val).intr # r.intr THEN {r.pendArgs, r.intrArgs}
         ELSE {r.pendArgs}

finish_output(r, val) ==
  IF r.pend = NoCall \/ is_restart_result(val) THEN out
  ELSE write_syscall(out, tracees, cur.tid, r.pend, val)

AtExit == Handling({"entry", "exit"}) /\ IsTracked /\ InStop(cur.tid) /\ Now.kind = "exit"

SyscallExit ==
  /\ AtExit
  /\ ToResume(tracees, finish_tracee(Tracee, Now.val), finish_output(Tracee, Now.val), 0, FALSE)
  /\ heap' = finish_heap(Tracee, Now.val)
  /\ UNCHANGED root

(* A bug: a group-stopped task is set going again. *)
NeverListen == FALSE

Listen == Mode = "attach"

(* PTRACE_EVENT_STOP: an interrupt or a new child (SIGTRAP), else a group  *)
(* stop of a seized task.                                                  *)
EventStop ==
  /\ Handling({"event_stop"}) /\ IsTracked
  /\ ToResume(tracees, [Tracee EXCEPT !.newborn = FALSE], out, 0,
              cur.stop.sig # SIGTRAP /\ Listen)
  /\ UNCHANGED <<root, heap>>

(* A bug: the record of a child that stopped first is replaced. *)
add_tracee_anew(tr, t) == [tr EXCEPT ![t] = Fresh(TRUE)]

add_tracee(tr, t) == [tr EXCEPT ![t] = IF @.known THEN @ ELSE Fresh(TRUE)]

(* handle_ptrace_event for fork, vfork and clone *)
ForkStop ==
  LET tr == add_tracee(tracees, Now.msg)
  IN  /\ Handling({"fork"}) /\ IsTracked /\ InStop(cur.tid)
      /\ ToResume(tr, Tracee, write_process_start(out, tr), 0, FALSE)
      /\ UNCHANGED <<root, heap>>

(* migrate_exec_tid *)
Migrated(former, waited) ==
  LET s == tracees[former]
      w == tracees[waited]
      r == IF s.known THEN s ELSE IF w.known THEN w ELSE Fresh(FALSE)
  IN  IF former = waited THEN tracees
      ELSE [tracees EXCEPT ![former] = Absent, ![waited] = [r EXCEPT !.newborn = FALSE]]

(* The strings of the record it replaces. *)
Replaced(former, waited) ==
  IF former # waited /\ tracees[former].known THEN Strings(tracees[waited]) ELSE {}

(* A bug: root_exec_observed is set for followed children only. *)
ExecOfOthers(tid, t) == t # tid

ExecOfRoot(tid, t) == t = tid

(* The exec is over, and the record that goes on. *)
AtExec == /\ Handling({"exec"}) /\ InStop(cur.tid)
          /\ Migrated(cur.stop.msg, cur.tid)[cur.tid].known \/ Follow
ExecTracee(r) == IF r.known THEN r ELSE Fresh(TRUE)

RootAfterExec ==
  LET former == cur.stop.msg
      rootTid == IF tracees[former].known /\ root.tid = former THEN cur.tid ELSE root.tid
  IN  [root EXCEPT !.tid = rootTid, !.exec = @ \/ ExecOfRoot(rootTid, cur.tid)]

ExecStop ==
  LET t  == cur.tid
      former == cur.stop.msg
      tr == Migrated(former, t)
      o  == migrate_tid(out, former, t)
      r  == ExecTracee(tr[t])
  IN  /\ AtExec
      /\ root' = RootAfterExec
      /\ ToResume(tr, [Ended(r) EXCEPT !.newborn = FALSE],
                  IF r.pend = NoCall THEN o ELSE write_syscall(o, tr, t, r.pend, "ok"),
                  0, FALSE)
      /\ heap' = (heap \ Replaced(former, t)) \ IF r.pend # NoCall THEN {r.pendArgs} ELSE {}

(* A bug: every stopping signal is taken for ptrace's own. *)
OwnStopAlways(r) == Stopping(cur.stop.sig)

(* A signal-delivery-stop, or in launch mode a group stop, for which       *)
(* PTRACE_GETSIGINFO fails with EINVAL.  The first SIGSTOP of a new tracee *)
(* is taken for ptrace's own.                                              *)
OwnStop(r) == r.newborn /\ cur.stop.sig = SIGSTOP

NewbornStop ==
  /\ Handling({"signal", "group_stop"}) /\ IsTracked /\ OwnStop(Tracee)
  /\ ToResume(tracees, [Tracee EXCEPT !.newborn = FALSE], out, 0, FALSE)
  /\ UNCHANGED <<root, heap>>

delivery_signal == cur.stop.sig

SignalStop ==
  /\ Handling({"signal"}) /\ IsTracked /\ ~OwnStop(Tracee) /\ InStop(cur.tid)
  /\ ToResume(tracees, [Tracee EXCEPT !.newborn = FALSE, !.sig = cur.stop.sig],
              write_signal(out, tracees), delivery_signal, FALSE)
  /\ UNCHANGED <<root, heap>>

GroupStop ==
  /\ Handling({"group_stop"}) /\ IsTracked /\ ~OwnStop(Tracee) /\ InStop(cur.tid)
  /\ ToResume(tracees, Tracee, out, 0, Listen)
  /\ UNCHANGED <<root, heap>>

(* A bug: the first task to die decides. *)
RecordFirst(rt, t, code) ==
  IF rt.status < 0 THEN [rt EXCEPT !.status = IF code >= 0 THEN code ELSE 128 - code] ELSE rt

record_exit_status(rt, t, code) ==
  IF t = rt.tid THEN [rt EXCEPT !.status = IF code >= 0 THEN code ELSE 128 - code] ELSE rt

(* WIFEXITED or WIFSIGNALED *)
Exited ==
  LET t == cur.tid
      code == cur.stop.msg
  IN  /\ Handling({"exited"}) /\ tracees[t].known
      /\ IF Seccomp /\ t = root.tid /\ ~root.exec /\ code = 126
           THEN Finish(FALSE, end.status) /\ UNCHANGED <<tracees, out, root, heap>>
           ELSE /\ out' = write_exit(out, tracees, t)
                /\ root' = record_exit_status(root, t, code)
                /\ tracees' = [tracees EXCEPT ![t] = Absent]
                /\ release_tracee(tracees[t])
                /\ pc' = "wait" /\ UNCHANGED end
      /\ UNCHANGED <<kernel, cur, shutdown, todo>>

(* An event of a task that is not followed is dropped. *)
Untracked ==
  /\ pc = "handle" /\ cur.stop.kind # "exec"
  /\ IF cur.stop.kind = "exited" THEN ~tracees[cur.tid].known ELSE ~IsTracked
  /\ pc' = "wait"
  /\ UNCHANGED <<kernel, tracees, out, cur, root, shutdown, end, todo, heap>>

(* The task died after waitpid reported its stop: PTRACE_GET_SYSCALL_INFO, *)
(* GETEVENTMSG and GETSIGINFO fail, and with them the tracer; so does it   *)
(* when PTRACE_GET_SYSCALL_INFO does not find a syscall stop.              *)
RequestFails ==
  /\ Handling({"entry", "seccomp", "exit", "fork", "exec", "signal", "group_stop"})
  /\ cur.stop.kind = "exec" \/ IsTracked
  /\ cur.stop.kind \in {"signal", "group_stop"} => ~OwnStop(Tracee)
  /\ \/ ~InStop(cur.tid)
     \/ cur.stop.kind \in {"entry", "exit"} /\ Now.kind \notin {"entry", "exit"}
     \/ cur.stop.kind = "seccomp" /\ Now.kind # "seccomp"
  /\ tracees' = IF cur.stop.kind = "exec" THEN tracees
                ELSE [tracees EXCEPT ![cur.tid] = [Tracee EXCEPT !.inStop = TRUE]]
  /\ Finish(FALSE, end.status)
  /\ UNCHANGED <<kernel, out, cur, root, shutdown, todo, heap>>

(* The output cannot be written: the line of a completed call, of a child, *)
(* of an execve or of a signal; the handler returns false with what it has *)
(* done to the records so far.                                             *)
WriteFails ==
  /\ Fallible
  /\ \/ /\ AtExit /\ finish_output(Tracee, Now.val) # out
        /\ Fails(tracees, Tracee) /\ UNCHANGED <<root, heap>>
     \/ /\ Handling({"fork"}) /\ IsTracked /\ InStop(cur.tid)
        /\ Fails(add_tracee(tracees, Now.msg), Tracee) /\ UNCHANGED <<root, heap>>
     \/ LET tr == Migrated(cur.stop.msg, cur.tid)
            r  == ExecTracee(tr[cur.tid])
        IN  /\ AtExec /\ IsSelected(r.pend)
            /\ Fails(tr, r) /\ root' = RootAfterExec
            /\ heap' = heap \ Replaced(cur.stop.msg, cur.tid)
     \/ /\ Handling({"signal"}) /\ IsTracked /\ ~OwnStop(Tracee) /\ InStop(cur.tid)
        /\ Fails(tracees, [Tracee EXCEPT !.newborn = FALSE, !.sig = cur.stop.sig])
        /\ UNCHANGED <<root, heap>>

(* Nor can that of an exit: SG_TRACEE_GONE marks the tracee as reaped, and *)
(* detach_all_tracees passes it over, as it does a task not in a stop.     *)
ExitWriteFails ==
  /\ Fallible /\ Handling({"exited"}) /\ tracees[cur.tid].known
  /\ tracees' = [tracees EXCEPT ![cur.tid].inStop = FALSE]
  /\ Finish(FALSE, end.status)
  /\ UNCHANGED <<kernel, out, cur, root, shutdown, todo, heap>>

(* kill(2) takes down the whole process of each tid. *)
Killed(T) ==
  LET G == {task[t].tg : t \in {u \in T : task[u].st # "gone"}}
  IN  [u \in Tids |-> IF Alive(u) /\ task[u].tg \in G THEN Dead(task[u], -SIGKILL)
                      ELSE task[u]]

(* add_tracee fails: for a task that stops before its parent's event, for  *)
(* the child of a fork event, which is let go or killed, or where an exec  *)
(* has moved a record.                                                     *)
NoMemory ==
  /\ MemoryFails /\ Finish(FALSE, end.status)
  /\ \/ /\ pc = "handle" /\ cur.stop.kind \notin {"exited", "exec"}
        /\ Follow /\ ~tracees[cur.tid].known
        /\ UNCHANGED <<kernel, tracees, heap>>
     \/ /\ Handling({"fork"}) /\ IsTracked /\ InStop(cur.tid) /\ ~tracees[Now.msg].known
        /\ tracees' = [tracees EXCEPT ![cur.tid] = [Tracee EXCEPT !.inStop = TRUE]]
        /\ IF Mode = "launch"
             THEN task' = Killed({Now.msg}) /\ UNCHANGED <<result, made, nsigs, jobstop, faults>>
             ELSE IF InStop(Now.msg) THEN PtraceDetach(Now.msg, 0) ELSE UNCHANGED kernel
        /\ UNCHANGED heap
     \/ /\ Handling({"exec"}) /\ InStop(cur.tid) /\ cur.stop.msg # cur.tid
        /\ tracees' = [tracees EXCEPT ![cur.stop.msg] = Absent, ![cur.tid] = Absent]
        /\ heap' = heap \ (Strings(tracees[cur.stop.msg]) \cup Strings(tracees[cur.tid]))
        /\ UNCHANGED kernel
  /\ UNCHANGED <<out, cur, root, shutdown, todo>>

-----------------------------------------------------------------------------
(* trace_loop: resume_tracee or listen_tracee, and the shutdown check      *)
Resume ==
  LET t == cur.tid
  IN  /\ pc = "resume" /\ InStop(t)
      /\ IF cur.listen THEN PtraceListen(t)
           ELSE PtraceResume(t, cur.deliver, ResumeRequest(tracees[t]))
      /\ tracees' = [tracees EXCEPT ![t].inStop = FALSE, ![t].sig = 0]
      /\ IF shutdown # 0 THEN Finish(TRUE, 128 + shutdown)
           ELSE pc' = "wait" /\ UNCHANGED end
      /\ UNCHANGED <<out, cur, root, shutdown, todo, heap>>

(* ESRCH: the task died in its stop; its exit is still to come. *)
ResumeTooLate ==
  /\ pc = "resume" /\ ~InStop(cur.tid)
  /\ pc' = "wait"
  /\ UNCHANGED <<kernel, tracees, out, cur, root, shutdown, end, todo, heap>>

(* PTRACE_LISTEN fails with EIO: another thread's exec took over the tid,  *)
(* and the stop it is in now is no group stop.                             *)
ListenFails ==
  /\ pc = "resume" /\ InStop(cur.tid) /\ cur.listen /\ Now.kind # "event_stop"
  /\ Finish(FALSE, end.status)
  /\ UNCHANGED <<kernel, tracees, out, cur, root, shutdown, todo, heap>>

-----------------------------------------------------------------------------
(* sg_trace_run after the loop *)
(* A bug: only the root's record is released. *)
ReleaseRoot == heap' = heap \ Strings(tracees[root.tid])

release_all_tracees == heap' = heap \ UNION {Strings(tracees[t]) : t \in Known}

Done == pc' = "done" /\ release_all_tracees

CleanUp ==
  /\ pc = "finish"
  /\ IF shutdown = 0 /\ end.ok THEN Done
     ELSE pc' = (IF Mode = "attach" THEN "detach" ELSE "kill") /\ UNCHANGED heap
  /\ UNCHANGED <<kernel, tracees, out, cur, root, shutdown, end, todo>>

ToKill == Known \cup {root.tid}

(* kill_all_tracees *)
KillAll ==
  /\ pc = "kill"
  /\ task' = Killed(ToKill)
  /\ pc' = "reap"
  /\ UNCHANGED <<result, made, nsigs, jobstop, faults>>
  /\ UNCHANGED <<tracees, out, cur, root, shutdown, end, todo, heap>>

Reap(t) ==
  /\ pc = "reap" /\ Waitable(t)
  /\ task' = Report(t)
  /\ UNCHANGED <<result, made, nsigs, jobstop, faults, tracer>>

AllReaped ==
  /\ pc = "reap" /\ ~HaveChildren /\ Done
  /\ UNCHANGED <<kernel, tracees, out, cur, root, shutdown, end, todo>>

(* Bugs: the running tracees are not interrupted; the stopped ones are     *)
(* left as they are.                                                       *)
InterruptNone   == {}
DetachOnly(T)   == T

ToInterrupt == {t \in Known : ~tracees[t].inStop}
ToDetach(T) == Known \ {t \in T : task[t].st \in {"none", "gone"}}

(* detach_all_tracees: interrupt_running_tracees, where a reaped task      *)
(* answers ESRCH, then one tracee after the other.                         *)
InterruptRunning ==
  /\ pc = "detach"
  /\ task' = Trapped(ToInterrupt)
  /\ todo' = ToDetach(ToInterrupt)
  /\ pc' = "detaching"
  /\ UNCHANGED <<result, made, nsigs, jobstop, faults>>
  /\ UNCHANGED <<tracees, out, cur, root, shutdown, end, heap>>

(* A bug: whatever the task was stopped with is dropped. *)
DetachQuietly(stop) == 0

(* The signal a stop found by waitpid is detached with. *)
DetachSignal(stop) ==
  IF stop.kind \in {"entry", "exit"} \/ (stop.kind # "signal" /\ stop.sig \in {0, SIGTRAP})
    THEN 0 ELSE stop.sig

DetachStopped(t) ==
  /\ pc = "detaching" /\ t \in todo /\ tracees[t].inStop
  /\ IF InStop(t) THEN PtraceDetach(t, tracees[t].sig) ELSE UNCHANGED kernel
  /\ todo' = todo \ {t}
  /\ UNCHANGED <<tracees, out, pc, cur, root, shutdown, end, heap>>

(* waitpid(tid), which sleeps until that one task stops or can be reaped. *)
DetachNext(t) ==
  /\ pc = "detaching" /\ t \in todo /\ ~tracees[t].inStop
  /\ pc' = "detach_wait" /\ cur' = [NoEvent EXCEPT !.tid = t]
  /\ UNCHANGED <<kernel, tracees, out, root, shutdown, end, todo, heap>>

DetachWaited ==
  LET t == cur.tid
  IN  /\ pc = "detach_wait" /\ (Waitable(t) \/ ~Traced(t))
      /\ IF InStop(t) THEN PtraceDetach(t, DetachSignal(task[t].stop))
         ELSE /\ task' = IF Waitable(t) THEN Report(t) ELSE task
              /\ UNCHANGED <<result, made, nsigs, jobstop, faults>>
      /\ todo' = todo \ {t} /\ pc' = "detaching"
      /\ UNCHANGED <<tracees, out, cur, root, shutdown, end, heap>>

Detached ==
  /\ pc = "detaching" /\ todo = {} /\ Done
  /\ UNCHANGED <<kernel, tracees, out, cur, root, shutdown, end, todo>>

(* The kernel lets go of what is still traced when the tracer exits. *)
TracerGone(t) ==
  /\ pc = "done" /\ Mode = "attach" /\ Alive(t) /\ Traced(t)
  /\ IF InStop(t) THEN PtraceDetach(t, DetachSignal(task[t].stop))
     ELSE /\ task' = [task EXCEPT ![t].how = "free", ![t].trap = FALSE]
          /\ UNCHANGED <<result, made, nsigs, jobstop, faults>>
  /\ UNCHANGED tracer

-----------------------------------------------------------------------------
TracerStep ==
  /\ \/ StartLaunch
     \/ LoopEnds \/ Block \/ WaitFails
     \/ SyscallEntry \/ EntryFails \/ SyscallExit \/ EventStop \/ ForkStop \/ ExecStop
     \/ NewbornStop \/ SignalStop \/ GroupStop \/ Exited \/ Untracked
     \/ RequestFails \/ WriteFails \/ ExitWriteFails \/ NoMemory
     \/ Resume \/ ResumeTooLate \/ ListenFails
     \/ CleanUp \/ KillAll \/ AllReaped
     \/ InterruptRunning \/ DetachWaited \/ Detached
     \/ \E t \in Tids : \/ InterruptOne(t) \/ Wait(t) \/ Reap(t)
                         \/ DetachStopped(t) \/ DetachNext(t)
  /\ UNCHANGED config

TasksStep == /\ \/ SetupFails
                \/ \E t \in Tids : KernelStep(t) \/ ProgramStep(t)
             /\ UNCHANGED <<config, tracer>>

Outside == /\ \/ \E s \in ShutdownSignals : ShutdownArrives(s)
              \/ \E t \in Tids : TracerGone(t)
           /\ UNCHANGED config

(* Once the tracer is gone only its tasks may go on. *)
Terminated == pc = "done" /\ UNCHANGED vars

(* A process that job control has stopped may stay stopped for ever.  And  *)
(* detach_all_tracees may wait in vain for a leader: a thread of its group *)
(* that died is not reaped, since it was recorded as stopped or comes later.*)
Stopped ==
  /\ \/ pc = "blocked" /\ jobstop # {}
     \/ pc = "detach_wait" /\ Leader(cur.tid)
        /\ \E u \in Others(cur.tid) : task[u].st = "zombie"
  /\ UNCHANGED vars

Next == TracerStep \/ TasksStep \/ Outside \/ Terminated \/ Stopped

Spec == Init /\ [][Next]_vars

(* The tracer's process is scheduled, and so are its tasks' steps inside   *)
(* the kernel; what the program does, how long a call waits and when       *)
(* signals come is left open.                                              *)
Fairness == /\ WF_vars(TracerStep)
            /\ \A t \in Tids : /\ WF_vars(KernelStep(t) /\ UNCHANGED <<config, tracer>>)
                                /\ WF_vars(TracerGone(t) /\ UNCHANGED config)

FairSpec == Spec /\ Fairness

-----------------------------------------------------------------------------
(* The calls a record can be about: those of the program, and the two the  *)
(* kernel makes a task enter.                                              *)
CallRecords == [id : Ids \cup {0}, nr : Calls \cup {"none", "rt_sigreturn", "restart_syscall"}]

(* The records keep their types; in particular only results a program can  *)
(* see are ever reported.                                                  *)
TypeOK ==
  /\ tracees \in [Tids -> [known : BOOLEAN, newborn : BOOLEAN, inStop : BOOLEAN,
                           sig : Nat, pend : CallRecords, pendArgs : Nat,
                           intr : CallRecords, intrArgs : Nat, ready : BOOLEAN]]
  /\ out.unfinished \subseteq Tids
  /\ out.report \in [Ids -> {"none", "ok", "err", "eintr"}]
  /\ pc \in {"start", "interrupt", "wait", "blocked", "handle", "resume", "finish",
             "kill", "reap", "detach", "detaching", "detach_wait", "done"}
  /\ root.tid \in Tids /\ root.status \in Nat \cup {-1}
  /\ todo \subseteq Tids

Handled(s) == Disposition[s] \notin {"ignore", "cont", "fatal", "stop"}

(* Which entry continues which call is told apart for a launched command   *)
(* of one task in which no handler interrupts another, as long as no       *)
(* handler makes a call fail with EINTR or that call is the only one: a    *)
(* second call of its number, after the handler, is taken for its restart. *)
ToldApart ==
  /\ Mode = "launch" /\ ~Follow /\ MaxSignals <= 1
  /\ \/ MaxCalls <= 1
     \/ \A s \in Signals : Handled(s) =>
          Disposition[s] = "restart" /\ Calls \cap {"nanosleep", "restart_syscall"} = {}

(* The trace keeps its contract: every result written is the one the       *)
(* program saw, once, after the fact; no restart code, no made-up EINTR, no*)
(* result of another call (begin_syscall and finish_syscall).              *)
Contract == INSTANCE TraceContract
              WITH report <- IF ToldApart THEN out.report ELSE [i \in Ids |-> "none"]
RefinesContract == Contract!ContractSpec

(* When such a command has run to its end and was not killed on its way    *)
(* out of a call, every selected call that returned has been written with  *)
(* its result, however often the kernel restarted it; a sleep that goes on *)
(* after an ignored signal is written as a restart_syscall.                *)
ReportsComplete ==
  pc = "done" /\ end.ok /\ shutdown = 0 /\ ToldApart /\ SIGKILL \notin Signals
    /\ ("nanosleep" \in Selected => "restart_syscall" \in Selected) =>
    \A i \in 1..Len(made) :
      made[i] \in Selected /\ result[i] \in {"ok", "err"} => out.report[i] = result[i]

(* A line "<... name resumed>" completes a call whose "<unfinished ...>"   *)
(* line was written, and such a call is completed in no other way          *)
(* (write_text_syscall and flush_unfinished_syscalls), in a program without*)
(* signal handlers and without threads that exec: unfinished_tids does not *)
(* tell one call of a tid from the next.                                   *)
LinesPaired ==
  Signals = {} /\ ~({"clone", "execve"} \subseteq Calls) =>
    /\ out.resumed \subseteq out.shown
    /\ \A c \in out.shown : out.report[c.id] # "none" => c \in out.resumed

InCall(t) == \/ task[t].st \in {"sys", "spawned", "ret", "exec"}
             \/ InStop(t) /\ task[t].stop.kind \in {"exit", "fork"}

(* The rest of a fork or of an execve that has succeeded: from the event   *)
(* of the execve, after that of the fork, to the exit.                     *)
Ending(t) == /\ task[t].call.nr \in Forks \cup {"execve"}
             /\ \/ task[t].st = "ret"
                \/ InStop(t) /\ task[t].stop.kind = "exec"
                \/ InStop(t) /\ task[t].stop.kind = "exit" /\ task[t].stop.val = "ok"

(* Between two events the tracer knows whether each syscall-traced task is *)
(* in a call: has_pending_syscall never gets out of step with the kernel's *)
(* alternation of entries and exits, through restarts, forks and execs; so *)
(* begin_syscall never finds another call pending and finish_syscall always*)
(* finds the one that ends.  Only in the rest of an execve is either       *)
(* possible, and in that of a fork which had begun when the tracer attached.*)
PendingInStep ==
  pc \in {"wait", "blocked"} =>
    \A t \in Known : Alive(t) /\ task[t].how = "SYSCALL" /\ ~Ending(t) =>
      (InCall(t) <=> tracees[t].pend # NoCall)

(* Which SIGSTOP is ptrace's own is certain if there are no newborn tracees *)
(* or if nobody else sends one; and ptrace's comes first to a newborn task *)
(* if no lower signal does.                                                *)
OwnStopCertain ==
  \/ Mode = "launch" /\ ~Follow
  \/ /\ SIGSTOP \notin Signals
     /\ Mode = "launch" => \A s \in Signals \ {SIGKILL} : s > SIGSTOP

(* Signals sent to the program reach it, and ptrace's own stops do not,    *)
(* through the loop, the newborn heuristic and detach_all_tracees.         *)
SignalsPreserved == OwnStopCertain => faults = {}

(* The strings captured for a call are neither leaked nor freed twice nor  *)
(* used after they are freed, whichever way the call ends: completed, given*)
(* up, interrupted once more, replaced by an exec, or cut off with its task*)
(* or with the trace.  At any moment the allocated ones are exactly those  *)
(* the records point to, each by one pointer; at the end there are none.   *)
StringsOwned ==
  IF pc = "done" THEN heap = {}
  ELSE /\ heap = UNION {Strings(tracees[t]) : t \in Known}
       /\ \A t \in Known : tracees[t].pendArgs = tracees[t].intrArgs => Strings(tracees[t]) = {}
       /\ \A t, u \in Known : t # u => Strings(tracees[t]) \cap Strings(tracees[u]) = {}

(* While an attached process is stopped by job control none of its threads *)
(* runs: in user mode is only one that is about to stop (PTRACE_LISTEN, and*)
(* no resumption before SIGCONT).                                          *)
GroupStopHonoured ==
  Mode = "attach" =>
    \A t \in Tids : task[t].tg \in jobstop /\ task[t].st = "user" =>
      task[t].gst # 0 \/ task[t].trap

CommandsStatus == LET n == task[Root].code IN IF n < 0 THEN 128 + (-n) ELSE n

(* If the trace of a launched command succeeds, its exit status is the     *)
(* command's, or 128 + the signal that killed it, whichever of its tasks   *)
(* exited last or took over its tid; and it does succeed for a command     *)
(* that is not followed: nothing but its own thread and SIGKILL can        *)
(* destroy a stop the tracer is handling.                                  *)
Undisturbed == ~Follow /\ SIGKILL \notin Signals /\ ~WritesFail /\ ~MemoryFails

StatusPropagated ==
  pc = "done" /\ Mode = "launch" /\ shutdown = 0 =>
    /\ end.ok => end.status = CommandsStatus
    /\ Undisturbed /\ ~Seccomp => end.ok

(* Tracing a launched command always succeeds, with the command's status.  *)
CommandStatus ==
  pc = "done" /\ Mode = "launch" /\ shutdown = 0 =>
    end.ok /\ end.status = CommandsStatus

(* With --seccomp-bpf, status 126 counts as a failed setup exactly when it *)
(* comes from before the command's exec: a setup that failed is never taken*)
(* for a success, and a command that itself exits with 126 is traced like  *)
(* any other unless something else disturbs the trace.                     *)
SetupFailureTold ==
  pc = "done" /\ Seccomp /\ shutdown = 0 =>
    /\ end.ok => task[Root].execd \/ task[Root].code # 126
    /\ Undisturbed /\ (task[Root].execd \/ task[Root].code # 126) => end.ok

(* A restart the kernel hides is never reported as the failure EINTR. *)
NoPhantomErrors == \A i \in Ids : out.report[i] = "eintr" => result[i] = "eintr"

(* When detach_all_tracees is through, no tracee it knew is left traced;   *)
(* but the tid of one that it had done with may since have gone to a       *)
(* thread it had not come to, which is then left in the stop of its exec.  *)
AllDetached ==
  pc = "done" /\ Mode = "attach" =>
    \A t \in Known : Alive(t) /\ Traced(t) => InStop(t) /\ task[t].stop.kind = "exec"

(* No task is left in a ptrace-stop: trace_loop resumes, kills or detaches *)
(* whatever stops.                                                         *)
StopsAnswered == \A t \in Tids : InStop(t) ~> ~InStop(t)

(* A shutdown signal makes the tracer clean up and end. *)
ShutdownEnds == shutdown # 0 ~> pc = "done"

(* Once the loop is left, killing and reaping, or detaching, ends. *)
CleanupEnds == pc = "finish" ~> pc = "done"
=============================================================================
