------------------------------- MODULE Session -------------------------------
(***************************************************************************)
(* One run of sysgaze from main to its exit status: the command line, then *)
(* sg_trace_run with what can fail at each of its steps (src/src/main.c,   *)
(* src/src/trace.c), and what reaches the output, line by line             *)
(* (src/src/output.c).  The loop itself is the subject of Tracer.          *)
(***************************************************************************)
EXTENDS Cli

CONSTANTS MaxLines,  \* lines about events
          Codes,     \* exit statuses of commands
          Signals    \* SIGINT and SIGTERM, to sysgaze

ASSUME SessionAssumption == Signals \subseteq Nat \ {0} /\ MaxLines \in Nat

VARIABLES step,      \* where the program is
          success,   \* its variable; its status when it has exited
          status,    \* *command_status
          stream,    \* context.stream: "none", "stderr", "open" or "closed"
          lines,     \* what is in the output: lines, whole or cut
          unsent,    \* the line the stream still holds the rest of, if any
          target,    \* the child or the process attached to
          held,      \* memory in use
          handlers,  \* signals whose handler is shutdown_handler
          shutdown   \* shutdown_signal

session == <<step, success, status, stream, lines, unsent, target, held, handlers, shutdown>>
vars    == <<words, parse, config, session>>

Launching == config.mode = "launch"

Init ==
  /\ CliInit
  /\ step = "cli" /\ success = TRUE /\ status = 0
  /\ stream = "none" /\ lines = << >> /\ unsent = "none"
  /\ target = "none" /\ held = {} /\ handlers = {} /\ shutdown = 0

-----------------------------------------------------------------------------
(* main *)
ParseStep == step = "cli" /\ CliNext /\ UNCHANGED session

Exit(s) == step' = "exit" /\ status' = s

(* argv is not read again; neither is the parser's state. *)
Parsed ==
  /\ step = "cli" /\ parse.action # "parse"
  /\ words' = << >> /\ parse' = [action |-> parse.action]
  /\ IF parse.action = "run" THEN step' = "open" /\ UNCHANGED status
     ELSE Exit(IF parse.action = "error" THEN 2 ELSE 0)
  /\ UNCHANGED <<config, success, stream, lines, unsent, target, held, handlers, shutdown>>

Unparsed == UNCHANGED <<words, parse, config>>

-----------------------------------------------------------------------------
(* write_buffer: a line, with its newline, and a flush. *)
Written(line) == lines' = Append(lines, [line |-> line, whole |-> TRUE]) /\ UNCHANGED unsent

(* The line cannot be made or written.  Some of it may have been, and the  *)
(* C library may keep the rest for the next flush of a stream it buffers.  *)
NotWritten(line) ==
  \/ UNCHANGED <<lines, unsent>>
  \/ /\ lines' \in {lines, Append(lines, [line |-> line, whole |-> FALSE])}
     /\ unsent' \in {"none"} \cup (IF stream = "open" THEN {line} ELSE {})

(* fclose flushes first. *)
Flushed ==
  IF unsent = "none" THEN lines
  ELSE IF lines # << >> /\ ~lines[Len(lines)].whole
    THEN [lines EXCEPT ![Len(lines)].whole = TRUE]
  ELSE Append(lines, [line |-> unsent, whole |-> TRUE])

Closes == stream' = IF stream = "open" THEN "closed" ELSE stream

-----------------------------------------------------------------------------
(* sg_trace_run *)
Fails(next) == success' = FALSE /\ step' = next

open_output ==
  /\ step = "open"
  /\ \/ ~config.output /\ stream' = "stderr" /\ step' = "init" /\ UNCHANGED <<status, success>>
     \/ config.output /\ stream' = "open" /\ step' = "init" /\ UNCHANGED <<status, success>>
     \/ config.output /\ Exit(1) /\ success' = FALSE /\ UNCHANGED stream
  /\ Unparsed /\ UNCHANGED <<lines, unsent, target, held, handlers, shutdown>>

HasMetadata == config.format # "text" /\ ~config.summary

sg_output_init ==
  /\ step = "init"
  /\ \/ /\ IF HasMetadata THEN Written("metadata") ELSE UNCHANGED <<lines, unsent>>
        /\ step' = "start" /\ UNCHANGED success
     \/ HasMetadata /\ NotWritten("metadata") /\ Fails("abandon")
  /\ Unparsed /\ UNCHANGED <<status, stream, target, held, handlers, shutdown>>

Abandon ==
  /\ step = "abandon" /\ Exit(1)
  /\ Closes /\ lines' \in {lines, Flushed} /\ unsent' = "none"
  /\ Unparsed /\ UNCHANGED <<success, target, held, handlers, shutdown>>

prepare_seccomp_program ==
  /\ step = "start" /\ Launching
  /\ \/ /\ step' = "fork" /\ UNCHANGED success
        /\ held' = IF config.seccomp THEN held \cup {"program"} ELSE held
     \/ config.seccomp /\ Fails("cleanup") /\ UNCHANGED held
  /\ Unparsed /\ UNCHANGED <<status, stream, lines, unsent, target, handlers, shutdown>>

(* launch_tracee; either way the parent frees its copy of the program. *)
release_seccomp_program == held' = held \ {"program"}

launch_tracee ==
  /\ step = "fork" /\ release_seccomp_program
  /\ \/ target' = "forked" /\ step' = "add" /\ UNCHANGED success
     \/ Fails("cleanup") /\ UNCHANGED target
  /\ Unparsed /\ UNCHANGED <<status, stream, lines, unsent, handlers, shutdown>>

AddRoot ==
  /\ step = "add"
  /\ \/ held' = held \cup {"tracees"} /\ step' = "wait" /\ UNCHANGED success
     \/ Fails("cleanup") /\ UNCHANGED held
  /\ Unparsed /\ UNCHANGED <<status, stream, lines, unsent, target, handlers, shutdown>>

(* The child: PTRACE_TRACEME and raise(SIGSTOP), or child_fail; or another *)
(* signal stops or kills it before that.                                   *)
ChildStep ==
  /\ target = "forked" /\ step \notin {"exit", "killed"}
  /\ target' \in {"stopped", "stopped otherwise", "ended"}
  /\ UNCHANGED <<words, parse, config, step, success, status, stream, lines, unsent, held,
                 handlers, shutdown>>

wait_for_initial_stop ==
  /\ step = "wait" /\ target # "forked"
  /\ IF target = "stopped" THEN step' = "options" /\ UNCHANGED success
     ELSE Fails("cleanup")
  /\ target' = IF target = "ended" THEN "none" ELSE target
  /\ Unparsed /\ UNCHANGED <<status, stream, lines, unsent, held, handlers, shutdown>>

(* A bug: the option that ties the command to sysgaze is left out. *)
WithoutExitkill == "seized"

(* A launched task has PTRACE_O_EXITKILL, an attached one does not. *)
ptrace_options == IF Launching THEN "exitkill" ELSE "seized"

(* PTRACE_SETOPTIONS fails if the child has been killed. *)
install_ptrace_options ==
  /\ step = "options"
  /\ \/ target' = ptrace_options /\ step' = "handlers" /\ UNCHANGED success
     \/ target' = "ended" /\ Fails("cleanup")
  /\ Unparsed /\ UNCHANGED <<status, stream, lines, unsent, held, handlers, shutdown>>

(* The subject of Attach. *)
prepare_attach ==
  /\ step = "start" /\ ~Launching
  /\ \/ target' = ptrace_options /\ step' = "handlers" /\ UNCHANGED success
     \/ target' \in {"none", "seized"} /\ Fails("cleanup")
  /\ held' = held \cup {"tracees"}
  /\ Unparsed /\ UNCHANGED <<status, stream, lines, unsent, handlers, shutdown>>

(* SIGINT's first; if SIGTERM's cannot be set, SIGINT's is put back. *)
install_shutdown_handlers ==
  /\ step = "handlers" /\ shutdown' = 0
  /\ \/ handlers' = Signals /\ step' = "loop" /\ UNCHANGED success
     \/ UNCHANGED handlers /\ Fails("cleanup")
  /\ Unparsed /\ UNCHANGED <<status, stream, lines, unsent, target, held>>

-----------------------------------------------------------------------------
(* trace_loop, as far as the rest of the run sees it.  A launched command  *)
(* runs from here on.                                                      *)
InLoop == step = "loop" /\ Unparsed /\ UNCHANGED <<stream, handlers, shutdown>>

Events == Len(SelectSeq(lines, LAMBDA l : l.line = "event"))

(* sg_output_write_event, or sg_stats_record with -c. *)
LoopEvent ==
  /\ InLoop /\ Events < MaxLines
  /\ IF config.summary THEN held' = held \cup {"stats"} /\ UNCHANGED <<lines, unsent>>
     ELSE held' = held \cup {"unfinished"} /\ Written("event")
  /\ UNCHANGED <<step, success, status, target>>

(* A bug: the loop goes on after a line that was not written. *)
GoesOn == UNCHANGED <<step, success>>

LoopGivesUp == Fails("cleanup")

LoopEventFails ==
  /\ InLoop /\ Events < MaxLines
  /\ IF config.summary THEN UNCHANGED <<lines, unsent>> ELSE NotWritten("event")
  /\ LoopGivesUp
  /\ UNCHANGED <<status, target, held>>

LoopFails == InLoop /\ Fails("cleanup") /\ UNCHANGED <<status, lines, unsent, target, held>>

LoopEnds ==
  /\ InLoop /\ target' = "none" /\ step' = "cleanup"
  /\ status' \in IF Launching THEN Codes ELSE {0}
  /\ UNCHANGED <<success, lines, unsent, held>>

LoopShutdown ==
  /\ InLoop /\ shutdown # 0 /\ step' = "cleanup" /\ status' = 128 + shutdown
  /\ UNCHANGED <<success, lines, unsent, target, held>>

-----------------------------------------------------------------------------
(* kill_all_tracees or detach_all_tracees, unless the loop ended by itself. *)
CleanUp ==
  /\ step = "cleanup"
  /\ target' = IF shutdown # 0 \/ ~success THEN "none" ELSE target
  /\ step' = "restore"
  /\ Unparsed /\ UNCHANGED <<success, status, stream, lines, unsent, held, handlers, shutdown>>

(* restore_shutdown_handlers and release_all_tracees *)
Restore ==
  /\ step = "restore"
  /\ handlers' = {} /\ shutdown' = 0 /\ held' = held \ {"tracees"}
  /\ step' = "summary"
  /\ Unparsed /\ UNCHANGED <<success, status, stream, lines, unsent, target>>

sg_output_write_summary ==
  /\ step = "summary"
  /\ IF success /\ config.summary
       THEN \/ Written("summary") /\ step' = "metrics" /\ UNCHANGED success
            \/ NotWritten("summary") /\ Fails("destroy")
       ELSE /\ step' = IF success THEN "metrics" ELSE "destroy"
            /\ UNCHANGED <<success, lines, unsent>>
  /\ Unparsed /\ UNCHANGED <<status, stream, target, held, handlers, shutdown>>

(* sg_output_finish has nothing left to flush; write_benchmark_metrics may *)
(* be given a descriptor that cannot be written to.                        *)
write_benchmark_metrics ==
  /\ step = "metrics"
  /\ (step' = "destroy" /\ UNCHANGED success) \/ Fails("destroy")
  /\ Unparsed /\ UNCHANGED <<status, stream, lines, unsent, target, held, handlers, shutdown>>

Freed == held \ {"unfinished", "stats"}

(* sg_output_destroy, sg_stats_destroy and fclose. *)
Destroy ==
  /\ step = "destroy" /\ held' = Freed /\ step' = "close"
  /\ Unparsed /\ UNCHANGED <<success, status, stream, lines, unsent, target, handlers, shutdown>>

(* A bug: that fclose failed is not looked at. *)
ClosedAnyway(failed) == success

SucceedsIfClosed(failed) == success /\ ~failed

(* If close fails the kernel may have lost what it had accepted. *)
Close ==
  /\ step = "close" /\ Closes /\ unsent' = "none"
  /\ \E failed \in IF stream = "open" THEN BOOLEAN ELSE {FALSE} :
       /\ IF failed THEN \E k \in 0..Len(lines) : lines' = SubSeq(lines, 1, k)
          ELSE lines' = Flushed
       /\ success' = SucceedsIfClosed(failed)
       /\ Exit(IF success' THEN status ELSE 1)
  /\ Unparsed /\ UNCHANGED <<target, held, handlers, shutdown>>

-----------------------------------------------------------------------------
(* SIGINT or SIGTERM.  Where shutdown_handler is not installed it ends     *)
(* sysgaze, and the kernel kills the tasks with PTRACE_O_EXITKILL and lets *)
(* go of the others.                                                       *)
Signalled(s) ==
  /\ step \notin {"exit", "killed"}
  /\ IF s \in handlers
       THEN shutdown' = s /\ UNCHANGED <<step, target>>
       ELSE /\ step' = "killed" /\ UNCHANGED shutdown
            /\ target' = IF target \in {"exitkill", "seized", "ended"}
                         THEN IF target = "seized" /\ Launching THEN "running" ELSE "none"
                         ELSE target
  /\ UNCHANGED <<words, parse, config, success, status, stream, lines, unsent, held, handlers>>

Over == step \in {"exit", "killed"} /\ UNCHANGED vars

Next ==
  \/ ParseStep \/ Parsed
  \/ open_output \/ sg_output_init \/ Abandon
  \/ prepare_seccomp_program \/ launch_tracee \/ AddRoot \/ ChildStep
  \/ wait_for_initial_stop \/ install_ptrace_options \/ prepare_attach
  \/ install_shutdown_handlers
  \/ LoopEvent \/ LoopEventFails \/ LoopFails \/ LoopEnds \/ LoopShutdown
  \/ CleanUp \/ Restore \/ sg_output_write_summary \/ write_benchmark_metrics
  \/ Destroy \/ Close \/ Over
  \/ \E s \in Signals : Signalled(s)

Spec == Init /\ [][Next]_vars

-----------------------------------------------------------------------------
(* Which command lines are accepted, in every order of their options and   *)
(* with clusters and abbreviations, measured by the usage text.            *)
(* separator_index and getopt_long look for the "--" independently of each *)
(* other, and a value may look like an option or be "--" itself.  They do  *)
(* not always agree: a line accepted against the usage text is one of      *)
(* Mistaken or Overlooked, and a line refused against it is not Separate.  *)
UsageAccepted == step = "cli" => AsInUsage

Kinds == [i \in DOMAIN lines |-> lines[i].line]

(* What can be read from the output, at any time and whatever failed, is   *)
(* the beginning of a well-formed stream: the metadata come first and the  *)
(* summary last, and only the last line may be cut short.                  *)
StreamInOrder ==
  \A i \in DOMAIN lines :
    /\ lines[i].whole \/ i = Len(lines)
    /\ Kinds[i] = "metadata" => i = 1 /\ HasMetadata
    /\ Kinds[i] = "summary" => i = Len(lines) /\ config.summary
    /\ Kinds[i] = "event" => ~config.summary /\ (HasMetadata => Kinds[1] = "metadata")

(* A run that reports no failure of its own has left a complete output:    *)
(* an error on the way, even one that only fclose tells, is not lost       *)
(* between the loop and the exit status.                                   *)
OutputComplete ==
  step = "exit" /\ success /\ parse.action = "run" =>
    /\ unsent = "none" /\ \A i \in DOMAIN lines : lines[i].whole
    /\ HasMetadata => lines # << >> /\ Kinds[1] = "metadata"
    /\ config.summary => Kinds = <<"summary">>

(* Whichever step fails, and wherever a signal interrupts, an exit leaves  *)
(* no child and no tracee, no memory, no open output and no handler        *)
(* behind; and sysgaze is never killed leaving a command that runs on      *)
(* without it.                                                             *)
NothingLeftBehind ==
  /\ step = "exit" => /\ target = "none" /\ held = {} /\ stream # "open"
                      /\ handlers = {} /\ shutdown = 0
  /\ step = "killed" => target # "running"
=============================================================================
