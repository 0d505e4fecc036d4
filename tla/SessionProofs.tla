---------------------------- MODULE SessionProofs ----------------------------
(***************************************************************************)
(* A run of sysgaze cleans up after itself and keeps its output in order,  *)
(* for all command lines, any number of lines, and a failure or a signal   *)
(* at any step; and it accepts the command lines of the usage text and no  *)
(* others.                                                                 *)
(***************************************************************************)
EXTENDS Session, WellFoundedInduction, FiniteSetTheorems, SequenceTheorems, TLAPS

Early == {"cli", "open", "init", "abandon", "start"}
Late  == {"summary", "metrics", "destroy", "close", "exit"}

(* The memory each step may find in use. *)
MemoryAt ==
  /\ step \in Early \cup {"add", "close", "exit"} => held = {}
  /\ step = "fork" => held \subseteq {"program"}
  /\ step \in {"wait", "options", "handlers", "loop", "cleanup", "restore"} =>
       held \subseteq {"tracees", "unfinished", "stats"}
  /\ step \in {"summary", "metrics", "destroy"} => held \subseteq {"unfinished", "stats"}

(* What there may be of a target: before the fork nothing, after the       *)
(* cleanup nothing, and never a launched command that a death of sysgaze   *)
(* would let go of.                                                        *)
TargetAt ==
  /\ target # "running" /\ (Launching => target # "seized")
  /\ step \in Early \cup Late \cup {"fork", "restore"} => target = "none"
  /\ step = "options" => target = "stopped"
  /\ step = "cleanup" /\ success /\ shutdown = 0 => target = "none"

(* The handlers are installed from the loop to their restoration; only     *)
(* they set shutdown_signal.                                               *)
HandlersAt ==
  /\ step \notin {"loop", "cleanup", "restore", "killed"} => handlers = {} /\ shutdown = 0
  /\ handlers \subseteq Signals

StreamAt ==
  /\ step \in {"cli", "open"} => stream = "none"
  /\ step = "exit" => stream # "open"

Steps == Early \cup Late \cup {"fork", "add", "wait", "options", "handlers", "loop", "cleanup",
                               "restore", "killed"}

LeftInv == step \in Steps /\ MemoryAt /\ TargetAt /\ HandlersAt /\ StreamAt

-----------------------------------------------------------------------------
LEMMA LeftInit == Init => LeftInv
BY DEF Init, LeftInv, Steps, Early, Late, MemoryAt, TargetAt, HandlersAt, StreamAt, Launching

(* Every step of the program leaves what the next one may find. *)
LEMMA LeftStep == LeftInv /\ [Next]_vars => LeftInv'
<1> SUFFICES ASSUME LeftInv, [Next]_vars PROVE LeftInv'
  OBVIOUS
<1> USE DEF LeftInv, Steps, Early, Late, MemoryAt, TargetAt, HandlersAt, StreamAt, Launching
<1>1. CASE ParseStep
  BY <1>1 DEF ParseStep, session
<1>2. CASE Parsed
  BY <1>2 DEF Parsed, Exit
<1>3. CASE open_output
  BY <1>3 DEF open_output, Exit, Unparsed
<1>4. CASE sg_output_init
  BY <1>4 DEF sg_output_init, Fails, Unparsed
<1>5. CASE Abandon
  BY <1>5 DEF Abandon, Exit, Closes, Unparsed
<1>6. CASE prepare_seccomp_program
  BY <1>6 DEF prepare_seccomp_program, Fails, Unparsed
<1>7. CASE launch_tracee
  BY <1>7 DEF launch_tracee, release_seccomp_program, Fails, Unparsed
<1>8. CASE AddRoot
  BY <1>8 DEF AddRoot, Fails, Unparsed
<1>9. CASE ChildStep
  BY <1>9 DEF ChildStep
<1>10. CASE wait_for_initial_stop
  BY <1>10 DEF wait_for_initial_stop, Fails, Unparsed
<1>11. CASE install_ptrace_options
  BY <1>11 DEF install_ptrace_options, ptrace_options, Fails, Unparsed
<1>12. CASE prepare_attach
  BY <1>12 DEF prepare_attach, ptrace_options, Fails, Unparsed
<1>13. CASE install_shutdown_handlers
  BY <1>13 DEF install_shutdown_handlers, Fails, Unparsed
<1>14. CASE LoopEvent
  BY <1>14 DEF LoopEvent, InLoop, Unparsed
<1>15. CASE LoopEventFails
  BY <1>15 DEF LoopEventFails, LoopGivesUp, Fails, InLoop, Unparsed
<1>16. CASE LoopFails
  BY <1>16 DEF LoopFails, Fails, InLoop, Unparsed
<1>17. CASE LoopEnds
  BY <1>17 DEF LoopEnds, InLoop, Unparsed
<1>18. CASE LoopShutdown
  BY <1>18 DEF LoopShutdown, InLoop, Unparsed
<1>19. CASE CleanUp
  BY <1>19 DEF CleanUp, Unparsed
<1>20. CASE Restore
  BY <1>20 DEF Restore, Unparsed
<1>21. CASE sg_output_write_summary
  BY <1>21 DEF sg_output_write_summary, Fails, Unparsed
<1>22. CASE write_benchmark_metrics
  BY <1>22 DEF write_benchmark_metrics, Fails, Unparsed
<1>23. CASE Destroy
  BY <1>23 DEF Destroy, Freed, Unparsed
<1>24. CASE Close
  BY <1>24 DEF Close, Closes, Exit, Unparsed
<1>25. CASE Over \/ UNCHANGED vars
  BY <1>25 DEF Over, vars, session
<1>26. ASSUME NEW s \in Signals, Signalled(s) PROVE LeftInv'
  BY <1>26, SessionAssumption DEF Signalled
<1> QED
  BY <1>1, <1>2, <1>3, <1>4, <1>5, <1>6, <1>7, <1>8, <1>9, <1>10, <1>11, <1>12, <1>13,
     <1>14, <1>15, <1>16, <1>17, <1>18, <1>19, <1>20, <1>21, <1>22, <1>23, <1>24, <1>25,
     <1>26 DEF Next

(* Whichever step fails or is interrupted, an exit leaves no child, no     *)
(* memory, no open output and no handler behind, and a death of sysgaze no *)
(* launched command that runs on (sg_trace_run's cleanup and               *)
(* PTRACE_O_EXITKILL).                                                     *)
THEOREM LeavesNothing == Spec => []NothingLeftBehind
<1>1. LeftInv => NothingLeftBehind
  BY DEF LeftInv, MemoryAt, TargetAt, HandlersAt, StreamAt, Early, Late, NothingLeftBehind
<1> QED
  BY <1>1, LeftInit, LeftStep, PTL DEF Spec

-----------------------------------------------------------------------------
LineKinds == {"metadata", "event", "summary"}
Line      == [line : LineKinds, whole : BOOLEAN]

(* sequence l, whose lines stand in the order of a well-formed stream *)
InOrder(l) ==
  \A i \in 1..Len(l) :
    /\ l[i].whole \/ i = Len(l)
    /\ l[i].line = "metadata" => i = 1 /\ HasMetadata
    /\ l[i].line = "summary" => i = Len(l) /\ config.summary
    /\ l[i].line = "event" => ~config.summary /\ (HasMetadata => l[1].line = "metadata")

(* Where the rest of a line the C library still holds would go. *)
Pending(l, u) ==
  /\ u = "metadata" => HasMetadata /\ Len(l) <= 1 /\ (Len(l) = 1 => ~l[1].whole)
  /\ u = "event" => ~config.summary /\ (HasMetadata => Len(l) > 0 /\ l[1].line = "metadata"
                                                       /\ l[1].whole)
  /\ u = "summary" => config.summary /\ Len(l) <= 1 /\ (Len(l) = 1 => ~l[1].whole)

(* Nothing is cut short or held back, the metadata are there if they are   *)
(* wanted, and the summary has not been written.                           *)
Sound(l, u) ==
  /\ u = "none" /\ \A i \in 1..Len(l) : l[i].whole /\ l[i].line # "summary"
  /\ HasMetadata => Len(l) > 0 /\ l[1].line = "metadata"

Finished(l, u) ==
  /\ u = "none" /\ \A i \in 1..Len(l) : l[i].whole
  /\ HasMetadata => Len(l) > 0 /\ l[1].line = "metadata"
  /\ config.summary => Len(l) = 1 /\ l[1].line = "summary"

OutputAt ==
  /\ step \in {"cli", "open", "init"} => lines = << >> /\ unsent = "none"
  /\ step \in {"start", "fork", "add", "wait", "options", "handlers", "loop"} =>
       Sound(lines, unsent)
  /\ step \in {"cleanup", "restore", "summary"} /\ success => Sound(lines, unsent)
  /\ step = "abandon" => ~success
  /\ step \in {"metrics", "destroy", "close"} /\ success => Finished(lines, unsent)
  /\ step = "exit" /\ success /\ parse.action = "run" => Finished(lines, unsent)

OrderInv ==
  /\ step \in Steps /\ lines \in Seq(Line) /\ unsent \in LineKinds \cup {"none"}
  /\ InOrder(lines) /\ Pending(lines, unsent) /\ OutputAt

-----------------------------------------------------------------------------
LEMMA OrderInit == Init => OrderInv
BY DEF Init, OrderInv, Steps, Early, Line, LineKinds, InOrder, Pending, OutputAt

(* A line may be added, whole or cut, where the order allows its kind and  *)
(* nothing before it is cut.                                               *)
LEMMA Appended ==
  ASSUME lines \in Seq(Line), InOrder(lines), Sound(lines, unsent),
         NEW k \in LineKinds, NEW w \in BOOLEAN,
         k = "metadata" => HasMetadata /\ lines = << >>,
         k = "summary" => config.summary,
         k = "event" => ~config.summary
  PROVE  LET l == Append(lines, [line |-> k, whole |-> w])
         IN  /\ l \in Seq(Line) /\ InOrder(l) /\ Len(l) = Len(lines) + 1
             /\ l[Len(l)] = [line |-> k, whole |-> w]
             /\ \A i \in 1..Len(lines) : l[i] = lines[i]
<1> DEFINE x == [line |-> k, whole |-> w]
           l == Append(lines, x)
<1>1. x \in Line
  BY DEF Line
<1>2. /\ l \in Seq(Line) /\ Len(l) = Len(lines) + 1 /\ l[Len(l)] = x
      /\ \A i \in 1..Len(lines) : l[i] = lines[i]
  BY <1>1
<1>3. x.line = k /\ x.whole = w
  OBVIOUS
<1> HIDE DEF x, l
<1>4. ASSUME NEW i \in 1..Len(l)
      PROVE  /\ l[i].whole \/ i = Len(l)
             /\ l[i].line = "metadata" => i = 1 /\ HasMetadata
             /\ l[i].line = "summary" => i = Len(l) /\ config.summary
             /\ l[i].line = "event" => ~config.summary /\ (HasMetadata => l[1].line = "metadata")
  <2>1. CASE i \in 1..Len(lines)
    <3>1. l[i] = lines[i] /\ l[1] = lines[1]
      BY <2>1, <1>2
    <3> QED BY <2>1, <3>1 DEF InOrder, Sound
  <2>2. CASE i = Len(l)
    <3>1. l[i] = x
      BY <2>2, <1>2
    <3>2. Len(lines) > 0 => l[1] = lines[1]
      BY <1>2
    <3>3. lines = << >> => Len(l) = 1
      BY <1>2
    <3> QED BY <2>2, <3>1, <3>2, <3>3, <1>3 DEF Sound
  <2> QED BY <2>1, <2>2, <1>2
<1>5. InOrder(l)
  BY <1>4 DEF InOrder
<1> QED BY <1>2, <1>5 DEF l, x

(* With -c nothing has been written before the summary. *)
LEMMA NothingBefore ==
  ASSUME lines \in Seq(Line), InOrder(lines), Sound(lines, unsent), config.summary
  PROVE  lines = << >>
<1>1. \A i \in 1..Len(lines) : lines[i].line \in LineKinds
  <2>1. \A i \in 1..Len(lines) : lines[i] \in Line
    OBVIOUS
  <2> QED BY <2>1 DEF Line
<1>2. ~(1 \in 1..Len(lines))
  BY <1>1 DEF InOrder, Sound, LineKinds, HasMetadata
<1> QED BY <1>2

(* A line that fails leaves a stream in order, also if the rest of the     *)
(* line follows later.                                                     *)
LEMMA FailedLine ==
  ASSUME lines \in Seq(Line), InOrder(lines), Sound(lines, unsent), UNCHANGED config,
         NEW k \in LineKinds, NotWritten(k),
         k = "metadata" => HasMetadata /\ lines = << >>,
         k = "summary" => config.summary,
         k = "event" => ~config.summary
  PROVE  /\ lines' \in Seq(Line) /\ unsent' \in LineKinds \cup {"none"}
         /\ InOrder(lines)' /\ Pending(lines, unsent)'
<1> DEFINE l == Append(lines, [line |-> k, whole |-> FALSE])
<1>1. /\ l \in Seq(Line) /\ InOrder(l) /\ Len(l) = Len(lines) + 1
      /\ l[Len(l)] = [line |-> k, whole |-> FALSE]
      /\ \A i \in 1..Len(lines) : l[i] = lines[i]
  BY Appended
<1>2. unsent = "none"
  BY DEF Sound
<1>3. lines' \in {lines, l} /\ unsent' \in {"none", k}
  BY <1>2 DEF NotWritten
<1>4. k \in {"metadata", "summary"} => lines = << >>
  BY NothingBefore
<1> HIDE DEF l
<1>5. Pending(lines, k) /\ Pending(l, k)
  <2>1. l[Len(l)].whole = FALSE
    BY <1>1
  <2> QED BY <1>1, <1>4, <2>1 DEF Pending, Sound, LineKinds
<1>6. Pending(lines, "none") /\ Pending(l, "none")
  BY DEF Pending
<1>7. (HasMetadata <=> HasMetadata') /\ config' = config
  BY DEF HasMetadata
<1>8. InOrder(lines)'
  BY <1>1, <1>3, <1>7 DEF InOrder
<1>9. Pending(lines, unsent)'
  BY <1>3, <1>5, <1>6, <1>7 DEF Pending
<1> QED BY <1>1, <1>3, <1>8, <1>9

(* What fclose sends after it keeps the order. *)
LEMMA FlushInOrder ==
  ASSUME lines \in Seq(Line), unsent \in LineKinds \cup {"none"},
         InOrder(lines), Pending(lines, unsent)
  PROVE  Flushed \in Seq(Line) /\ InOrder(Flushed) /\ (unsent = "none" => Flushed = lines)
<1>1. CASE unsent = "none"
  BY <1>1 DEF Flushed
<1>2. CASE unsent # "none" /\ lines # << >> /\ ~lines[Len(lines)].whole
  <2> DEFINE n == Len(lines)
             f == [lines EXCEPT ![n] = [lines[n] EXCEPT !.whole = TRUE]]
  <2>1. Flushed = f
    BY <1>2 DEF Flushed
  <2>2. n \in 1..Len(lines) /\ lines[n] \in Line
    BY <1>2
  <2>3. [lines[n] EXCEPT !.whole = TRUE] \in Line
        /\ [lines[n] EXCEPT !.whole = TRUE].line = lines[n].line
        /\ [lines[n] EXCEPT !.whole = TRUE].whole = TRUE
    BY <2>2 DEF Line
  <2>4. f \in Seq(Line) /\ Len(f) = n
    BY <2>2, <2>3
  <2>5. \A i \in 1..n : f[i].line = lines[i].line /\ (lines[i].whole => f[i].whole)
    BY <2>2, <2>3
  <2> HIDE DEF f
  <2>6. InOrder(f)
    BY <2>4, <2>5 DEF InOrder
  <2> QED BY <1>2, <2>1, <2>4, <2>6
<1>3. CASE unsent # "none" /\ ~(lines # << >> /\ ~lines[Len(lines)].whole)
  <2> DEFINE x == [line |-> unsent, whole |-> TRUE]
             f == Append(lines, x)
  <2>1. Flushed = f
    BY <1>3 DEF Flushed
  <2>2. x \in Line /\ x.line = unsent /\ x.whole
    BY <1>3 DEF Line
  <2>3. f \in Seq(Line) /\ Len(f) = Len(lines) + 1 /\ f[Len(f)] = x
        /\ \A i \in 1..Len(lines) : f[i] = lines[i]
    BY <2>2
  <2>4. unsent \in {"metadata", "summary"} => Len(lines) = 0
    <3>1. Len(lines) \in Nat /\ (lines = << >> <=> Len(lines) = 0)
      OBVIOUS
    <3>2. unsent \in {"metadata", "summary"} => Len(lines) # 1
      BY <1>3, <3>1 DEF Pending
    <3> QED BY <3>1, <3>2 DEF Pending
  <2>5. \A i \in 1..Len(lines) : lines[i].whole
    BY <1>3 DEF InOrder
  <2> HIDE DEF f, x
  <2>6. ASSUME NEW i \in 1..Len(f)
        PROVE  /\ f[i].whole \/ i = Len(f)
               /\ f[i].line = "metadata" => i = 1 /\ HasMetadata
               /\ f[i].line = "summary" => i = Len(f) /\ config.summary
               /\ f[i].line = "event" => ~config.summary /\ (HasMetadata => f[1].line = "metadata")
    <3>1. CASE i \in 1..Len(lines)
      <4>1. f[i] = lines[i] /\ f[1] = lines[1] /\ unsent = "event"
        BY <3>1, <2>3, <2>4, <1>3 DEF LineKinds
      <4>2. lines[i].line # "summary"
        BY <3>1, <4>1 DEF InOrder, Pending
      <4> QED BY <3>1, <4>1, <4>2, <2>5 DEF InOrder
    <3>2. CASE i = Len(f)
      <4>1. f[i] = x /\ (Len(lines) > 0 => f[1] = lines[1])
        BY <3>2, <2>3
      <4> QED BY <3>2, <4>1, <2>2, <2>3, <2>4 DEF Pending
    <3> QED BY <3>1, <3>2, <2>3
  <2>7. InOrder(f)
    BY <2>6 DEF InOrder
  <2> QED BY <1>3, <2>1, <2>3, <2>7
<1> QED BY <1>1, <1>2, <1>3

(* So does the loss of any number of lines at the end. *)
LEMMA PrefixInOrder ==
  ASSUME lines \in Seq(Line), InOrder(lines), NEW k \in 0..Len(lines)
  PROVE  SubSeq(lines, 1, k) \in Seq(Line) /\ InOrder(SubSeq(lines, 1, k))
<1> DEFINE p == SubSeq(lines, 1, k)
<1>1. p \in Seq(Line) /\ Len(p) = k /\ \A i \in 1..k : p[i] = lines[i]
  OBVIOUS
<1> HIDE DEF p
<1>2. InOrder(p)
  BY <1>1 DEF InOrder
<1> QED BY <1>1, <1>2 DEF p

(* Steps that leave the output and the variables OutputAt reads alone. *)
Quiet == UNCHANGED <<parse, config, lines, unsent>>

LEMMA QuietStep ==
  ASSUME OrderInv, Quiet, step' \in Steps, OutputAt'
  PROVE  OrderInv'
<1>1. (HasMetadata <=> HasMetadata') /\ config' = config
  BY DEF HasMetadata, Quiet
<1> QED BY <1>1 DEF OrderInv, Quiet, InOrder, Pending

LEMMA SameOutput ==
  ASSUME Quiet
  PROVE  /\ Sound(lines, unsent) => Sound(lines, unsent)'
         /\ Finished(lines, unsent) => Finished(lines, unsent)'
<1>1. (HasMetadata <=> HasMetadata') /\ config' = config
  BY DEF HasMetadata, Quiet
<1> QED BY <1>1 DEF Quiet, Sound, Finished

(* Every step keeps the lines in order. *)
LEMMA OrderStep == OrderInv /\ [Next]_vars => OrderInv'
<1> SUFFICES ASSUME OrderInv, [Next]_vars PROVE OrderInv'
  OBVIOUS
<1>t. /\ step \in Steps /\ lines \in Seq(Line) /\ unsent \in LineKinds \cup {"none"}
      /\ InOrder(lines) /\ Pending(lines, unsent) /\ OutputAt
  BY DEF OrderInv
<1>q. Quiet /\ step' \in Steps /\ OutputAt' => OrderInv'
  BY QuietStep
<1>s. Quiet => /\ Sound(lines, unsent) => Sound(lines, unsent)'
               /\ Finished(lines, unsent) => Finished(lines, unsent)'
  BY SameOutput
<1>1. CASE ParseStep \/ Parsed
  <2>1. lines' = << >> /\ unsent' = "none" /\ step' \in {"cli", "open", "exit"}
        /\ (step' = "exit" => parse'.action # "run")
    BY <1>1, <1>t DEF ParseStep, Parsed, Exit, session, OutputAt
  <2> QED BY <2>1 DEF OrderInv, Steps, Early, Late, InOrder, Pending, OutputAt
<1>2. CASE open_output
  <2>1. Quiet /\ step' \in Steps
    BY <1>2, <1>t DEF open_output, Exit, Unparsed, Quiet, Steps, Early, Late
  <2>2. OutputAt'
    BY <1>2, <1>t, <1>s, <2>1 DEF open_output, Exit, Unparsed, OutputAt
  <2> QED BY <2>1, <2>2, <1>q
<1>3. CASE prepare_seccomp_program
  <2>1. Quiet /\ step' \in Steps
    BY <1>3, <1>t DEF prepare_seccomp_program, Fails, Unparsed, Quiet, Steps, Early, Late
  <2>2. OutputAt'
    BY <1>3, <1>t, <1>s, <2>1 DEF prepare_seccomp_program, Fails, Unparsed, OutputAt
  <2> QED BY <2>1, <2>2, <1>q
<1>4. CASE launch_tracee
  <2>1. Quiet /\ step' \in Steps
    BY <1>4, <1>t DEF launch_tracee, Fails, Unparsed, Quiet, Steps, Early, Late
  <2>2. OutputAt'
    BY <1>4, <1>t, <1>s, <2>1 DEF launch_tracee, Fails, Unparsed, OutputAt
  <2> QED BY <2>1, <2>2, <1>q
<1>5. CASE AddRoot
  <2>1. Quiet /\ step' \in Steps
    BY <1>5, <1>t DEF AddRoot, Fails, Unparsed, Quiet, Steps, Early, Late
  <2>2. OutputAt'
    BY <1>5, <1>t, <1>s, <2>1 DEF AddRoot, Fails, Unparsed, OutputAt
  <2> QED BY <2>1, <2>2, <1>q
<1>6. CASE ChildStep
  <2>1. Quiet /\ step' \in Steps
    BY <1>6, <1>t DEF ChildStep, Quiet, Steps, Early, Late
  <2>2. OutputAt'
    BY <1>6, <1>t, <1>s, <2>1 DEF ChildStep, OutputAt
  <2> QED BY <2>1, <2>2, <1>q
<1>7. CASE wait_for_initial_stop
  <2>1. Quiet /\ step' \in Steps
    BY <1>7, <1>t DEF wait_for_initial_stop, Fails, Unparsed, Quiet, Steps, Early, Late
  <2>2. OutputAt'
    BY <1>7, <1>t, <1>s, <2>1 DEF wait_for_initial_stop, Fails, Unparsed, OutputAt
  <2> QED BY <2>1, <2>2, <1>q
<1>8. CASE install_ptrace_options
  <2>1. Quiet /\ step' \in Steps
    BY <1>8, <1>t DEF install_ptrace_options, Fails, Unparsed, Quiet, Steps, Early, Late
  <2>2. OutputAt'
    BY <1>8, <1>t, <1>s, <2>1 DEF install_ptrace_options, Fails, Unparsed, OutputAt
  <2> QED BY <2>1, <2>2, <1>q
<1>9. CASE prepare_attach
  <2>1. Quiet /\ step' \in Steps
    BY <1>9, <1>t DEF prepare_attach, Fails, Unparsed, Quiet, Steps, Early, Late
  <2>2. OutputAt'
    BY <1>9, <1>t, <1>s, <2>1 DEF prepare_attach, Fails, Unparsed, OutputAt
  <2> QED BY <2>1, <2>2, <1>q
<1>10. CASE install_shutdown_handlers
  <2>1. Quiet /\ step' \in Steps
    BY <1>10, <1>t DEF install_shutdown_handlers, Fails, Unparsed, Quiet, Steps, Early, Late
  <2>2. OutputAt'
    BY <1>10, <1>t, <1>s, <2>1 DEF install_shutdown_handlers, Fails, Unparsed, OutputAt
  <2> QED BY <2>1, <2>2, <1>q
<1>11. CASE LoopFails
  <2>1. Quiet /\ step' \in Steps
    BY <1>11, <1>t DEF LoopFails, InLoop, Fails, Unparsed, Quiet, Steps, Early, Late
  <2>2. OutputAt'
    BY <1>11, <1>t, <1>s, <2>1 DEF LoopFails, InLoop, Fails, Unparsed, OutputAt
  <2> QED BY <2>1, <2>2, <1>q
<1>12. CASE LoopEnds
  <2>1. Quiet /\ step' \in Steps
    BY <1>12, <1>t DEF LoopEnds, InLoop, Unparsed, Quiet, Steps, Early, Late
  <2>2. OutputAt'
    BY <1>12, <1>t, <1>s, <2>1 DEF LoopEnds, InLoop, Unparsed, OutputAt
  <2> QED BY <2>1, <2>2, <1>q
<1>13. CASE LoopShutdown
  <2>1. Quiet /\ step' \in Steps
    BY <1>13, <1>t DEF LoopShutdown, InLoop, Unparsed, Quiet, Steps, Early, Late
  <2>2. OutputAt'
    BY <1>13, <1>t, <1>s, <2>1 DEF LoopShutdown, InLoop, Unparsed, OutputAt
  <2> QED BY <2>1, <2>2, <1>q
<1>14. CASE CleanUp
  <2>1. Quiet /\ step' \in Steps
    BY <1>14, <1>t DEF CleanUp, Unparsed, Quiet, Steps, Early, Late
  <2>2. OutputAt'
    BY <1>14, <1>t, <1>s, <2>1 DEF CleanUp, Unparsed, OutputAt
  <2> QED BY <2>1, <2>2, <1>q
<1>15. CASE Restore
  <2>1. Quiet /\ step' \in Steps
    BY <1>15, <1>t DEF Restore, Unparsed, Quiet, Steps, Early, Late
  <2>2. OutputAt'
    BY <1>15, <1>t, <1>s, <2>1 DEF Restore, Unparsed, OutputAt
  <2> QED BY <2>1, <2>2, <1>q
<1>16. CASE write_benchmark_metrics
  <2>1. Quiet /\ step' \in Steps
    BY <1>16, <1>t DEF write_benchmark_metrics, Fails, Unparsed, Quiet, Steps, Early, Late
  <2>2. OutputAt'
    BY <1>16, <1>t, <1>s, <2>1 DEF write_benchmark_metrics, Fails, Unparsed, OutputAt
  <2> QED BY <2>1, <2>2, <1>q
<1>17. CASE Destroy
  <2>1. Quiet /\ step' \in Steps
    BY <1>17, <1>t DEF Destroy, Unparsed, Quiet, Steps, Early, Late
  <2>2. OutputAt'
    BY <1>17, <1>t, <1>s, <2>1 DEF Destroy, Unparsed, OutputAt
  <2> QED BY <2>1, <2>2, <1>q
<1>18. CASE Over \/ UNCHANGED vars
  <2>1. Quiet /\ step' = step /\ success' = success
    BY <1>18 DEF Over, vars, session, Quiet
  <2>2. OutputAt'
    BY <1>t, <1>s, <2>1 DEF OutputAt, Quiet
  <2> QED BY <2>1, <2>2, <1>q, <1>t
<1>19. ASSUME NEW s \in Signals, Signalled(s) PROVE OrderInv'
  <2>1. Quiet /\ step' \in {step, "killed"} /\ success' = success
    BY <1>19 DEF Signalled, Quiet
  <2>2. OutputAt'
    BY <1>t, <1>s, <2>1 DEF OutputAt, Quiet
  <2>3. step' \in Steps
    BY <2>1, <1>t DEF Steps
  <2> QED BY <2>1, <2>2, <2>3, <1>q
<1>20. CASE sg_output_init
  <2>0. step = "init" /\ lines = << >> /\ unsent = "none" /\ UNCHANGED config
    BY <1>20, <1>t DEF sg_output_init, OutputAt, Unparsed
  <2>m. HasMetadata' <=> HasMetadata
    BY <2>0 DEF HasMetadata
  <2>1. CASE HasMetadata /\ Written("metadata") /\ step' = "start"
    <3>1. lines' = <<[line |-> "metadata", whole |-> TRUE]>> /\ unsent' = "none"
      BY <2>0, <2>1 DEF Written
    <3> QED BY <2>0, <2>1, <2>m, <3>1
         DEF OrderInv, Steps, Early, Line, LineKinds, InOrder, Pending, OutputAt, Sound
  <2>2. CASE ~HasMetadata /\ UNCHANGED <<lines, unsent>> /\ step' = "start"
    BY <2>0, <2>2, <2>m DEF OrderInv, Steps, Early, InOrder, Pending, OutputAt, Sound
  <2>3. CASE HasMetadata /\ NotWritten("metadata") /\ Fails("abandon")
    <3>1. lines' \in {<< >>, <<[line |-> "metadata", whole |-> FALSE]>>}
          /\ unsent' \in {"none", "metadata"} /\ step' = "abandon" /\ ~success'
      BY <2>0, <2>3 DEF NotWritten, Fails
    <3>2. OutputAt'
      BY <3>1 DEF OutputAt
    <3>3. CASE lines' = << >>
      BY <2>0, <2>3, <2>m, <3>1, <3>2, <3>3
         DEF OrderInv, Steps, Early, LineKinds, InOrder, Pending
    <3>4. CASE lines' = <<[line |-> "metadata", whole |-> FALSE]>>
      <4>1. lines' \in Seq(Line) /\ Len(lines') = 1 /\ lines'[1].line = "metadata"
            /\ lines'[1].whole = FALSE
        BY <3>4 DEF Line, LineKinds
      <4> QED BY <2>0, <2>3, <2>m, <3>1, <3>2, <4>1
               DEF OrderInv, Steps, Early, LineKinds, InOrder, Pending
    <3> QED BY <3>1, <3>3, <3>4
  <2> QED BY <1>20, <2>1, <2>2, <2>3 DEF sg_output_init
<1>21. CASE LoopEvent
  <2>0. step = "loop" /\ step' = "loop" /\ UNCHANGED <<config, parse>> /\ Sound(lines, unsent)
    BY <1>21, <1>t DEF LoopEvent, InLoop, Unparsed, OutputAt
  <2>m. HasMetadata' <=> HasMetadata
    BY <2>0 DEF HasMetadata
  <2>1. CASE config.summary
    <3>1. Quiet
      BY <1>21, <2>0, <2>1 DEF LoopEvent, Quiet
    <3>2. OutputAt'
      BY <2>0, <3>1, <1>s DEF OutputAt
    <3> QED BY <2>0, <3>1, <3>2, <1>q DEF Steps
  <2>2. CASE ~config.summary
    <3> DEFINE l == Append(lines, [line |-> "event", whole |-> TRUE])
    <3>1. lines' = l /\ unsent' = "none"
      BY <1>21, <2>0, <2>2 DEF LoopEvent, Written, Sound
    <3>2. /\ l \in Seq(Line) /\ InOrder(l) /\ Len(l) = Len(lines) + 1
          /\ l[Len(l)] = [line |-> "event", whole |-> TRUE]
          /\ \A j \in 1..Len(lines) : l[j] = lines[j]
      BY <1>t, <2>0, <2>2, Appended DEF LineKinds
    <3> HIDE DEF l
    <3>3. l[Len(l)].whole /\ l[Len(l)].line = "event" /\ Len(lines) \in Nat
      BY <3>2, <1>t
    <3>4. Sound(l, "none")
      BY <3>2, <3>3, <2>0 DEF Sound
    <3>5. Sound(lines, unsent)'
      BY <3>1, <3>4, <2>0, <2>m DEF Sound
    <3>6. InOrder(lines)' /\ Pending(lines, unsent)'
      BY <3>1, <3>2, <2>0, <2>m DEF InOrder, Pending
    <3> QED BY <2>0, <3>1, <3>2, <3>5, <3>6 DEF OrderInv, OutputAt, Steps, LineKinds
  <2> QED BY <2>1, <2>2
<1>22. CASE LoopEventFails
  <2>0. step = "loop" /\ step' = "cleanup" /\ ~success' /\ UNCHANGED <<config, parse>>
        /\ Sound(lines, unsent)
    BY <1>22, <1>t DEF LoopEventFails, LoopGivesUp, Fails, InLoop, Unparsed, OutputAt
  <2>o. OutputAt'
    BY <2>0 DEF OutputAt
  <2>1. CASE config.summary
    <3>1. Quiet
      BY <1>22, <2>0, <2>1 DEF LoopEventFails, Quiet
    <3> QED BY <2>0, <2>o, <3>1, <1>q DEF Steps
  <2>2. CASE ~config.summary
    <3>1. NotWritten("event")
      BY <1>22, <2>2 DEF LoopEventFails
    <3>2. /\ lines' \in Seq(Line) /\ unsent' \in LineKinds \cup {"none"}
          /\ InOrder(lines)' /\ Pending(lines, unsent)'
      BY <1>t, <2>0, <2>2, <3>1, FailedLine DEF LineKinds
    <3> QED BY <2>0, <2>o, <3>2 DEF OrderInv, Steps
  <2> QED BY <2>1, <2>2
<1>23. CASE sg_output_write_summary
  <2>0. step = "summary" /\ UNCHANGED <<config, parse>> /\ (success => Sound(lines, unsent))
    BY <1>23, <1>t DEF sg_output_write_summary, Unparsed, OutputAt
  <2>m. HasMetadata' <=> HasMetadata
    BY <2>0 DEF HasMetadata
  <2>1. CASE success /\ config.summary /\ Written("summary") /\ step' = "metrics"
    <3>1. lines = << >> /\ unsent = "none"
      BY <1>t, <2>0, <2>1, NothingBefore DEF Sound
    <3>2. lines' = <<[line |-> "summary", whole |-> TRUE]>> /\ unsent' = "none"
      BY <2>1, <3>1 DEF Written
    <3>3. ~HasMetadata
      BY <2>1 DEF HasMetadata
    <3> QED BY <2>0, <2>1, <2>m, <3>2, <3>3
         DEF OrderInv, Steps, Late, Line, LineKinds, InOrder, Pending, OutputAt, Finished
  <2>2. CASE success /\ config.summary /\ NotWritten("summary") /\ Fails("destroy")
    <3>1. /\ lines' \in Seq(Line) /\ unsent' \in LineKinds \cup {"none"}
          /\ InOrder(lines)' /\ Pending(lines, unsent)'
      BY <1>t, <2>0, <2>2, FailedLine DEF LineKinds
    <3>2. step' = "destroy" /\ ~success'
      BY <2>2 DEF Fails
    <3> QED BY <3>1, <3>2 DEF OrderInv, Steps, Late, OutputAt
  <2>3. CASE ~(success /\ config.summary)
    <3>1. Quiet /\ success' = success /\ step' = IF success THEN "metrics" ELSE "destroy"
      BY <1>23, <2>0, <2>3 DEF sg_output_write_summary, Quiet
    <3>2. success => Finished(lines, unsent)
      BY <2>0, <2>3 DEF Sound, Finished
    <3>3. OutputAt'
      BY <3>1, <3>2, <1>s DEF OutputAt
    <3> QED BY <3>1, <3>3, <1>q DEF Steps, Late
  <2> QED BY <1>23, <2>1, <2>2, <2>3 DEF sg_output_write_summary
<1>24. CASE Abandon
  <2>1. /\ lines' \in {lines, Flushed} /\ unsent' = "none" /\ step' = "exit"
        /\ UNCHANGED <<config, success>>
    BY <1>24 DEF Abandon, Exit, Unparsed
  <2>m. (HasMetadata' <=> HasMetadata) /\ config' = config
    BY <2>1 DEF HasMetadata
  <2>2. lines' \in Seq(Line) /\ InOrder(lines')
    BY <1>t, <2>1, FlushInOrder
  <2>3. InOrder(lines)' /\ Pending(lines, unsent)'
    BY <2>1, <2>2, <2>m DEF InOrder, Pending
  <2>4. ~success
    BY <1>24, <1>t DEF Abandon, OutputAt
  <2> QED BY <2>1, <2>2, <2>3, <2>4 DEF OrderInv, Steps, Late, OutputAt
<1>25. CASE Close
  <2>0. step = "close" /\ step' = "exit" /\ unsent' = "none" /\ UNCHANGED <<config, parse>>
    BY <1>25 DEF Close, Exit, Unparsed
  <2>m. (HasMetadata' <=> HasMetadata) /\ config' = config
    BY <2>0 DEF HasMetadata
  <2>1. PICK failed \in BOOLEAN :
          /\ IF failed THEN \E k \in 0..Len(lines) : lines' = SubSeq(lines, 1, k)
             ELSE lines' = Flushed
          /\ success' = (success /\ ~failed)
    BY <1>25 DEF Close, SucceedsIfClosed
  <2>2. lines' \in Seq(Line) /\ InOrder(lines')
    BY <1>t, <2>1, FlushInOrder, PrefixInOrder
  <2>3. InOrder(lines)' /\ Pending(lines, unsent)'
    BY <2>0, <2>2, <2>m DEF InOrder, Pending
  <2>4. success' => Finished(lines, unsent)'
    <3> SUFFICES ASSUME success' PROVE Finished(lines, unsent)'
      OBVIOUS
    <3>1. Finished(lines, unsent) /\ ~failed
      BY <1>t, <2>0, <2>1 DEF OutputAt
    <3>2. lines' = lines
      BY <1>t, <2>1, <3>1, FlushInOrder DEF Finished
    <3> QED BY <2>0, <2>m, <3>1, <3>2 DEF Finished
  <2> QED BY <2>0, <2>2, <2>3, <2>4 DEF OrderInv, Steps, Late, OutputAt
<1> QED
  BY <1>1, <1>2, <1>3, <1>4, <1>5, <1>6, <1>7, <1>8, <1>9, <1>10, <1>11,
     <1>12, <1>13, <1>14, <1>15, <1>16, <1>17, <1>18, <1>19, <1>20, <1>21, <1>22, <1>23, <1>24, <1>25 DEF Next

(* What can be read of the output is at any time the beginning of a        *)
(* well-formed stream: the metadata first, the summary last, at most the   *)
(* last line cut short (write_buffer, sg_output_init and trace_loop's      *)
(* returns).                                                               *)
THEOREM KeepsOrder == Spec => []StreamInOrder
<1>1. OrderInv => StreamInOrder
  <2> SUFFICES ASSUME OrderInv PROVE StreamInOrder
    OBVIOUS
  <2>1. lines \in Seq(Line) /\ InOrder(lines)
    BY DEF OrderInv
  <2>2. DOMAIN lines = 1..Len(lines) /\ Len(lines) \in Nat
    BY <2>1
  <2>3. \A i \in 1..Len(lines) : Kinds[i] = lines[i].line /\ Kinds[1] = lines[1].line
    BY <2>2 DEF Kinds
  <2>4. \A i \in 1..Len(lines) :
          /\ lines[i].whole \/ i = Len(lines)
          /\ lines[i].line = "metadata" => i = 1 /\ HasMetadata
          /\ lines[i].line = "summary" => i = Len(lines) /\ config.summary
          /\ lines[i].line = "event" => ~config.summary
                                        /\ (HasMetadata => lines[1].line = "metadata")
    BY <2>1 DEF InOrder
  <2> QED BY <2>2, <2>3, <2>4, ZenonT(40) DEF StreamInOrder
<1> QED
  BY <1>1, OrderInit, OrderStep, PTL DEF Spec

(* A run that reports no failure has left a complete output: no error, not *)
(* even one that only fclose tells, is lost on the way to the exit status. *)
THEOREM SuccessMeansComplete == Spec => []OutputComplete
<1>1. OrderInv => OutputComplete
  <2> SUFFICES ASSUME OrderInv, step = "exit", success, parse.action = "run"
               PROVE  /\ unsent = "none" /\ \A i \in DOMAIN lines : lines[i].whole
                      /\ HasMetadata => lines # << >> /\ Kinds[1] = "metadata"
                      /\ config.summary => Kinds = <<"summary">>
    BY DEF OutputComplete
  <2>1. lines \in Seq(Line) /\ Finished(lines, unsent)
    BY DEF OrderInv, OutputAt
  <2>2. DOMAIN lines = 1..Len(lines) /\ Len(lines) \in Nat
    BY <2>1
  <2>3. config.summary => Kinds = <<"summary">>
    BY <2>1, <2>2 DEF Finished, Kinds
  <2> QED BY <2>1, <2>2, <2>3 DEF Finished, Kinds
<1> QED
  BY <1>1, OrderInit, OrderStep, PTL DEF Spec

-----------------------------------------------------------------------------
(* The command line.  Words before which there is nothing but options are  *)
(* found by getopt_long, by separator_index and by the grammar; all three  *)
(* are followed from word to word.                                         *)

(* Every non-empty set of naturals has a least element. *)
LEMMA LeastElement ==
  ASSUME NEW K \in SUBSET Nat, K # {}
  PROVE  \E m \in K : \A j \in K : m <= j
<1> DEFINE R == OpToRel(<, Nat)
<1>1. IsWellFoundedOn(R, Nat)
  BY NatLessThanWellFounded
<1>2. PICK m \in K : \A j \in K : <<j, m>> \notin R
  <2> HIDE DEF R
  <2> QED BY <1>1, WFMin
<1>3. \A j \in K : ~(j < m)
  BY <1>2 DEF OpToRel
<1> QED BY <1>3

(* What the grammar reaches, up to word n + 1. *)
Chain(R, argv, n) ==
  /\ R \subseteq 1..(n + 1) /\ 1 \in R
  /\ \A k \in 2..(n + 1) : k \in R <=> \E i \in R : i < k /\ IsOption(argv, i, k)

LEMMA ChainGrows ==
  ASSUME NEW argv, NEW n \in Nat \ {0}, NEW R, Chain(R, argv, n - 1)
  PROVE  Chain(R \cup {k \in {n + 1} : \E i \in R : IsOption(argv, i, k)}, argv, n)
<1> DEFINE Q == R \cup {k \in {n + 1} : \E i \in R : IsOption(argv, i, k)}
<1>0. /\ R \subseteq 1..n /\ 1 \in R /\ n + 1 \notin R
      /\ \A k \in 2..n : k \in R <=> \E i \in R : i < k /\ IsOption(argv, i, k)
  <2>1. (n - 1) + 1 = n
    OBVIOUS
  <2> QED BY <2>1 DEF Chain
<1>1. \A k : k \in Q <=> k \in R \/ (k = n + 1 /\ \E i \in R : IsOption(argv, i, n + 1))
  BY Zenon
<1> HIDE DEF Q
<1>2. Q \subseteq 1..(n + 1) /\ 1 \in Q
  <2>1. ASSUME NEW k \in Q PROVE k \in 1..(n + 1)
    <3>1. CASE k \in R
      BY <1>0, <3>1
    <3>2. CASE k = n + 1
      BY <3>2
    <3> QED BY <1>1, <3>1, <3>2
  <2>2. 1 \in Q
    BY <1>0, <1>1
  <2> QED BY <2>1, <2>2
<1>3. ASSUME NEW k \in 2..(n + 1)
      PROVE  k \in Q <=> \E i \in Q : i < k /\ IsOption(argv, i, k)
  <2>1. CASE k = n + 1
    <3>1. \A i \in Q : i < k <=> i \in R
      BY <1>0, <1>1, <1>2, <2>1
    <3> QED BY <1>0, <1>1, <2>1, <3>1
  <2>2. CASE k # n + 1
    <3>1. k \in 2..n
      BY <2>2
    <3>2. \A i \in Q : i < k => i \in R
      BY <1>0, <1>1, <3>1
    <3> QED BY <1>0, <1>1, <2>2, <3>1, <3>2
  <2> QED BY <2>1, <2>2
<1>4. Chain(Q, argv, n)
  BY <1>2, <1>3 DEF Chain
<1> QED BY <1>4 DEF Q

LEMMA ReachedIs ==
  ASSUME NEW argv, Len(argv) \in Nat
  PROVE  Chain(Reached(argv), argv, Len(argv))
<1> DEFINE N == Len(argv)
           X(u, j) == u \cup {k \in {j + 1} : \E i \in u : IsOption(argv, i, k)}
           F(f, m) == f = [j \in 0..m |-> IF j = 0 THEN {1}
                        ELSE f[j - 1] \cup {k \in {j + 1} : \E i \in f[j - 1] : IsOption(argv, i, k)}]
           Good(m) == \E f : F(f, m)
           Bad == {m \in 0..N : ~Good(m)}
           upto == CHOOSE f : f = [j \in 0..Len(argv) |-> IF j = 0 THEN {1}
                        ELSE f[j - 1] \cup {k \in {j + 1} : \E i \in f[j - 1] : IsOption(argv, i, k)}]
<1>0. N \in Nat
  OBVIOUS
<1>1. Bad = {}
  <2> SUFFICES ASSUME Bad # {} PROVE FALSE
    OBVIOUS
  <2>1. Bad \in SUBSET Nat
    <3>1. Bad \subseteq 0..N
      <4> HIDE DEF Good
      <4> QED OBVIOUS
    <3> HIDE DEF Bad
    <3> QED BY <1>0, <3>1
  <2>2. PICK m \in Bad : \A j \in Bad : m <= j
    <3> HIDE DEF Bad
    <3> QED BY <2>1, LeastElement
  <2>3. m \in 0..N /\ ~Good(m)
    OBVIOUS
  <2>4. CASE m = 0
    <3>1. F([j \in 0..0 |-> {1}], 0)
      OBVIOUS
    <3> QED BY <2>3, <2>4, <3>1
  <2>5. CASE m # 0
    <3>1. m \in Nat /\ m - 1 \in 0..N /\ ~(m <= m - 1)
      BY <1>0, <2>3, <2>5
    <3>2. m - 1 \notin Bad
      <4> HIDE DEF Bad
      <4> QED BY <2>2, <3>1
    <3>3. PICK h : F(h, m - 1)
      BY <3>1, <3>2
    <3> DEFINE g == [j \in 0..m |-> IF j = m THEN X(h[m - 1], m) ELSE h[j]]
    <3>4. \A j \in 0..(m - 1) : h[j] = IF j = 0 THEN {1} ELSE X(h[j - 1], j)
      BY <3>3
    <3>5. \A j \in 0..m : g[j] = IF j = 0 THEN {1} ELSE X(g[j - 1], j)
      <4> HIDE DEF X
      <4> SUFFICES ASSUME NEW j \in 0..m
                   PROVE  g[j] = IF j = 0 THEN {1} ELSE X(g[j - 1], j)
        OBVIOUS
      <4>1. CASE j = m
        <5>1. g[m] = X(h[m - 1], m) /\ g[m - 1] = h[m - 1]
          <6>1. m \in 0..m /\ m - 1 \in 0..m /\ m - 1 # m
            BY <3>1, <2>5
          <6> HIDE DEF F
          <6> QED BY <6>1
        <5> QED BY <2>5, <4>1, <5>1
      <4>2. CASE j # m
        <5>1. j \in 0..(m - 1) /\ g[j] = h[j] /\ (j # 0 => g[j - 1] = h[j - 1])
          BY <3>1, <4>2
        <5>2. h[j] = IF j = 0 THEN {1} ELSE X(h[j - 1], j)
          BY <3>4, <5>1
        <5> HIDE DEF g
        <5>3. CASE j = 0
          BY <5>1, <5>2, <5>3
        <5>4. CASE j # 0
          <6>1. g[j - 1] = h[j - 1] /\ g[j] = h[j]
            BY <5>1, <5>4
          <6> QED BY Zenon, <5>2, <5>4, <6>1
        <5> QED BY <5>3, <5>4
      <4> QED BY <4>1, <4>2
    <3>6. F(g, m)
      BY <3>5
    <3> QED BY <2>3, <3>6
  <2> QED BY <2>4, <2>5
<1>2. F(upto, N)
  <2>0. N \in 0..N
    BY <1>0
  <2>1. Good(N)
    <3> HIDE DEF Good, N
    <3> QED BY <1>1, <2>0
  <2> QED BY Zenon, <2>1
<1>3. Reached(argv) = upto[Len(argv)]
  BY Zenon DEF Reached
<1> HIDE DEF upto
<1>4. \A j \in 0..N : upto[j] = IF j = 0 THEN {1} ELSE X(upto[j - 1], j)
  BY <1>2
<1> DEFINE Off == {j \in 0..N : ~Chain(upto[j], argv, j)}
<1>5. Off = {}
  <2> SUFFICES ASSUME Off # {} PROVE FALSE
    OBVIOUS
  <2>1. Off \in SUBSET Nat
    BY <1>0
  <2>2. PICK m \in Off : \A j \in Off : m <= j
    <3> HIDE DEF Off
    <3> QED BY <2>1, LeastElement
  <2>3. m \in 0..N /\ ~Chain(upto[m], argv, m)
    OBVIOUS
  <2>4. CASE m = 0
    <3>1. upto[0] = {1}
      <4>1. 0 \in 0..N
        BY <1>0
      <4> HIDE DEF X, Off
      <4> QED BY <1>4, <4>1
    <3>2. Chain({1}, argv, 0)
      <4>1. {1} \subseteq 1..(0 + 1) /\ 2..(0 + 1) = {}
        OBVIOUS
      <4> QED BY <4>1 DEF Chain
    <3> QED BY <2>3, <2>4, <3>1, <3>2
  <2>5. CASE m # 0
    <3>1. m \in Nat /\ m \in Nat \ {0} /\ m - 1 \in 0..N /\ ~(m <= m - 1)
      BY <1>0, <2>3, <2>5
    <3>2. m - 1 \notin Off
      <4> HIDE DEF Off
      <4> QED BY <2>2, <3>1
    <3>3. Chain(upto[m - 1], argv, m - 1)
      BY <3>1, <3>2
    <3>4. upto[m] = X(upto[m - 1], m)
      <4> HIDE DEF X, Off
      <4> QED BY <1>4, <2>3, <2>5
    <3> DEFINE R == upto[m - 1]
    <3>5. Chain(R, argv, m - 1)
      BY <3>3
    <3> HIDE DEF R
    <3>6. Chain(R \cup {k \in {m + 1} : \E i \in R : IsOption(argv, i, k)}, argv, m)
      BY <3>1, <3>5, ChainGrows
    <3>7. upto[m] = R \cup {k \in {m + 1} : \E i \in R : IsOption(argv, i, k)}
      BY <3>4 DEF R
    <3> QED BY Zenon, <2>3, <3>6, <3>7
  <2> QED BY <2>4, <2>5
<1>6. Chain(upto[Len(argv)], argv, Len(argv))
  BY <1>0, <1>5
<1> QED
  BY <1>3, <1>6

-----------------------------------------------------------------------------
(* separator_index goes on from a word it passes over. *)
PassedTo(argv, i) == IF Skips(argv[i]) THEN i + 2 ELSE i + 1

SeparatorAt(f, argv, i) ==
  IF i > Len(argv) THEN 0
  ELSE IF argv[i].form = "--" THEN i
  ELSE IF argv[i].form = "word" THEN 0
  ELSE f[PassedTo(argv, i)]

Separates(f, argv, k) == \A i \in k..(Len(argv) + 2) : f[i] = SeparatorAt(f, argv, i)

LEMMA SeparatorAgrees ==
  ASSUME NEW argv, NEW i \in Nat, NEW f, NEW g, Len(argv) \in Nat,
         \A j \in (i + 1)..(Len(argv) + 2) : f[j] = g[j]
  PROVE  SeparatorAt(f, argv, i) = SeparatorAt(g, argv, i)
<1>1. CASE i > Len(argv)
  BY <1>1 DEF SeparatorAt
<1>2. CASE i <= Len(argv)
  <2>1. PassedTo(argv, i) \in {i + 1, i + 2}
    BY DEF PassedTo
  <2>2. PassedTo(argv, i) \in (i + 1)..(Len(argv) + 2)
    BY <1>2, <2>1
  <2>3. f[PassedTo(argv, i)] = g[PassedTo(argv, i)]
    BY <2>2
  <2> QED BY Zenon, <2>3 DEF SeparatorAt
<1> QED BY <1>1, <1>2

LEMMA SeparatorFrom ==
  ASSUME NEW argv, Len(argv) \in Nat
  PROVE  \E f : Separates(f, argv, 1)
<1> DEFINE N == Len(argv)
           Good(k) == \E f : Separates(f, argv, N + 2 - k)
           Bad == {k \in 0..(N + 1) : ~Good(k)}
<1>0. N \in Nat
  OBVIOUS
<1>1. Bad = {}
  <2> SUFFICES ASSUME Bad # {} PROVE FALSE
    OBVIOUS
  <2>1. Bad \in SUBSET Nat
    <3>1. Bad \subseteq 0..(N + 1)
      <4> HIDE DEF Good
      <4> QED OBVIOUS
    <3> HIDE DEF Bad
    <3> QED BY <1>0, <3>1
  <2>2. PICK m \in Bad : \A j \in Bad : m <= j
    <3> HIDE DEF Bad
    <3> QED BY <2>1, LeastElement
  <2>3. m \in 0..(N + 1) /\ ~Good(m)
    <3> HIDE DEF Good
    <3> QED OBVIOUS
  <2> DEFINE x == N + 2 - m
  <2>4. x \in Nat /\ x \in 1..(N + 2)
    BY <1>0, <2>3
  <2>5. \E f : \A i \in (x + 1)..(N + 2) : f[i] = SeparatorAt(f, argv, i)
    <3>1. CASE m = 0
      <4>1. (x + 1)..(N + 2) = {}
        BY <1>0, <3>1
      <4> QED BY <4>1
    <3>2. CASE m # 0
      <4>1. m - 1 \in 0..(N + 1) /\ ~(m <= m - 1) /\ N + 2 - (m - 1) = x + 1
        BY <1>0, <2>3, <3>2
      <4>2. m - 1 \notin Bad
        <5> HIDE DEF Bad
        <5> QED BY <2>2, <4>1
      <4>3. Good(m - 1)
        <5> HIDE DEF Good
        <5> QED BY <4>1, <4>2
      <4>4. PICK f : Separates(f, argv, N + 2 - (m - 1))
        BY <4>3
      <4> HIDE DEF x
      <4>5. Separates(f, argv, x + 1)
        BY Zenon, <4>1, <4>4
      <4> QED BY <4>5 DEF Separates
    <3> QED BY <3>1, <3>2
  <2>6. PICK f : \A i \in (x + 1)..(N + 2) : f[i] = SeparatorAt(f, argv, i)
    BY <2>5
  <2> HIDE DEF Good, Bad
  <2> DEFINE g == [i \in x..(N + 2) |-> IF i = x THEN SeparatorAt(f, argv, x) ELSE f[i]]
  <2>7. /\ g[x] = SeparatorAt(f, argv, x)
        /\ \A i \in (x + 1)..(N + 2) : g[i] = f[i] /\ f[i] = g[i]
    <3> HIDE DEF x
    <3>1. x \in x..(N + 2)
      BY <1>0, <2>4
    <3>2. \A i \in (x + 1)..(N + 2) : i \in x..(N + 2) /\ i # x
      BY <1>0, <2>4
    <3> QED BY <3>1, <3>2
  <2> HIDE DEF g, x
  <2>8. ASSUME NEW i \in x..(N + 2) PROVE g[i] = SeparatorAt(g, argv, i)
    <3>1. i \in Nat /\ \A j \in (i + 1)..(Len(argv) + 2) : j \in (x + 1)..(N + 2)
      BY <1>0, <2>4
    <3>2. SeparatorAt(f, argv, i) = SeparatorAt(g, argv, i)
      BY <2>7, <3>1, SeparatorAgrees
    <3>3. CASE i = x
      BY <2>7, <3>2, <3>3
    <3>4. CASE i # x
      <4>1. i \in (x + 1)..(N + 2)
        BY <1>0, <2>4, <3>4
      <4> QED BY <2>6, <2>7, <3>2, <4>1
    <3> QED BY <3>3, <3>4
  <2>9. Separates(g, argv, N + 2 - m)
    BY <2>8 DEF Separates, x
  <2> QED BY <2>3, <2>9 DEF Good
<1>2. Good(N + 1)
  <2> HIDE DEF Good
  <2> QED BY <1>0, <1>1
<1>3. PICK f : Separates(f, argv, N + 2 - (N + 1))
  BY <1>2
<1>4. N + 2 - (N + 1) = 1
  BY <1>0
<1>5. Separates(f, argv, 1)
  BY Zenon, <1>3, <1>4
<1> QED BY <1>5

LEMMA SeparatorIs ==
  ASSUME NEW argv, Len(argv) \in Nat
  PROVE  \E f : Separates(f, argv, 1) /\ separator_index(argv) = f[1]
<1> DEFINE N == Len(argv)
           F(f) == f = [i \in 1..(Len(argv) + 2) |->
                          IF i > Len(argv) THEN 0
                          ELSE IF argv[i].form = "--" THEN i
                          ELSE IF argv[i].form = "word" THEN 0
                          ELSE f[IF Skips(argv[i]) THEN i + 2 ELSE i + 1]]
           from == CHOOSE f : f = [i \in 1..(Len(argv) + 2) |->
                          IF i > Len(argv) THEN 0
                          ELSE IF argv[i].form = "--" THEN i
                          ELSE IF argv[i].form = "word" THEN 0
                          ELSE f[IF Skips(argv[i]) THEN i + 2 ELSE i + 1]]
<1>1. PICK h : Separates(h, argv, 1)
  BY SeparatorFrom
<1> DEFINE g == [i \in 1..(Len(argv) + 2) |-> h[i]]
<1>2. \A i \in 1..(Len(argv) + 2) : g[i] = h[i] /\ h[i] = g[i]
  OBVIOUS
<1> HIDE DEF g
<1>3. ASSUME NEW i \in 1..(Len(argv) + 2) PROVE g[i] = SeparatorAt(g, argv, i)
  <2>1. i \in Nat /\ \A j \in (i + 1)..(Len(argv) + 2) : j \in 1..(Len(argv) + 2)
    OBVIOUS
  <2>2. SeparatorAt(h, argv, i) = SeparatorAt(g, argv, i)
    BY <1>2, <2>1, SeparatorAgrees
  <2> QED BY <1>1, <1>2, <2>2 DEF Separates
<1>4. F(g)
  <2>1. g = [i \in 1..(Len(argv) + 2) |-> SeparatorAt(g, argv, i)]
    BY <1>3 DEF g
  <2> QED BY Zenon, <2>1 DEF SeparatorAt, PassedTo
<1>5. F(from)
  BY Zenon, <1>4
<1>6. separator_index(argv) = from[1]
  BY Zenon DEF separator_index
<1> HIDE DEF from
<1>7. Separates(from, argv, 1)
  <2>1. from = [i \in 1..(Len(argv) + 2) |-> SeparatorAt(from, argv, i)]
    BY Zenon, <1>5 DEF SeparatorAt, PassedTo
  <2> DEFINE S(i) == SeparatorAt(from, argv, i)
  <2>2. from = [i \in 1..(Len(argv) + 2) |-> S(i)]
    BY <2>1
  <2> HIDE DEF S, F
  <2>3. \A i \in 1..(Len(argv) + 2) : from[i] = S(i)
    BY <2>2
  <2> QED BY <2>3 DEF Separates, S
<1> QED BY <1>6, <1>7

(* The separator is a "--", never before the word the search is at. *)
LEMMA SeparatorBeyond ==
  ASSUME NEW argv, Len(argv) \in Nat, NEW f, Separates(f, argv, 1), NEW i \in 1..(Len(argv) + 2)
  PROVE  /\ f[i] \in Nat
         /\ f[i] = 0 \/ (f[i] >= i /\ f[i] <= Len(argv) /\ argv[f[i]].form = "--")
<1> DEFINE N == Len(argv)
           Right(j) == /\ f[j] \in Nat
                       /\ f[j] = 0 \/ (f[j] >= j /\ f[j] <= Len(argv) /\ argv[f[j]].form = "--")
           Off == {k \in 0..(N + 1) : ~Right(N + 2 - k)}
<1>0. N \in Nat
  OBVIOUS
<1>1. Off = {}
  <2> SUFFICES ASSUME Off # {} PROVE FALSE
    OBVIOUS
  <2>1. Off \in SUBSET Nat
    <3>1. Off \subseteq 0..(N + 1)
      <4> HIDE DEF Right
      <4> QED OBVIOUS
    <3> HIDE DEF Off
    <3> QED BY <1>0, <3>1
  <2>2. PICK m \in Off : \A j \in Off : m <= j
    <3> HIDE DEF Off
    <3> QED BY <2>1, LeastElement
  <2> DEFINE x == N + 2 - m
  <2>3. m \in 0..(N + 1) /\ ~Right(x)
    <3> HIDE DEF Right
    <3> QED OBVIOUS
  <2>4. x \in 1..(N + 2) /\ x \in Nat /\ m = N + 2 - x
    BY <1>0, <2>3
  <2>5. f[x] = SeparatorAt(f, argv, x)
    BY <2>4 DEF Separates
  <2>6. ASSUME NEW y \in (x + 1)..(N + 2) PROVE Right(y)
    <3>1. N + 2 - y \in 0..(N + 1) /\ ~(m <= N + 2 - y) /\ N + 2 - (N + 2 - y) = y
      BY <1>0, <2>3, <2>4, SMTT(30)
    <3>2. N + 2 - y \notin Off
      <4> HIDE DEF Off
      <4> QED BY <2>2, <3>1
    <3>3. Right(N + 2 - (N + 2 - y))
      <4> HIDE DEF Right
      <4> QED BY <3>1, <3>2
    <3> HIDE DEF Right
    <3> QED BY Zenon, <3>1, <3>3
  <2> HIDE DEF Off, x
  <2>7. CASE x > Len(argv)
    BY <2>3, <2>5, <2>7 DEF SeparatorAt
  <2>8. CASE x <= Len(argv)
    <3>1. PassedTo(argv, x) \in {x + 1, x + 2}
      BY DEF PassedTo
    <3>2. PassedTo(argv, x) \in (x + 1)..(N + 2) /\ PassedTo(argv, x) >= x /\ PassedTo(argv, x) \in Nat
      BY <1>0, <2>4, <2>8, <3>1
    <3>3. Right(PassedTo(argv, x))
      <4> HIDE DEF Right
      <4> QED BY <2>6, <3>2
    <3>4. \/ f[x] = 0
          \/ f[x] = x /\ argv[x].form = "--"
          \/ f[x] = f[PassedTo(argv, x)]
      BY <2>5 DEF SeparatorAt
    <3> DEFINE y == f[PassedTo(argv, x)]
    <3>5. y \in Nat /\ (y = 0 \/ (y >= x /\ y <= Len(argv) /\ argv[y].form = "--"))
      BY <2>4, <3>2, <3>3
    <3> HIDE DEF y
    <3>6. CASE f[x] = y
      BY <2>3, <3>5, <3>6
    <3>7. CASE f[x] = 0 \/ (f[x] = x /\ argv[x].form = "--")
      BY <2>3, <2>4, <2>8, <3>7
    <3> QED BY <3>4, <3>6, <3>7 DEF y
  <2> QED BY <1>0, <2>4, <2>7, <2>8
<1>2. N + 2 - i \in 0..(N + 1) /\ N + 2 - (N + 2 - i) = i
  BY <1>0
<1>3. Right(N + 2 - (N + 2 - i))
  <2> HIDE DEF Right
  <2> QED BY <1>1, <1>2
<1>4. Right(i)
  <2> HIDE DEF Right
  <2> QED BY Zenon, <1>2, <1>3
<1> QED BY <1>4

-----------------------------------------------------------------------------
(* Every word the grammar reaches before word o begins an option that ends *)
(* at or before it.                                                        *)
Progress(argv, o) ==
  /\ o \in Reached(argv)
  /\ \A i \in Reached(argv) : i < o =>
       /\ argv[i].form \in OptionForms
       /\ \E j \in Nat : j <= o /\ IsOption(argv, i, j)

LEMMA OptionShape ==
  ASSUME NEW argv, NEW i \in Nat, NEW j, IsOption(argv, i, j)
  PROVE  /\ j \in {i + 1, i + 2} /\ argv[i].form \in OptionForms
         /\ \A k : IsOption(argv, i, k) => k = j
<1> DEFINE name == Final(argv[i])
           text == argv[i].text
           by == IF ~TakesValue(name) THEN 1 ELSE IF text # NoText THEN 1 ELSE 2
<1>1. ASSUME NEW k, IsOption(argv, i, k)
      PROVE  k = i + by /\ argv[i].form \in OptionForms
  BY <1>1 DEF IsOption
<1>2. by \in {1, 2}
  OBVIOUS
<1> HIDE DEF by
<1> QED BY <1>1, <1>2

LEMMA ProgressStart ==
  ASSUME NEW argv, Len(argv) \in Nat
  PROVE  Progress(argv, 1) /\ \A name : Given(argv, name, 1) = {}
<1>1. Chain(Reached(argv), argv, Len(argv))
  BY ReachedIs
<1>2. 1 \in Reached(argv) /\ \A i \in Reached(argv) : ~(i < 1)
  BY <1>1 DEF Chain
<1> QED BY <1>2 DEF Progress, Given

(* The option at o is taken: n is the next word. *)
LEMMA ProgressStep ==
  ASSUME NEW argv, Len(argv) \in Nat, NEW o, Progress(argv, o),
         NEW n \in 1..(Len(argv) + 1), IsOption(argv, o, n)
  PROVE  /\ Progress(argv, n) /\ o \in Nat /\ o < n
         /\ \A i \in Reached(argv) : i < n <=> i < o \/ i = o
<1> DEFINE R == Reached(argv)
           N == Len(argv)
<1>1. Chain(R, argv, N)
  BY ReachedIs
<1> HIDE DEF R
<1>2. /\ R \subseteq 1..(N + 1) /\ 1 \in R
      /\ \A k \in 2..(N + 1) : k \in R <=> \E i \in R : i < k /\ IsOption(argv, i, k)
  BY <1>1 DEF Chain
<1>3. /\ o \in R
      /\ \A i \in R : i < o => /\ argv[i].form \in OptionForms
                               /\ \E j \in Nat : j <= o /\ IsOption(argv, i, j)
  BY DEF Progress, R
<1>4. o \in Nat /\ o >= 1
  BY <1>2, <1>3
<1>5. /\ n \in {o + 1, o + 2} /\ argv[o].form \in OptionForms
      /\ \A k : IsOption(argv, o, k) => k = n
  BY <1>4, OptionShape
<1>6. n \in 2..(N + 1) /\ o < n
  BY <1>4, <1>5
<1>7. n \in R
  BY <1>2, <1>3, <1>6
<1>8. ASSUME NEW i \in R, i < n PROVE i < o \/ i = o
  <2> SUFFICES ASSUME ~(i < o), i # o PROVE FALSE
    OBVIOUS
  <2>1. i \in Nat /\ i = o + 1 /\ n = o + 2 /\ i \in 2..(N + 1)
    BY <1>2, <1>4, <1>5, <1>8
  <2>2. PICK k \in R : k < i /\ IsOption(argv, k, i)
    BY <1>2, <2>1
  <2>3. k \in Nat
    BY <1>2
  <2>4. CASE k = o
    <3>1. i = n
      BY <1>5, <2>2, <2>4
    <3> QED BY <1>4, <2>1, <3>1
  <2>5. CASE k < o
    <3>1. PICK j \in Nat : j <= o /\ IsOption(argv, k, j)
      BY <1>3, <2>5
    <3>2. j = i
      <4>1. \A m : IsOption(argv, k, m) => m = j
        BY <2>3, <3>1, OptionShape
      <4> QED BY <2>2, <4>1
    <3> QED BY <1>4, <2>1, <3>1, <3>2
  <2> QED BY <1>4, <2>1, <2>2, <2>3, <2>4, <2>5
<1>9. \A i \in R : i < n <=> i < o \/ i = o
  <2>1. \A i \in R : i \in Int
    BY <1>2
  <2> QED BY <1>4, <1>6, <1>8, <2>1
<1>10. ASSUME NEW i \in R, i < n
       PROVE  /\ argv[i].form \in OptionForms
              /\ \E j \in Nat : j <= n /\ IsOption(argv, i, j)
  <2>1. CASE i = o
    <3>1. n \in Nat /\ n <= n
      BY <1>4, <1>5
    <3> QED BY <1>5, <2>1, <3>1
  <2>2. CASE i < o
    <3>1. PICK j \in Nat : j <= o /\ IsOption(argv, i, j)
      BY <1>3, <2>2
    <3>2. j <= n
      BY <1>4, <1>6, <3>1
    <3> QED BY <1>3, <2>2, <3>1, <3>2
  <2> QED BY <1>9, <1>10, <2>1, <2>2
<1>11. Progress(argv, n)
  BY <1>7, <1>10 DEF Progress, R
<1> QED BY <1>4, <1>6, <1>9, <1>11 DEF R

(* Behind a word that begins no option nothing is reached. *)
LEMMA ProgressEnd ==
  ASSUME NEW argv, Len(argv) \in Nat, NEW o, Progress(argv, o),
         \A k \in 1..(Len(argv) + 1) : ~IsOption(argv, o, k)
  PROVE  \A i \in Reached(argv) : i <= o
<1> DEFINE R == Reached(argv)
           N == Len(argv)
           Off == {i \in R : ~(i <= o)}
<1>1. Chain(R, argv, N)
  BY ReachedIs
<1> HIDE DEF R
<1>2. /\ R \subseteq 1..(N + 1) /\ 1 \in R
      /\ \A k \in 2..(N + 1) : k \in R <=> \E i \in R : i < k /\ IsOption(argv, i, k)
  BY <1>1 DEF Chain
<1>3. /\ o \in R /\ o \in Nat /\ o >= 1
      /\ \A i \in R : i < o => \E j \in Nat : j <= o /\ IsOption(argv, i, j)
  BY <1>2 DEF Progress, R
<1>4. Off = {}
  <2> SUFFICES ASSUME Off # {} PROVE FALSE
    OBVIOUS
  <2>1. Off \in SUBSET Nat
    <3>1. Off \subseteq R /\ 1..(N + 1) \subseteq Nat
      OBVIOUS
    <3> HIDE DEF Off, N
    <3> QED BY <1>2, <3>1
  <2>2. PICK m \in Off : \A j \in Off : m <= j
    <3> HIDE DEF Off
    <3> QED BY <2>1, LeastElement
  <2>3. m \in R /\ ~(m <= o) /\ m \in 2..(N + 1) /\ m \in Nat
    BY <1>2, <1>3
  <2>4. PICK k \in R : k < m /\ IsOption(argv, k, m)
    BY <1>2, <2>3
  <2>5. k \in Nat
    BY <1>2
  <2>6. k <= o
    <3>1. k \notin Off
      <4> HIDE DEF Off
      <4> QED BY <2>2, <2>3, <2>4, <2>5
    <3> QED BY <3>1
  <2>7. CASE k = o
    BY <2>3, <2>4, <2>7
  <2>8. CASE k < o
    <3>1. PICK j \in Nat : j <= o /\ IsOption(argv, k, j)
      BY <1>3, <2>8
    <3>2. j = m
      <4>1. \A x : IsOption(argv, k, x) => x = j
        BY <2>5, <3>1, OptionShape
      <4> QED BY <2>4, <4>1
    <3> QED BY <2>3, <3>1, <3>2
  <2> QED BY <1>3, <2>5, <2>6, <2>7, <2>8
<1> QED BY <1>4 DEF R

-----------------------------------------------------------------------------
LEMMA ReachedNumbers ==
  ASSUME NEW argv, Len(argv) \in Nat
  PROVE  Reached(argv) \subseteq 1..(Len(argv) + 1)
<1>1. Chain(Reached(argv), argv, Len(argv))
  BY ReachedIs
<1> QED BY <1>1 DEF Chain

LEMMA GivenNumbers ==
  ASSUME NEW argv, Len(argv) \in Nat, NEW name, NEW k
  PROVE  /\ IsFiniteSet(Given(argv, name, k)) /\ Given(argv, name, k) \subseteq 1..(Len(argv) + 1)
         /\ \A i \in Given(argv, name, k) : i < k
<1>1. Given(argv, name, k) \subseteq 1..(Len(argv) + 1) /\ \A i \in Given(argv, name, k) : i < k
  BY ReachedNumbers DEF Given
<1>2. IsFiniteSet(1..(Len(argv) + 1))
  BY FS_Interval
<1> QED BY <1>1, <1>2, FS_Subset

Single(S) == \A i, j \in S : i = j

LEMMA SingleIs ==
  ASSUME NEW S, IsFiniteSet(S)
  PROVE  Cardinality(S) <= 1 <=> Single(S)
<1>1. CASE S = {}
  <2>1. Cardinality(S) = 0
    BY <1>1, FS_EmptySet
  <2> QED BY <1>1, <2>1 DEF Single
<1>2. ASSUME S # {} PROVE Cardinality(S) <= 1 <=> Single(S)
  <2>1. PICK x : x \in S
    BY <1>2
  <2>2. IsFiniteSet({x}) /\ Cardinality({x}) = 1
    BY FS_Singleton
  <2>3. IsFiniteSet(S) /\ {x} \subseteq S
    BY <2>1
  <2>4. Cardinality(S) \in Nat
    BY FS_CardinalityType
  <2>5. ASSUME Single(S) PROVE Cardinality(S) <= 1
    <3>1. S = {x}
      BY <2>1, <2>5 DEF Single
    <3> QED BY <2>2, <3>1
  <2>6. ASSUME Cardinality(S) <= 1 PROVE Single(S)
    <3>1. Cardinality({x}) <= Cardinality(S)
      BY <2>3, FS_Subset
    <3>2. Cardinality({x}) = Cardinality(S)
      BY <2>2, <2>4, <2>6, <3>1
    <3>3. S = {x}
      BY <2>3, <3>2, FS_Subset
    <3> QED BY <3>3 DEF Single
  <2> QED BY <2>5, <2>6
<1> QED BY <1>1, <1>2

(* The option at o is added to what has been given. *)
Has(w, name) == \E q \in 1..Len(w.letters) : w.letters[q] = name

LEMMA GivenStep ==
  ASSUME NEW argv, Len(argv) \in Nat, NEW o, Progress(argv, o),
         NEW n \in 1..(Len(argv) + 1), IsOption(argv, o, n), NEW name
  PROVE  Given(argv, name, n) =
           Given(argv, name, o) \cup (IF Has(argv[o], name) THEN {o} ELSE {})
<1>1. \A i \in Reached(argv) : i < n <=> i < o \/ i = o
  BY ProgressStep
<1>2. o \in Reached(argv)
  BY DEF Progress
<1> QED BY <1>1, <1>2 DEF Given, Has

LEMMA LatestIs ==
  ASSUME NEW F, F \subseteq Nat, NEW o \in Nat, \A i \in F : i < o
  PROVE  Latest(F \cup {o}) = o
<1> DEFINE G == F \cup {o}
<1>1. o \in G /\ (\A j \in G : j <= o) /\ G \subseteq Nat
  OBVIOUS
<1> HIDE DEF G
<1>2. \A i \in G : (\A j \in G : j <= i) => i = o
  BY <1>1
<1>3. Latest(G) \in G /\ \A j \in G : j <= Latest(G)
  BY <1>1 DEF Latest
<1>4. Latest(G) = o
  BY <1>2, <1>3
<1> QED BY <1>4 DEF G

(* The format is the one asked for last. *)
LEMMA FormatStep ==
  ASSUME NEW argv, Len(argv) \in Nat, NEW o, Progress(argv, o),
         NEW n \in 1..(Len(argv) + 1), IsOption(argv, o, n)
  PROVE  FormatBefore(argv, n) =
           IF Has(argv[o], "format") THEN ValueAt(argv, o) ELSE FormatBefore(argv, o)
<1> DEFINE F == Given(argv, "format", o)
           G == Given(argv, "format", n)
<1>1. G = F \cup (IF Has(argv[o], "format") THEN {o} ELSE {})
  BY GivenStep
<1>2. F \subseteq 1..(Len(argv) + 1) /\ \A i \in F : i < o
  BY GivenNumbers
<1>3. o \in Nat
  BY ReachedNumbers DEF Progress
<1>4. /\ FormatBefore(argv, n) = IF G = {} THEN "text" ELSE ValueAt(argv, Latest(G))
      /\ FormatBefore(argv, o) = IF F = {} THEN "text" ELSE ValueAt(argv, Latest(F))
  BY DEF FormatBefore
<1> HIDE DEF F, G
<1>5. CASE Has(argv[o], "format")
  <2>1. G = F \cup {o} /\ F \subseteq Nat /\ G # {}
    BY <1>1, <1>2, <1>5
  <2>2. Latest(G) = o
    BY <1>2, <1>3, <2>1, LatestIs
  <2> QED BY <1>4, <1>5, <2>1, <2>2
<1>6. CASE ~Has(argv[o], "format")
  BY <1>1, <1>4, <1>6
<1> QED BY <1>5, <1>6

-----------------------------------------------------------------------------
(* A line of the grammar has its options end at word k. *)
Ends(argv, k) == k \in Reached(argv) /\ (k \in Separators(argv) \/ k = Len(argv) + 1)

LEMMA LineEnds ==
  ASSUME NEW argv, LaunchLine(argv) \/ AttachLine(argv)
  PROVE  \E k : Ends(argv, k) /\ Consistent(argv, k)
BY DEF LaunchLine, AttachLine, Ends, Separators

LEMMA EndNotBefore ==
  ASSUME NEW argv, Len(argv) \in Nat, NEW o, Progress(argv, o), NEW k, Ends(argv, k)
  PROVE  o \in Nat /\ k \in Nat /\ k >= o
<1>1. o \in 1..(Len(argv) + 1) /\ k \in 1..(Len(argv) + 1)
  BY ReachedNumbers DEF Progress, Ends
<1>2. CASE k = Len(argv) + 1
  BY <1>1, <1>2
<1>3. CASE k \in Separators(argv)
  <2>1. argv[k].form = "--" /\ k \in Reached(argv)
    BY <1>3 DEF Separators
  <2>2. ~(k < o)
    BY <2>1 DEF Progress, OptionForms
  <2> QED BY <1>1, <2>2
<1> QED BY <1>2, <1>3 DEF Ends

(* An option that is none of the grammar's, or comes twice, is in no line. *)
LEMMA NoLine ==
  ASSUME NEW argv, Len(argv) \in Nat, NEW o, Progress(argv, o),
         o <= Len(argv), argv[o].form # "--",
         \/ \A k \in 1..(Len(argv) + 1) : ~IsOption(argv, o, k)
         \/ \E name \in {"p", "e"} : Has(argv[o], name) /\ Given(argv, name, o) # {}
  PROVE  ~(LaunchLine(argv) \/ AttachLine(argv))
<1> SUFFICES ASSUME LaunchLine(argv) \/ AttachLine(argv) PROVE FALSE
  OBVIOUS
<1>1. PICK k : Ends(argv, k) /\ Consistent(argv, k)
  BY LineEnds
<1>2. o \in Nat /\ k \in Nat /\ k >= o
  BY <1>1, EndNotBefore
<1>3. k # o /\ k > o
  BY <1>1, <1>2 DEF Ends, Separators
<1>4. CASE \A j \in 1..(Len(argv) + 1) : ~IsOption(argv, o, j)
  <2>1. \A i \in Reached(argv) : i <= o
    BY <1>4, ProgressEnd
  <2> QED BY <1>1, <1>2, <1>3, <2>1 DEF Ends
<1>5. ASSUME NEW name \in {"p", "e"}, Has(argv[o], name), Given(argv, name, o) # {}
      PROVE  FALSE
  <2>1. PICK i : i \in Given(argv, name, o)
    BY <1>5
  <2>2. i \in Nat /\ i < o /\ i \in Reached(argv)
    BY <2>1, ReachedNumbers DEF Given
  <2>3. i \in Given(argv, name, k) /\ o \in Given(argv, name, k) /\ i # o
    BY <1>2, <1>3, <1>5, <2>1, <2>2 DEF Given, Progress, Has
  <2>4. Cardinality(Given(argv, name, k)) <= 1
    BY <1>1, <1>5 DEF Consistent
  <2>5. Single(Given(argv, name, k))
    BY <2>4, GivenNumbers, SingleIs
  <2> QED BY <2>3, <2>5 DEF Single
<1> QED BY <1>4, <1>5

(* At a word that is no option the line ends there or nowhere. *)
LEMMA LineHere ==
  ASSUME NEW argv, Len(argv) \in Nat, NEW o, Progress(argv, o),
         o <= Len(argv) => argv[o].form \notin OptionForms
  PROVE  /\ LaunchLine(argv) <=> /\ o < Len(argv) /\ argv[o].form = "--"
                                 /\ Consistent(argv, o) /\ Given(argv, "p", o) = {}
         /\ AttachLine(argv) <=> /\ o = Len(argv) + 1
                                 /\ Consistent(argv, o) /\ Given(argv, "p", o) # {}
<1>1. o \in 1..(Len(argv) + 1) /\ o \in Reached(argv)
  BY ReachedNumbers DEF Progress
<1>2. ASSUME NEW k \in 1..(Len(argv) + 1) PROVE ~IsOption(argv, o, k)
  <2> SUFFICES ASSUME IsOption(argv, o, k) PROVE FALSE
    OBVIOUS
  <2>0. o \in Nat
    BY <1>1
  <2>1. k \in {o + 1, o + 2} /\ argv[o].form \in OptionForms
    BY <2>0, OptionShape, Zenon
  <2> QED BY <1>1, <2>1
<1>3. \A i \in Reached(argv) : i <= o
  BY <1>2, ProgressEnd
<1>4. ASSUME NEW k, Ends(argv, k) PROVE k = o
  <2>1. k \in Nat /\ k >= o
    BY <1>4, EndNotBefore
  <2>2. k <= o
    BY <1>3, <1>4 DEF Ends
  <2> QED BY <1>1, <2>1, <2>2
<1>5. \A k \in Separators(argv) : k = o
  BY <1>4 DEF Ends, Separators
<1>6. o \in Separators(argv) <=> o < Len(argv) /\ argv[o].form = "--"
  BY <1>1 DEF Separators
<1>7. LaunchLine(argv) <=> o \in Separators(argv) /\ Consistent(argv, o) /\ Given(argv, "p", o) = {}
  BY <1>5 DEF LaunchLine
<1>8. Len(argv) + 1 \in Reached(argv) <=> o = Len(argv) + 1
  BY <1>1, <1>4 DEF Ends
<1> QED BY <1>6, <1>7, <1>8 DEF AttachLine

-----------------------------------------------------------------------------
IsParse(ps) ==
  \E action, optind, letter, attach, filter, separator :
    ps = [action |-> action, optind |-> optind, letter |-> letter, attach |-> attach,
          filter |-> filter, separator |-> separator]

IsConfig(cf) ==
  \E mode, format, output, limit, follow, summary, seccomp, filter, command :
    cf = [mode |-> mode, format |-> format, output |-> output, limit |-> limit,
          follow |-> follow, summary |-> summary, seccomp |-> seccomp, filter |-> filter,
          command |-> command]

(* What getopt_long's loop has done of argv when it is at place q of word  *)
(* o: the options before word o, and the letters before place q, have been *)
(* taken and are in the configuration; and the separator is where          *)
(* separator_index found it.                                               *)
Before(argv, o, q, name) == \E r \in 1..(q - 1) : argv[o].letters[r] = name

Noted(argv, o, q, cf) ==
  /\ cf.mode = "launch" /\ cf.format = FormatBefore(argv, o)
  /\ cf.summary <=> Given(argv, "c", o) # {} \/ Before(argv, o, q, "c")
  /\ cf.seccomp <=> Given(argv, "seccomp-bpf", o) # {} \/ Before(argv, o, q, "seccomp-bpf")
  /\ Given(argv, "e", o) = {} => cf.filter = "none"
  /\ \A i \in Given(argv, "e", o) : cf.filter = FilterOf(ValueAt(argv, i))

Counted(argv, o, attach, filter) ==
  /\ attach <=> Given(argv, "p", o) # {}
  /\ filter <=> Given(argv, "e", o) # {}
  /\ Single(Given(argv, "p", o)) /\ Single(Given(argv, "e", o))

(* Where separator_index would have found it, had it begun at word o. *)
SeparatorAhead(argv, o, separator) == \E f : Separates(f, argv, 1) /\ separator = f[o]

SeparatorFound(argv, separator) ==
  /\ separator \in Nat
  /\ separator # 0 => separator <= Len(argv) /\ argv[separator].form = "--"

(* Place q is in word o, behind letters that are options to go on after. *)
Ongoing == Options \ {"h", "help", "version"}

Within(argv, o, q) ==
  /\ q \in Nat \ {0}
  /\ q # 1 => o <= Len(argv) /\ argv[o].form \in OptionForms /\ q <= Len(argv[o].letters)
  /\ \A r \in 1..(q - 1) : argv[o].letters[r] \in Ongoing

Followed(argv, ps, cf) ==
  /\ IsParse(ps) /\ IsConfig(cf)
  /\ Progress(argv, ps.optind) /\ Within(argv, ps.optind, ps.letter)
  /\ SeparatorFound(argv, ps.separator)
  /\ Separate(argv) => SeparatorAhead(argv, ps.optind, ps.separator)
  /\ Counted(argv, ps.optind, ps.attach, ps.filter)
  /\ Noted(argv, ps.optind, ps.letter, cf)

Lines == Seq(Words)

LEMMA LettersBefore ==
  ASSUME NEW argv, NEW o, NEW q \in Nat \ {0}, NEW name
  PROVE  /\ ~Before(argv, o, 1, name)
         /\ Before(argv, o, q + 1, name) <=> Before(argv, o, q, name) \/ argv[o].letters[q] = name
<1>1. /\ 1..(1 - 1) = {} /\ q \in 1..q /\ (q + 1) - 1 = q
      /\ \A r : r \in 1..q <=> r \in 1..(q - 1) \/ r = q
  OBVIOUS
<1>2. ~Before(argv, o, 1, name)
  BY <1>1 DEF Before
<1>3. (\E r \in 1..q : argv[o].letters[r] = name) <=>
        Before(argv, o, q, name) \/ argv[o].letters[q] = name
  BY Zenon, <1>1 DEF Before
<1>4. Before(argv, o, q + 1, name) <=> \E r \in 1..q : argv[o].letters[r] = name
  BY <1>1 DEF Before
<1> QED BY <1>2, <1>3, <1>4

LEMMA LettersAll ==
  ASSUME NEW argv, NEW o, NEW q \in Nat \ {0}, q = Len(argv[o].letters), NEW name
  PROVE  Has(argv[o], name) <=> Before(argv, o, q, name) \/ argv[o].letters[q] = name
<1>1. \A r : r \in 1..q <=> r \in 1..(q - 1) \/ r = q
  OBVIOUS
<1>2. Has(argv[o], name) <=> \E r \in 1..q : argv[o].letters[r] = name
  BY DEF Has
<1> QED BY Zenon, <1>1, <1>2 DEF Before

(* The letter that takes a value is the last of its word. *)
LEMMA FinalHas ==
  ASSUME NEW w \in Words, w.form \in OptionForms, NEW name, TakesValue(name)
  PROVE  Has(w, name) <=> Final(w) = name
<1>1. /\ w.letters \in Seq(STRING) /\ w.letters # << >>
      /\ \A q \in 1..Len(w.letters) - 1 : ~TakesValue(w.letters[q])
  BY DEF Words
<1>2. Len(w.letters) \in Nat /\ Len(w.letters) # 0
  BY <1>1
<1>3. Len(w.letters) \in 1..Len(w.letters)
  BY <1>2
<1>4. ASSUME NEW q \in 1..Len(w.letters), w.letters[q] = name PROVE q = Len(w.letters)
  <2>1. q \notin 1..Len(w.letters) - 1
    BY <1>1, <1>4
  <2> QED BY <1>2, <2>1
<1> QED BY <1>3, <1>4 DEF Has, Final

(* Taking one option keeps all of that. *)
LEMMA NotedStep ==
  ASSUME NEW argv, Len(argv) \in Nat, NEW o, Progress(argv, o),
         NEW n \in 1..(Len(argv) + 1), IsOption(argv, o, n),
         argv[o] \in Words, argv[o].form \in OptionForms,
         NEW q \in Nat \ {0}, q = Len(argv[o].letters),
         NEW cf, NEW cg, Noted(argv, o, q, cf), NEW letter, letter = Final(argv[o]),
         letter = "e" => Given(argv, "e", o) = {},
         cg.mode = cf.mode,
         cg.format = IF letter = "format" THEN ValueAt(argv, o) ELSE cf.format,
         cg.summary <=> cf.summary \/ letter = "c",
         cg.seccomp <=> cf.seccomp \/ letter = "seccomp-bpf",
         cg.filter = IF letter = "e" THEN FilterOf(ValueAt(argv, o)) ELSE cf.filter
  PROVE  Noted(argv, n, 1, cg)
<1>0. letter = argv[o].letters[q]
  BY DEF Final
<1>1. \A name : Given(argv, name, n) =
                  Given(argv, name, o) \cup (IF Has(argv[o], name) THEN {o} ELSE {})
  BY GivenStep
<1>2. Has(argv[o], "format") <=> letter = "format"
  BY FinalHas DEF TakesValue
<1>3. cg.mode = "launch" /\ cg.format = FormatBefore(argv, n)
  <2>1. FormatBefore(argv, n) =
          IF Has(argv[o], "format") THEN ValueAt(argv, o) ELSE FormatBefore(argv, o)
    BY FormatStep
  <2> QED BY <1>2, <2>1 DEF Noted
<1>4. ASSUME NEW name
      PROVE  Given(argv, name, n) # {} \/ Before(argv, n, 1, name)
               <=> (Given(argv, name, o) # {} \/ Before(argv, o, q, name)) \/ letter = name
  <2>0. Has(argv[o], name) <=> Before(argv, o, q, name) \/ argv[o].letters[q] = name
    BY LettersAll
  <2>1. Has(argv[o], name) <=> Before(argv, o, q, name) \/ letter = name
    BY Zenon, <1>0, <2>0
  <2>2. ~Before(argv, n, 1, name)
    BY LettersBefore
  <2>3. Given(argv, name, n) # {} <=> Given(argv, name, o) # {} \/ Has(argv[o], name)
    BY <1>1
  <2> QED BY <2>1, <2>2, <2>3
<1>5. /\ cg.summary <=> Given(argv, "c", n) # {} \/ Before(argv, n, 1, "c")
      /\ cg.seccomp <=> Given(argv, "seccomp-bpf", n) # {} \/ Before(argv, n, 1, "seccomp-bpf")
  <2>1. /\ cf.summary <=> Given(argv, "c", o) # {} \/ Before(argv, o, q, "c")
        /\ cf.seccomp <=> Given(argv, "seccomp-bpf", o) # {} \/ Before(argv, o, q, "seccomp-bpf")
    BY Zenon DEF Noted
  <2> QED BY Zenon, <1>4, <2>1
<1>6. Given(argv, "e", n) = Given(argv, "e", o) \cup (IF letter = "e" THEN {o} ELSE {})
  <2>1. Has(argv[o], "e") <=> letter = "e"
    BY FinalHas DEF TakesValue
  <2> QED BY <1>1, <2>1
<1>7. CASE letter = "e"
  <2>1. Given(argv, "e", n) = {o}
    BY <1>6, <1>7
  <2>2. cg.filter = FilterOf(ValueAt(argv, o))
    BY <1>7
  <2>3. \A i \in Given(argv, "e", n) : cg.filter = FilterOf(ValueAt(argv, i))
    BY Zenon, <2>1, <2>2
  <2> QED BY <1>3, <1>5, <2>1, <2>3 DEF Noted
<1>8. CASE letter # "e"
  <2>1. Given(argv, "e", n) = Given(argv, "e", o) /\ cg.filter = cf.filter
    BY <1>6, <1>8
  <2>2. /\ Given(argv, "e", o) = {} => cf.filter = "none"
        /\ \A i \in Given(argv, "e", o) : cf.filter = FilterOf(ValueAt(argv, i))
    BY Zenon DEF Noted
  <2>3. /\ Given(argv, "e", n) = {} => cg.filter = "none"
        /\ \A i \in Given(argv, "e", n) : cg.filter = FilterOf(ValueAt(argv, i))
    BY Zenon, <2>1, <2>2
  <2> QED BY <1>3, <1>5, <2>3 DEF Noted
<1> QED BY <1>7, <1>8

(* Taking a letter that is not the last of its word does. *)
LEMMA NotedLetter ==
  ASSUME NEW argv, NEW o, NEW q \in Nat \ {0}, NEW cf, NEW cg, Noted(argv, o, q, cf),
         NEW letter, letter = argv[o].letters[q],
         cg.mode = cf.mode, cg.format = cf.format, cg.filter = cf.filter,
         cg.summary <=> cf.summary \/ letter = "c",
         cg.seccomp <=> cf.seccomp \/ letter = "seccomp-bpf"
  PROVE  Noted(argv, o, q + 1, cg)
<1>1. \A name : Before(argv, o, q + 1, name) <=> Before(argv, o, q, name) \/ letter = name
  BY LettersBefore
<1>2. /\ cf.mode = "launch" /\ cf.format = FormatBefore(argv, o)
      /\ cf.summary <=> Given(argv, "c", o) # {} \/ Before(argv, o, q, "c")
      /\ cf.seccomp <=> Given(argv, "seccomp-bpf", o) # {} \/ Before(argv, o, q, "seccomp-bpf")
      /\ Given(argv, "e", o) = {} => cf.filter = "none"
      /\ \A i \in Given(argv, "e", o) : cf.filter = FilterOf(ValueAt(argv, i))
  BY Zenon DEF Noted
<1>3. /\ cg.summary <=> Given(argv, "c", o) # {} \/ Before(argv, o, q + 1, "c")
      /\ cg.seccomp <=> Given(argv, "seccomp-bpf", o) # {} \/ Before(argv, o, q + 1, "seccomp-bpf")
  BY Zenon, <1>1, <1>2
<1>4. \A i \in Given(argv, "e", o) : cg.filter = FilterOf(ValueAt(argv, i))
  BY Zenon, <1>2
<1> QED BY <1>2, <1>3, <1>4 DEF Noted

LEMMA CountedStep ==
  ASSUME NEW argv, Len(argv) \in Nat, NEW o, Progress(argv, o),
         NEW n \in 1..(Len(argv) + 1), IsOption(argv, o, n),
         argv[o] \in Words, argv[o].form \in OptionForms,
         NEW attach, NEW filter, Counted(argv, o, attach, filter),
         NEW letter, letter = Final(argv[o]),
         letter = "p" => ~attach, letter = "e" => ~filter,
         NEW attached, attached <=> attach \/ letter = "p",
         NEW filtered, filtered <=> filter \/ letter = "e"
  PROVE  Counted(argv, n, attached, filtered)
<1>1. \A name : Given(argv, name, n) =
                  Given(argv, name, o) \cup (IF Has(argv[o], name) THEN {o} ELSE {})
  BY GivenStep
<1>0. (Has(argv[o], "p") <=> letter = "p") /\ (Has(argv[o], "e") <=> letter = "e")
  BY FinalHas DEF TakesValue
<1>2. Given(argv, "p", n) = Given(argv, "p", o) \cup (IF letter = "p" THEN {o} ELSE {})
  BY <1>0, <1>1
<1>3. Given(argv, "e", n) = Given(argv, "e", o) \cup (IF letter = "e" THEN {o} ELSE {})
  BY <1>0, <1>1
<1>4. Given(argv, "p", n) # {} <=> Given(argv, "p", o) # {} \/ letter = "p"
  BY <1>2
<1>5. Given(argv, "e", n) # {} <=> Given(argv, "e", o) # {} \/ letter = "e"
  BY <1>3
<1>6. Single(Given(argv, "p", n))
  <2>1. CASE letter = "p"
    <3>1. Given(argv, "p", o) = {}
      BY <2>1 DEF Counted
    <3> QED BY <1>2, <2>1, <3>1 DEF Single
  <2>2. CASE letter # "p"
    BY <1>2, <2>2 DEF Counted
  <2> QED BY <2>1, <2>2
<1>7. Single(Given(argv, "e", n))
  <2>1. CASE letter = "e"
    <3>1. Given(argv, "e", o) = {}
      BY <2>1 DEF Counted
    <3> QED BY <1>3, <2>1, <3>1 DEF Single
  <2>2. CASE letter # "e"
    BY <1>3, <2>2 DEF Counted
  <2> QED BY <2>1, <2>2
<1> QED BY <1>4, <1>5, <1>6, <1>7 DEF Counted

(* separator_index goes past an option and its value. *)
LEMMA SeparatorStep ==
  ASSUME NEW argv, Len(argv) \in Nat, NEW o \in 1..Len(argv), NEW separator,
         SeparatorAhead(argv, o, separator), argv[o].form \notin {"--", "word"}
  PROVE  SeparatorAhead(argv, PassedTo(argv, o), separator)
<1>1. PICK f : Separates(f, argv, 1) /\ separator = f[o]
  BY DEF SeparatorAhead
<1>2. o \in 1..(Len(argv) + 2) /\ ~(o > Len(argv))
  OBVIOUS
<1>3. f[o] = SeparatorAt(f, argv, o)
  BY <1>1, <1>2 DEF Separates
<1>4. f[o] = f[PassedTo(argv, o)]
  BY <1>2, <1>3 DEF SeparatorAt
<1> QED BY <1>1, <1>4 DEF SeparatorAhead

-----------------------------------------------------------------------------
(* getopt_long at an option. *)
AtOption ==
  /\ words \in Lines /\ ~AtEnd
  /\ Progress(words, parse.optind) /\ Within(words, parse.optind, parse.letter)

LEMMA OptionHere ==
  ASSUME AtOption
  PROVE  /\ parse.optind \in 1..Len(words) /\ Len(words) \in Nat
         /\ Word = words[parse.optind] /\ Word \in Words /\ Word.form \in OptionForms
         /\ Len(Word.letters) \in Nat /\ parse.letter \in 1..Len(Word.letters)
         /\ Last => Letter = Final(Word)
         /\ ~Last => ~TakesValue(Letter) /\ parse.letter + 1 <= Len(Word.letters)
         /\ FromNext <=> TakesValue(Letter) /\ Word.text = NoText
<1> DEFINE o == parse.optind
           q == parse.letter
<1>0. Len(words) \in Nat
  BY DEF AtOption, Lines
<1>1. o \in 1..(Len(words) + 1)
  BY <1>0, ReachedNumbers DEF AtOption, Progress
<1>2. o <= Len(words) /\ Word = words[o] /\ Word.form \notin {"word", "-", "--"}
  BY DEF AtOption, AtEnd, Word
<1>3. o \in 1..Len(words)
  BY <1>0, <1>1, <1>2
<1>4. Word \in Words
  <2>1. words \in Seq(Words)
    BY DEF AtOption, Lines
  <2> QED BY <1>2, <1>3, <2>1, ElementOfSeq
<1>5. /\ Word.form \in OptionForms /\ Word.letters \in Seq(STRING) /\ Word.letters # << >>
      /\ \A r \in 1..Len(Word.letters) - 1 : ~TakesValue(Word.letters[r])
  <2>1. Word.form \in OptionForms
    BY <1>2, <1>4 DEF Words, Forms
  <2> QED BY <1>4, <2>1 DEF Words
<1>6. Len(Word.letters) \in Nat /\ Len(Word.letters) # 0
  BY <1>5
<1>7. q \in 1..Len(Word.letters)
  <2>1. q \in Nat \ {0} /\ (q # 1 => q <= Len(Word.letters))
    BY <1>2 DEF AtOption, Within
  <2> QED BY <1>6, <2>1
<1>8. Last => Letter = Final(Word)
  BY DEF Last, Letter, Final
<1>9. ~Last => ~TakesValue(Letter) /\ q + 1 <= Len(Word.letters)
  <2> SUFFICES ASSUME ~Last PROVE ~TakesValue(Letter) /\ q + 1 <= Len(Word.letters)
    OBVIOUS
  <2>1. q # Len(Word.letters)
    BY DEF Last
  <2>2. q \in 1..Len(Word.letters) - 1 /\ q + 1 <= Len(Word.letters)
    BY <1>6, <1>7, <2>1
  <2> QED BY <1>5, <2>2 DEF Letter
<1>10. FromNext <=> TakesValue(Letter) /\ Word.text = NoText
  BY DEF FromNext
<1> QED BY <1>0, <1>2, <1>3, <1>4, <1>5, <1>6, <1>7, <1>8, <1>9, <1>10

(* The options that are accepted are those of the grammar ... *)
After == parse.optind + (IF FromNext THEN 2 ELSE 1)

LEMMA OptionTaken ==
  ASSUME AtOption, Last, ~Unrecognized, ~Invalid(Letter), Letter \notin {"h", "help", "version"}
  PROVE  /\ IsOption(words, parse.optind, After) /\ After \in 1..(Len(words) + 1)
         /\ TakesValue(Letter) => optarg = ValueAt(words, parse.optind)
<1> DEFINE o == parse.optind
           w == words[o]
           l == Final(w)
           n == After
<1>1. /\ o \in 1..Len(words) /\ Len(words) \in Nat /\ Word = w /\ Letter = l
      /\ w.form \in OptionForms /\ Len(w.letters) \in Nat
  BY OptionHere
<1>2. \A q \in 1..Len(w.letters) : w.letters[q] \in Ongoing
  <2>1. parse.letter = Len(w.letters) /\ w.letters[parse.letter] = l
    BY <1>1 DEF Last, Letter
  <2>2. l \in Ongoing
    BY <1>1 DEF Unrecognized, Ongoing
  <2>3. \A r \in 1..(parse.letter - 1) : w.letters[r] \in Ongoing
    BY DEF AtOption, Within
  <2> HIDE DEF l, w
  <2>4. \A q \in 1..Len(w.letters) : q = Len(w.letters) \/ q \in 1..(Len(w.letters) - 1)
    BY <1>1
  <2> QED BY <2>1, <2>2, <2>3, <2>4
<1>3. ~TakesValue(l) => w.text = NoText
  BY <1>1 DEF Unrecognized
<1>4. FromNext <=> TakesValue(l) /\ w.text = NoText
  BY <1>1 DEF FromNext
<1>5. FromNext => o # Len(words)
  BY DEF Unrecognized
<1>6. n = IF FromNext THEN o + 2 ELSE o + 1
  BY <1>1 DEF After
<1>7. n \in 1..(Len(words) + 1)
  BY <1>1, <1>5, <1>6
<1>8. TakesValue(l) => optarg = ValueAt(words, o)
  BY <1>1, <1>4 DEF optarg, ValueAt
<1>9. TakesValue(l) => ValidValue(l, optarg)
  BY <1>1 DEF Invalid, TakesValue, ValidValue
<1>10. IsOption(words, o, n)
  <2> HIDE DEF n
  <2>0. w.form \in OptionForms
        /\ \A q \in 1..Len(w.letters) : w.letters[q] \in Options \ {"h", "help", "version"}
    BY <1>1, <1>2 DEF Ongoing
  <2>1. CASE ~TakesValue(l)
    <3>1. n = o + 1 /\ w.text = NoText
      BY <1>3, <1>4, <1>6, <2>1
    <3> QED BY <2>0, <2>1, <3>1 DEF IsOption
  <2>2. CASE TakesValue(l) /\ w.text # NoText
    <3>1. ValidValue(l, w.text) /\ n = o + 1
      BY <1>4, <1>6, <1>8, <1>9, <2>2 DEF ValueAt
    <3> QED BY <2>0, <2>2, <3>1 DEF IsOption
  <2>3. CASE TakesValue(l) /\ w.text = NoText
    <3>1. ValidValue(l, Text(words[o + 1])) /\ n = o + 2 /\ n <= Len(words) + 1
      BY <1>1, <1>4, <1>6, <1>7, <1>8, <1>9, <2>3 DEF ValueAt
    <3> QED BY <2>0, <2>3, <3>1 DEF IsOption
  <2> QED BY <2>1, <2>2, <2>3
<1> QED BY <1>1, <1>7, <1>8, <1>10

(* ... and an error is none of them, or the second -p or -e. *)
LEMMA OptionRefused ==
  ASSUME AtOption, Unrecognized \/ Invalid(Letter),
         Counted(words, parse.optind, parse.attach, parse.filter)
  PROVE  ~(LaunchLine(words) \/ AttachLine(words))
<1> DEFINE o == parse.optind
           w == words[o]
           l == Letter
<1>1. /\ o \in 1..Len(words) /\ Len(words) \in Nat /\ Word = w /\ w \in Words
      /\ w.form \in OptionForms /\ parse.letter \in 1..Len(w.letters)
      /\ Last => l = Final(w)
      /\ ~Last => ~TakesValue(l)
      /\ FromNext <=> TakesValue(l) /\ w.text = NoText
  BY OptionHere
<1> HIDE DEF l
<1>2. ASSUME NEW k \in 1..(Len(words) + 1), IsOption(words, o, k)
      PROVE  \E name \in {"p", "e"} : Has(w, name) /\ Given(words, name, o) # {}
  <2>1. l \in Options
    <3>1. l = w.letters[parse.letter]
      BY <1>1 DEF Letter, l
    <3> QED BY <1>1, <1>2, <3>1 DEF IsOption
  <2>2. ~TakesValue(l) /\ Last => w.text = NoText
    BY <1>1, <1>2 DEF IsOption
  <2>3. FromNext => Last /\ k = o + 2 /\ k <= Len(words) + 1
    BY <1>1, <1>2 DEF IsOption
  <2>4. ~Unrecognized
    <3>1. FromNext => o # Len(words)
      BY <1>1, <2>3
    <3> QED BY <1>1, <2>1, <2>2, <3>1 DEF Unrecognized, l
  <2>5. TakesValue(l) => ValidValue(l, optarg)
    <3> SUFFICES ASSUME TakesValue(l) PROVE ValidValue(l, optarg)
      OBVIOUS
    <3>1. l = Final(w)
      BY <1>1
    <3>2. optarg = IF w.text = NoText THEN Text(words[o + 1]) ELSE w.text
      BY <1>1 DEF optarg
    <3>3. IF w.text # NoText THEN ValidValue(l, w.text) ELSE ValidValue(l, Text(words[o + 1]))
      BY <1>2, <3>1 DEF IsOption
    <3> QED BY Zenon, <3>2, <3>3
  <2>6. Invalid(l)
    BY <2>4 DEF l
  <2>7. (l = "p" /\ parse.attach) \/ (l = "e" /\ parse.filter)
    BY <2>5, <2>6 DEF Invalid, ValidValue, TakesValue
  <2>8. Has(w, l)
    <3>1. l = w.letters[parse.letter]
      BY <1>1 DEF Letter, l
    <3> QED BY <1>1, <3>1 DEF Has
  <2> QED BY <2>7, <2>8 DEF Counted
<1>3. Progress(words, o) /\ o <= Len(words) /\ w.form # "--"
  BY <1>1 DEF AtOption, OptionForms
<1>4. \/ \A k \in 1..(Len(words) + 1) : ~IsOption(words, o, k)
      \/ \E name \in {"p", "e"} : Has(w, name) /\ Given(words, name, o) # {}
  BY <1>2
<1> QED BY <1>1, <1>3, <1>4, NoLine

(* What an option changes in struct sg_config. *)
LEMMA ConfiguredIs ==
  ASSUME IsConfig(config), NEW l, NEW cg, cg = Configured(l)
  PROVE  /\ IsConfig(cg) /\ cg.mode = config.mode
         /\ cg.format = IF l = "format" THEN optarg ELSE config.format
         /\ cg.summary <=> config.summary \/ l = "c"
         /\ cg.seccomp <=> config.seccomp \/ l = "seccomp-bpf"
         /\ cg.filter = IF l = "e" THEN FilterOf(optarg) ELSE config.filter
<1>1. PICK mode, format, output, limit, follow, summary, seccomp, filter, command :
        config = [mode |-> mode, format |-> format, output |-> output, limit |-> limit,
                  follow |-> follow, summary |-> summary, seccomp |-> seccomp,
                  filter |-> filter, command |-> command]
  BY DEF IsConfig
<1> DEFINE C(f, ou, li, fo, su, se, fi) ==
             [mode |-> mode, format |-> f, output |-> ou, limit |-> li, follow |-> fo,
              summary |-> su, seccomp |-> se, filter |-> fi, command |-> command]
<1>2. ASSUME NEW f, NEW ou, NEW li, NEW fo, NEW su, NEW se, NEW fi,
             cg = C(f, ou, li, fo, su, se, fi)
      PROVE  /\ IsConfig(cg) /\ cg.mode = config.mode /\ cg.format = f
             /\ cg.summary = su /\ cg.seccomp = se /\ cg.filter = fi
  <2>1. IsConfig(cg)
    BY Zenon, <1>2 DEF IsConfig
  <2> QED BY <1>1, <1>2, <2>1
<1>3. /\ config.format = format /\ config.summary = summary /\ config.seccomp = seccomp
      /\ config.filter = filter
  BY <1>1
<1>4. CASE l \in {"f", "follow"}
  <2>1. cg = C(format, output, limit, TRUE, summary, seccomp, filter)
    BY <1>1, <1>4 DEF Configured
  <2>2. l \notin {"e", "c", "format", "seccomp-bpf"}
    BY <1>4
  <2> HIDE DEF C
  <2>3. /\ IsConfig(cg) /\ cg.mode = config.mode /\ cg.format = config.format
        /\ cg.summary = config.summary /\ cg.seccomp = config.seccomp
        /\ cg.filter = config.filter
    BY <1>2, <1>3, <2>1
  <2> QED BY <2>2, <2>3
<1>5. CASE l = "e"
  <2>1. cg = C(format, output, limit, follow, summary, seccomp, FilterOf(optarg))
    BY <1>1, <1>5 DEF Configured
  <2> QED BY <1>2, <1>3, <1>5, <2>1
<1>6. CASE l = "s"
  <2>1. cg = C(format, output, Number(optarg), follow, summary, seccomp, filter)
    BY <1>1, <1>6 DEF Configured
  <2> QED BY <1>2, <1>3, <1>6, <2>1
<1>7. CASE l = "o"
  <2>1. cg = C(format, TRUE, limit, follow, summary, seccomp, filter)
    BY <1>1, <1>7 DEF Configured
  <2> QED BY <1>2, <1>3, <1>7, <2>1
<1>8. CASE l = "c"
  <2>1. cg = C(format, output, limit, follow, TRUE, seccomp, filter)
    BY <1>1, <1>8 DEF Configured
  <2> QED BY <1>2, <1>3, <1>8, <2>1
<1>9. CASE l = "format"
  <2>1. cg = C(optarg, output, limit, follow, summary, seccomp, filter)
    BY <1>1, <1>9 DEF Configured
  <2> QED BY <1>2, <1>3, <1>9, <2>1
<1>10. CASE l = "seccomp-bpf"
  <2>1. cg = C(format, output, limit, follow, summary, TRUE, filter)
    BY <1>1, <1>10 DEF Configured
  <2> QED BY <1>2, <1>3, <1>10, <2>1
<1>11. CASE l \notin {"f", "follow", "e", "s", "o", "c", "format", "seccomp-bpf"}
  <2>1. cg = C(format, output, limit, follow, summary, seccomp, filter)
    BY <1>1, <1>11 DEF Configured
  <2> QED BY <1>2, <1>3, <1>11, <2>1
<1> QED BY <1>4, <1>5, <1>6, <1>7, <1>8, <1>9, <1>10, <1>11

LEMMA ParseFields ==
  ASSUME NEW ps, NEW action, NEW n, NEW letter, NEW a, NEW e, NEW separator,
         ps = [action |-> action, optind |-> n, letter |-> letter, attach |-> a, filter |-> e,
               separator |-> separator]
  PROVE  /\ ps.optind = n /\ ps.letter = letter /\ ps.separator = separator
         /\ ps.attach = a /\ ps.filter = e
OBVIOUS

Taken(ps) == ps = [Advanced EXCEPT !.attach = @ \/ Letter = "p", !.filter = @ \/ Letter = "e"]

(* One more option. *)
LEMMA FollowedStep ==
  ASSUME words \in Lines, Followed(words, parse, config), ~AtEnd,
         ~(Unrecognized \/ Invalid(Letter)), Letter \notin {"h", "help", "version"},
         NEW ps, NEW cg, cg = Configured(Letter), Taken(ps)
  PROVE  Followed(words, ps, cg)
<1> DEFINE o == parse.optind
           q == parse.letter
           w == words[o]
           l == Letter
           n == IF Last THEN After ELSE o
           m == IF Last THEN 1 ELSE q + 1
<1>1. AtOption /\ Progress(words, o) /\ Within(words, o, q) /\ q \in Nat \ {0}
  BY DEF AtOption, Followed, Within
<1>2. /\ o \in 1..Len(words) /\ Len(words) \in Nat /\ Word = w /\ w \in Words
      /\ w.form \in OptionForms
      /\ Last => l = Final(w)
      /\ ~Last => ~TakesValue(l) /\ q + 1 <= Len(w.letters)
      /\ FromNext <=> TakesValue(l) /\ w.text = NoText
  BY <1>1, OptionHere
<1>3. l = w.letters[q] /\ (Last <=> q = Len(w.letters))
  BY <1>2 DEF Letter, Last
<1>4. PICK action, optind, letter, attach, filter, separator :
        parse = [action |-> action, optind |-> optind, letter |-> letter, attach |-> attach,
                 filter |-> filter, separator |-> separator]
  BY DEF Followed, IsParse
<1>5. Advanced = [action |-> action, optind |-> n, letter |-> m, attach |-> attach,
                  filter |-> filter, separator |-> separator]
  <2>1. CASE ~Last
    <3>1. Advanced = [parse EXCEPT !.letter = @ + 1]
      BY <2>1 DEF Advanced
    <3> QED BY <1>4, <2>1, <3>1
  <2>2. CASE Last
    <3> DEFINE by == IF FromNext THEN 2 ELSE 1
    <3>1. Advanced = [parse EXCEPT !.letter = 1, !.optind = @ + by] /\ After = o + by
      BY <2>2 DEF Advanced, After
    <3>2. n = After /\ m = 1
      BY <2>2
    <3> HIDE DEF by, n, m
    <3>3. o = optind
      BY <1>4
    <3> QED BY <1>4, <3>1, <3>2, <3>3
  <2> QED BY <2>1, <2>2
<1>6. ps = [action |-> action, optind |-> n, letter |-> m, attach |-> attach \/ l = "p",
            filter |-> filter \/ l = "e", separator |-> separator]
  <2> HIDE DEF n, m
  <2> QED BY <1>5 DEF Taken
<1> HIDE DEF n, m, l
<1>7. /\ IsParse(ps) /\ ps.optind = n /\ ps.letter = m /\ ps.separator = parse.separator
      /\ ps.attach <=> parse.attach \/ l = "p"
      /\ ps.filter <=> parse.filter \/ l = "e"
  <2>1. IsParse(ps)
    BY Zenon, <1>6 DEF IsParse
  <2>2. parse.attach = attach /\ parse.filter = filter /\ parse.separator = separator
    BY <1>4
  <2>3. PICK a, e : /\ a = (attach \/ l = "p") /\ e = (filter \/ l = "e")
                    /\ ps = [action |-> action, optind |-> n, letter |-> m, attach |-> a,
                             filter |-> e, separator |-> separator]
    BY Zenon, <1>6
  <2>4. /\ ps.optind = n /\ ps.letter = m /\ ps.separator = separator
        /\ ps.attach = a /\ ps.filter = e
    <3>1. ps = [action |-> action, optind |-> n, letter |-> m, attach |-> a,
                filter |-> e, separator |-> separator]
      BY <2>3
    <3> QED BY <3>1, ParseFields
  <2>5. (ps.attach <=> attach \/ l = "p") /\ (ps.filter <=> filter \/ l = "e")
    BY Zenon, <2>3, <2>4
  <2> QED BY Zenon, <2>1, <2>2, <2>4, <2>5
<1>8. /\ SeparatorFound(words, parse.separator) /\ IsConfig(config)
      /\ Counted(words, o, parse.attach, parse.filter) /\ Noted(words, o, q, config)
      /\ Separate(words) => SeparatorAhead(words, o, parse.separator)
  BY DEF Followed
<1>9. /\ IsConfig(cg) /\ cg.mode = config.mode
      /\ cg.format = IF l = "format" THEN optarg ELSE config.format
      /\ cg.summary <=> config.summary \/ l = "c"
      /\ cg.seccomp <=> config.seccomp \/ l = "seccomp-bpf"
      /\ cg.filter = IF l = "e" THEN FilterOf(optarg) ELSE config.filter
  BY <1>8, ConfiguredIs DEF l
<1>10. CASE ~Last
  <2>1. n = o /\ m = q + 1 /\ ~TakesValue(l)
    BY <1>2, <1>10 DEF n, m
  <2>2. l \notin {"p", "e", "format"}
    BY <2>1 DEF TakesValue
  <2>3. Within(words, o, q + 1)
    <3>1. l \in Ongoing
      BY DEF Unrecognized, Ongoing, l
    <3>2. /\ q + 1 \in Nat \ {0} /\ o <= Len(words) /\ q + 1 <= Len(w.letters)
          /\ \A r \in 1..((q + 1) - 1) : r = q \/ r \in 1..(q - 1)
      BY <1>1, <1>2, <1>10
    <3>3. \A r \in 1..(q - 1) : w.letters[r] \in Ongoing
      BY <1>1 DEF Within
    <3>4. \A r \in 1..((q + 1) - 1) : w.letters[r] \in Ongoing
      BY Zenon, <1>3, <3>1, <3>2, <3>3
    <3> QED BY <1>2, <3>2, <3>4 DEF Within
  <2>4. Counted(words, o, ps.attach, ps.filter)
    BY <1>7, <1>8, <2>2 DEF Counted
  <2>5. Noted(words, o, q + 1, cg)
    <3>1. cg.mode = config.mode /\ cg.format = config.format /\ cg.filter = config.filter
      BY <1>9, <2>2
    <3> QED BY <1>1, <1>3, <1>8, <1>9, <3>1, NotedLetter
  <2> QED BY <1>1, <1>7, <1>8, <1>9, <2>1, <2>3, <2>4, <2>5 DEF Followed
<1>11. CASE Last
  <2>1. n = After /\ m = 1 /\ l = Final(w) /\ q = Len(w.letters)
    BY <1>2, <1>3, <1>11 DEF n, m
  <2>2. /\ IsOption(words, o, n) /\ n \in 1..(Len(words) + 1)
        /\ TakesValue(l) => optarg = ValueAt(words, o)
    BY <1>1, <1>11, <2>1, OptionTaken DEF l
  <2>3. Progress(words, n)
    BY <1>1, <1>2, <2>2, ProgressStep
  <2>4. Within(words, n, 1)
    BY DEF Within
  <2>5. ASSUME Separate(words) PROVE SeparatorAhead(words, n, parse.separator)
    <3>1. o \in Reached(words) /\ o <= Len(words)
      BY <1>1, <1>2 DEF Progress
    <3>2. FromNext => w.form # "prefix" /\ Len(w.letters) = 1
      BY <1>2, <2>1, <2>5, <3>1 DEF Separate
    <3>3. FromNext <=> Skips(w)
      BY <1>2, <2>1, <3>2 DEF Skips, Final, OptionForms
    <3>4. n = PassedTo(words, o)
      BY <1>2, <2>1, <3>3 DEF PassedTo, After
    <3>5. w.form \notin {"--", "word"}
      BY <1>2 DEF OptionForms
    <3> QED BY <1>2, <1>8, <2>5, <3>4, <3>5, SeparatorStep
  <2>6. (l = "p" => ~parse.attach) /\ (l = "e" => ~parse.filter)
    BY DEF Invalid, l
  <2>7. Counted(words, n, ps.attach, ps.filter)
    BY <1>1, <1>2, <1>7, <1>8, <2>1, <2>2, <2>6, CountedStep
  <2>8. l = "e" => Given(words, "e", o) = {}
    BY <1>8, <2>6 DEF Counted
  <2>9. /\ cg.format = IF l = "format" THEN ValueAt(words, o) ELSE config.format
        /\ cg.filter = IF l = "e" THEN FilterOf(ValueAt(words, o)) ELSE config.filter
    <3>1. l \in {"e", "format"} => optarg = ValueAt(words, o)
      BY <2>2 DEF TakesValue
    <3> QED BY <1>9, <3>1
  <2>10. Noted(words, n, 1, cg)
    <3> HIDE DEF o, q, w
    <3>1. Len(words) \in Nat /\ Progress(words, o) /\ w = words[o]
      BY <1>1, <1>2 DEF w
    <3>2. /\ cg.mode = config.mode
          /\ cg.summary <=> config.summary \/ l = "c"
          /\ cg.seccomp <=> config.seccomp \/ l = "seccomp-bpf"
      BY <1>9
    <3> QED BY <1>1, <1>2, <1>8, <2>1, <2>2, <2>8, <2>9, <3>1, <3>2, NotedStep, SMTT(30)
  <2> QED BY <1>7, <1>8, <1>9, <2>1, <2>3, <2>4, <2>5, <2>7, <2>10 DEF Followed
<1> QED BY <1>10, <1>11

-----------------------------------------------------------------------------
(* The loop has ended in front of word o.  What is consistent is what      *)
(* validate_config lets pass.                                              *)
LEMMA ConsistentIs ==
  ASSUME NEW argv, Len(argv) \in Nat, NEW o, NEW cf, Noted(argv, o, 1, cf),
         NEW attach, NEW filter, Counted(argv, o, attach, filter)
  PROVE  Consistent(argv, o) <=> ~ \/ cf.format = "json" /\ ~cf.summary
                                   \/ cf.format = "ndjson" /\ cf.summary
                                   \/ cf.seccomp /\ (attach \/ cf.filter # "some")
<1>1. /\ Cardinality(Given(argv, "p", o)) <= 1 /\ Cardinality(Given(argv, "e", o)) <= 1
  BY GivenNumbers, SingleIs DEF Counted
<1>2. (\E i \in Given(argv, "e", o) : FilterOf(ValueAt(argv, i)) = "some") <=> cf.filter = "some"
  <2>1. /\ Given(argv, "e", o) = {} => cf.filter = "none"
        /\ \A i \in Given(argv, "e", o) : cf.filter = FilterOf(ValueAt(argv, i))
    BY DEF Noted
  <2>2. CASE Given(argv, "e", o) = {}
    BY <2>1, <2>2
  <2>3. ASSUME NEW i \in Given(argv, "e", o)
        PROVE  (\E j \in Given(argv, "e", o) : FilterOf(ValueAt(argv, j)) = "some")
                 <=> cf.filter = "some"
    BY <2>1, <2>3
  <2> QED BY <2>2, <2>3
<1>3. /\ cf.format = FormatBefore(argv, o) /\ (cf.summary <=> Given(argv, "c", o) # {})
      /\ cf.seccomp <=> Given(argv, "seccomp-bpf", o) # {}
      /\ attach <=> Given(argv, "p", o) # {}
  <2>1. 1 \in Nat \ {0}
    OBVIOUS
  <2>2. ~Before(argv, o, 1, "c") /\ ~Before(argv, o, 1, "seccomp-bpf")
    BY <2>1, LettersBefore
  <2> QED BY Zenon, <2>2 DEF Noted, Counted
<1>4. Consistent(argv, o) <=>
        /\ FormatBefore(argv, o) = "json" => Given(argv, "c", o) # {}
        /\ FormatBefore(argv, o) = "ndjson" => Given(argv, "c", o) = {}
        /\ Given(argv, "seccomp-bpf", o) # {} =>
             /\ Given(argv, "p", o) = {}
             /\ \E i \in Given(argv, "e", o) : FilterOf(ValueAt(argv, i)) = "some"
  BY Zenon, <1>1 DEF Consistent
<1> QED BY Zenon, <1>2, <1>3, <1>4

(* The separator, seen from the word at which getopt_long ends. *)
LEMMA SeparatorHere ==
  ASSUME NEW argv, Len(argv) \in Nat, NEW o \in 1..(Len(argv) + 1), NEW separator,
         SeparatorAhead(argv, o, separator)
  PROVE  /\ o > Len(argv) => separator = 0
         /\ o <= Len(argv) /\ argv[o].form = "--" => separator = o
         /\ o <= Len(argv) /\ argv[o].form = "word" => separator = 0
         /\ o <= Len(argv) /\ argv[o].form = "-" => separator \in Nat /\ (separator = 0 \/ separator > o)
<1>1. PICK f : Separates(f, argv, 1) /\ separator = f[o]
  BY DEF SeparatorAhead
<1>2. separator = SeparatorAt(f, argv, o)
  BY <1>1 DEF Separates
<1>3. ASSUME o <= Len(argv), argv[o].form = "-"
      PROVE  separator \in Nat /\ (separator = 0 \/ separator > o)
  <2>1. separator = f[PassedTo(argv, o)]
    BY <1>2, <1>3 DEF SeparatorAt
  <2>2. PassedTo(argv, o) = o + 1
    BY <1>3 DEF PassedTo, Skips
  <2>3. o + 1 \in 1..(Len(argv) + 2)
    OBVIOUS
  <2>4. f[o + 1] \in Nat /\ (f[o + 1] = 0 \/ f[o + 1] >= o + 1)
    BY <1>1, <2>3, SeparatorBeyond
  <2> QED BY <2>1, <2>2, <2>4
<1> QED BY <1>2, <1>3 DEF SeparatorAt

OptindAtEnd == IF parse.optind <= Len(words) /\ Word.form = "--" THEN parse.optind + 1
               ELSE parse.optind

(* validate_config refuses what the grammar does not have, *)
LEMMA ValidatedRight ==
  ASSUME words \in Lines, Followed(words, parse, config), AtEnd
  PROVE  /\ Separate(words) =>
              /\ ~Refused(OptindAtEnd) <=> LaunchLine(words) \/ AttachLine(words)
              /\ ~Refused(OptindAtEnd) /\ ~parse.attach => Launches(words, OptindAtEnd)
         /\ ~Refused(OptindAtEnd) =>
              IF parse.attach THEN AttachLine(words) \/ Overlooked(words)
              ELSE Launches(words, OptindAtEnd) \/ OptindAtEnd \in Mistaken(words)
<1> DEFINE o == parse.optind
           N == Len(words)
           form == words[o].form
           sep == parse.separator
<1>0. N \in Nat
  BY DEF Lines
<1>1. /\ Progress(words, o) /\ SeparatorFound(words, sep)
      /\ Separate(words) => SeparatorAhead(words, o, sep)
  BY DEF Followed
<1>2. o \in 1..(N + 1) /\ o \in Reached(words)
  BY <1>0, <1>1, ReachedNumbers DEF Progress
<1>3. o <= N => form \in {"word", "-", "--"}
  BY DEF AtEnd, Word
<1>4. /\ LaunchLine(words) <=> /\ o < N /\ form = "--"
                               /\ Consistent(words, o) /\ Given(words, "p", o) = {}
      /\ AttachLine(words) <=> /\ o = N + 1
                               /\ Consistent(words, o) /\ Given(words, "p", o) # {}
  <2>1. o <= N => form \notin OptionForms
    BY <1>3 DEF OptionForms
  <2> QED BY <1>0, <1>1, <2>1, LineHere
<1>5. parse.attach <=> Given(words, "p", o) # {}
  BY DEF Followed, Counted
<1>6. Consistent(words, o) <=> ~ \/ config.format = "json" /\ ~config.summary
                                 \/ config.format = "ndjson" /\ config.summary
                                 \/ config.seccomp /\ (parse.attach \/ config.filter # "some")
  <2>1. parse.letter = 1
    BY <1>3 DEF Followed, Within, OptionForms
  <2> QED BY <1>0, <2>1, ConsistentIs DEF Followed
<1>7. Refused(OptindAtEnd) <=>
        \/ IF parse.attach THEN sep > 0 \/ OptindAtEnd <= N
           ELSE sep = 0 \/ sep # OptindAtEnd - 1 \/ OptindAtEnd > N
        \/ ~Consistent(words, o)
  BY Zenon, <1>6 DEF Refused
<1>8. OptindAtEnd = IF o <= N /\ form = "--" THEN o + 1 ELSE o
  BY DEF OptindAtEnd, Word
<1>9. /\ sep \in Nat /\ sep # 0 => sep <= N /\ words[sep].form = "--"
  BY <1>1 DEF SeparatorFound
<1>10. ASSUME o < N, form = "--", Consistent(words, o), ~parse.attach
       PROVE  Launches(words, OptindAtEnd)
  <2>1. OptindAtEnd - 1 = o
    BY <1>0, <1>2, <1>8, <1>10
  <2>2. o \in Separators(words)
    BY <1>2, <1>10 DEF Separators
  <2>3. LaunchLine(words)
    BY <1>4, <1>5, <1>10
  <2> QED BY <2>1, <2>2, <2>3 DEF Launches
<1> HIDE DEF o, N, form, sep
<1>11. ASSUME Separate(words)
       PROVE  /\ ~Refused(OptindAtEnd) <=> LaunchLine(words) \/ AttachLine(words)
              /\ ~Refused(OptindAtEnd) /\ ~parse.attach => Launches(words, OptindAtEnd)
  <2>1. /\ o > N => sep = 0
        /\ o <= N /\ form = "--" => sep = o
        /\ o <= N /\ form = "word" => sep = 0
        /\ o <= N /\ form = "-" => sep \in Nat /\ (sep = 0 \/ sep > o)
    BY <1>0, <1>1, <1>2, <1>11, SeparatorHere DEF o, N, form, sep
  <2> DEFINE A == parse.attach <=> TRUE
             L == (~A /\ o < N /\ form = "--") \/ (A /\ o = N + 1)
             R == IF A THEN sep > 0 \/ OptindAtEnd <= N
                  ELSE sep = 0 \/ sep # OptindAtEnd - 1 \/ OptindAtEnd > N
  <2>2. R <=> ~L
    <3> HIDE DEF A
    <3>1. CASE o > N
      <4>1. OptindAtEnd = o /\ sep = 0 /\ o = N + 1
        BY <1>0, <1>2, <1>8, <2>1, <3>1
      <4> QED BY <1>0, <1>2, <3>1, <4>1
    <3>2. CASE o <= N /\ form = "--"
      <4>1. OptindAtEnd = o + 1 /\ sep = o
        BY <1>8, <2>1, <3>2
      <4> QED BY <1>0, <1>2, <3>2, <4>1
    <3>3. CASE o <= N /\ form # "--"
      <4>1. OptindAtEnd = o /\ sep \in Nat /\ (sep = 0 \/ sep > o)
        BY <1>3, <1>8, <2>1, <3>3
      <4> QED BY <1>0, <1>2, <3>3, <4>1
    <3> QED BY <1>0, <1>2, <3>1, <3>2, <3>3
  <2>3. ~Refused(OptindAtEnd) <=> L /\ Consistent(words, o)
    BY Zenon, <1>7, <2>2
  <2>4. LaunchLine(words) \/ AttachLine(words) <=> L /\ Consistent(words, o)
    BY Zenon, <1>4, <1>5
  <2>5. ASSUME ~Refused(OptindAtEnd), ~parse.attach PROVE Launches(words, OptindAtEnd)
    <3>1. o < N /\ form = "--" /\ Consistent(words, o)
      BY Zenon, <2>3, <2>5
    <3> QED BY <1>10, <2>5, <3>1
  <2> QED BY Zenon, <2>3, <2>4, <2>5
<1>12. ASSUME ~Refused(OptindAtEnd), parse.attach
       PROVE  AttachLine(words) \/ Overlooked(words)
  <2>1. ~(OptindAtEnd <= N) /\ Consistent(words, o) /\ Given(words, "p", o) # {}
    BY Zenon, <1>5, <1>7, <1>12
  <2>2. CASE o = N + 1
    BY <1>4, <2>1, <2>2
  <2>3. CASE o # N + 1
    <3>1. o = N /\ form = "--"
      BY <1>0, <1>2, <1>8, <2>1, <2>3
    <3>2. Len(words) \in Reached(words) /\ words[Len(words)].form = "--"
      BY <1>2, <3>1 DEF N, form, o
    <3>3. Consistent(words, Len(words)) /\ Given(words, "p", Len(words)) # {}
      BY <2>1, <3>1 DEF N
    <3> QED BY Zenon, <3>2, <3>3 DEF Overlooked
  <2> QED BY <2>2, <2>3
<1>13. ASSUME ~Refused(OptindAtEnd), ~parse.attach
       PROVE  Launches(words, OptindAtEnd) \/ OptindAtEnd \in Mistaken(words)
  <2>1. sep # 0 /\ sep = OptindAtEnd - 1 /\ ~(OptindAtEnd > N) /\ Consistent(words, o)
    BY Zenon, <1>7, <1>13
  <2>2. CASE o <= N /\ form = "--"
    <3>1. o < N
      BY <1>0, <1>2, <1>8, <2>1, <2>2
    <3> QED BY <1>10, <1>13, <2>1, <2>2, <3>1
  <2>3. CASE ~(o <= N /\ form = "--")
    <3>1. OptindAtEnd = o /\ o <= N /\ sep = o - 1 /\ o \in Nat
      BY <1>0, <1>2, <1>8, <2>1, <2>3
    <3>2. form \in {"word", "-"} /\ words[o - 1].form = "--" /\ o \in 2..(N + 1)
      BY <1>0, <1>2, <1>3, <1>9, <2>1, <2>3, <3>1
    <3>3. Chain(Reached(words), words, N)
      BY <1>0, ReachedIs DEF N
    <3>4. PICK i \in Reached(words) : i < o /\ IsOption(words, i, o)
      BY <1>2, <3>2, <3>3 DEF Chain
    <3>5. i \in Nat
      BY <3>3 DEF Chain
    <3>6. o \in {i + 1, i + 2} /\ words[i].form \in OptionForms
      BY <3>4, <3>5, OptionShape
    <3>7. i = o - 2
      <4>1. i # o - 1
        BY <3>2, <3>6 DEF OptionForms
      <4> QED BY <3>1, <3>5, <3>6, <4>1
    <3>8. Given(words, "p", o) = {}
      BY <1>5, <1>13
    <3>9. /\ o \in Reached(words) /\ o <= Len(words) /\ words[o].form \in {"word", "-"}
          /\ Consistent(words, o)
      BY <1>2, <2>1, <3>1, <3>2 DEF N, form, o
    <3>10. \E j \in Reached(words) : j = o - 2 /\ IsOption(words, j, o) /\ words[o - 1].form = "--"
      BY Zenon, <3>2, <3>4, <3>7
    <3>11. o \in Mistaken(words)
      BY Zenon, <3>8, <3>9, <3>10 DEF Mistaken
    <3> QED BY <3>1, <3>11
  <2> QED BY <2>2, <2>3
<1> QED BY Zenon, <1>11, <1>12, <1>13

-----------------------------------------------------------------------------
(* While the command line is read. *)
ReadInv ==
  step = "cli" =>
    /\ words \in Lines /\ AsInUsage
    /\ parse.action = "parse" => Followed(words, parse, config)

LEMMA ReadInit == Init => ReadInv
<1> SUFFICES ASSUME Init PROVE ReadInv
  OBVIOUS
<1> USE DEF Init, CliInit
<1>1. words \in Lines
  BY CliAssumption DEF Lines
<1>2. Len(words) \in Nat
  BY <1>1 DEF Lines
<1>3. AsInUsage
  BY DEF AsInUsage
<1>4. IsParse(parse) /\ IsConfig(config)
  <2>1. IsParse(parse)
    BY Zenon DEF IsParse
  <2> QED BY Zenon, <2>1 DEF IsConfig, config_init
<1>5. Progress(words, 1) /\ \A name : Given(words, name, 1) = {}
  BY <1>2, ProgressStart
<1>6. SeparatorAhead(words, 1, separator_index(words)) /\ SeparatorFound(words, separator_index(words))
  <2>1. PICK f : Separates(f, words, 1) /\ separator_index(words) = f[1]
    BY <1>2, SeparatorIs
  <2>2. 1 \in 1..(Len(words) + 2)
    BY <1>2
  <2>3. /\ f[1] \in Nat
        /\ f[1] = 0 \/ (f[1] >= 1 /\ f[1] <= Len(words) /\ words[f[1]].form = "--")
    BY <1>2, <2>1, <2>2, SeparatorBeyond
  <2> QED BY <2>1, <2>3 DEF SeparatorAhead, SeparatorFound
<1>7. Counted(words, 1, FALSE, FALSE)
  BY <1>5 DEF Counted, Single
<1>8. Noted(words, 1, 1, config)
  <2>1. /\ config.mode = "launch" /\ config.format = "text" /\ config.summary = FALSE
        /\ config.seccomp = FALSE /\ config.filter = "none"
    BY DEF config_init
  <2>2. FormatBefore(words, 1) = "text"
    BY <1>5 DEF FormatBefore
  <2>3. ~Before(words, 1, 1, "c") /\ ~Before(words, 1, 1, "seccomp-bpf")
    <3>1. 1 \in Nat \ {0}
      OBVIOUS
    <3> QED BY <3>1, LettersBefore
  <2> QED BY <1>5, <2>1, <2>2, <2>3 DEF Noted
<1>9. Within(words, 1, 1)
  BY DEF Within
<1>10. Followed(words, parse, config)
  <2>1. /\ parse.optind = 1 /\ parse.letter = 1 /\ parse.separator = separator_index(words)
        /\ parse.attach = FALSE /\ parse.filter = FALSE
    OBVIOUS
  <2> QED BY <1>4, <1>5, <1>6, <1>7, <1>8, <1>9, <2>1 DEF Followed
<1> QED BY <1>1, <1>3, <1>10 DEF ReadInv

LEMMA ReadOption ==
  ASSUME ReadInv, step = "cli", ParseOption
  PROVE  /\ words' \in Lines /\ AsInUsage'
         /\ parse'.action = "parse" => Followed(words', parse', config')
<1>1. /\ words \in Lines /\ words' = words /\ parse.action = "parse" /\ ~AtEnd
      /\ Followed(words, parse, config)
  BY DEF ReadInv, ParseOption
<1>2. AtOption
  BY <1>1 DEF Followed, AtOption
<1>3. PICK action, optind, letter, attach, filter, separator :
        parse = [action |-> action, optind |-> optind, letter |-> letter,
                 attach |-> attach, filter |-> filter, separator |-> separator]
  BY <1>1 DEF Followed, IsParse
<1>4. ASSUME NEW a, parse' = [parse EXCEPT !.action = a] PROVE parse'.action = a
  BY <1>3, <1>4
<1>5. CASE Unrecognized \/ Invalid(Letter)
  <2>1. parse'.action = "error"
    BY <1>4, <1>5 DEF ParseOption
  <2>2. Counted(words, parse.optind, parse.attach, parse.filter)
    BY <1>1 DEF Followed
  <2>3. ~(LaunchLine(words) \/ AttachLine(words))
    BY <1>2, <1>5, <2>2, OptionRefused
  <2> QED BY <1>1, <2>1, <2>3 DEF AsInUsage
<1>6. CASE ~(Unrecognized \/ Invalid(Letter)) /\ Letter \in {"h", "help", "version"}
  <2>1. parse'.action \in {"help", "version"}
    BY <1>4, <1>6 DEF ParseOption
  <2> QED BY <1>1, <2>1 DEF AsInUsage
<1>7. CASE ~(Unrecognized \/ Invalid(Letter)) /\ Letter \notin {"h", "help", "version"}
  <2>1. Taken(parse') /\ config' = Configured(Letter)
    BY <1>7 DEF ParseOption, Taken
  <2>2. Followed(words, parse', config')
    BY <1>1, <1>7, <2>1, FollowedStep
  <2>3. parse'.action = "parse"
    <3>1. Advanced.action = "parse" /\ "action" \in DOMAIN Advanced
      <4>1. CASE Last
        BY <1>1, <1>3, <4>1 DEF Advanced
      <4>2. CASE ~Last
        BY <1>1, <1>3, <4>2 DEF Advanced
      <4> QED BY <4>1, <4>2
    <3> QED BY <2>1, <3>1 DEF Taken
  <2> QED BY <1>1, <2>2, <2>3 DEF AsInUsage
<1> QED BY <1>5, <1>6, <1>7

LEMMA ReadValidated ==
  ASSUME ReadInv, step = "cli", validate_config
  PROVE  words' \in Lines /\ AsInUsage' /\ parse'.action # "parse"
<1>1. /\ words \in Lines /\ words' = words /\ AtEnd
      /\ Followed(words, parse, config)
  BY DEF ReadInv, validate_config
<1>2. /\ parse' = [parse EXCEPT !.action = IF Refused(OptindAtEnd) THEN "error" ELSE "run"]
      /\ config' = IF parse.attach THEN [config EXCEPT !.mode = "attach"]
                   ELSE [config EXCEPT !.command = OptindAtEnd]
  BY DEF validate_config, OptindAtEnd
<1>3. PICK action, optind, letter, attach, filter, separator :
        parse = [action |-> action, optind |-> optind, letter |-> letter,
                 attach |-> attach, filter |-> filter, separator |-> separator]
  BY <1>1 DEF Followed, IsParse
<1>4. parse'.action = IF Refused(OptindAtEnd) THEN "error" ELSE "run"
  <2> DEFINE a == IF Refused(OptindAtEnd) THEN "error" ELSE "run"
  <2> HIDE DEF a
  <2>1. parse' = [parse EXCEPT !.action = a]
    BY <1>2 DEF a
  <2>2. parse'.action = a
    BY <1>3, <2>1
  <2> QED BY <2>2 DEF a
<1>5. PICK mode, format, output, limit, follow, summary, seccomp, filtering, command :
        config = [mode |-> mode, format |-> format, output |-> output, limit |-> limit,
                  follow |-> follow, summary |-> summary, seccomp |-> seccomp,
                  filter |-> filtering, command |-> command]
  BY <1>1 DEF Followed, IsConfig
<1>6. config.mode = "launch"
  BY <1>1 DEF Followed, Noted
<1>7. /\ parse.attach => config'.mode = "attach"
      /\ ~parse.attach => config'.mode = "launch" /\ config'.command = OptindAtEnd
  <2>1. CASE parse.attach
    BY <1>2, <1>5, <2>1
  <2>2. CASE ~parse.attach
    BY <1>2, <1>5, <1>6, <2>2
  <2> QED BY <2>1, <2>2
<1>8. /\ Separate(words) =>
           /\ ~Refused(OptindAtEnd) <=> LaunchLine(words) \/ AttachLine(words)
           /\ ~Refused(OptindAtEnd) /\ ~parse.attach => Launches(words, OptindAtEnd)
      /\ ~Refused(OptindAtEnd) =>
           IF parse.attach THEN AttachLine(words) \/ Overlooked(words)
           ELSE Launches(words, OptindAtEnd) \/ OptindAtEnd \in Mistaken(words)
  BY <1>1, ValidatedRight
<1>9. parse'.action = "run" <=> ~Refused(OptindAtEnd)
  BY <1>4
<1>10. /\ Separate(words) =>
            /\ parse'.action = "run" <=> LaunchLine(words) \/ AttachLine(words)
            /\ parse'.action = "run" /\ config'.mode = "launch" => Launches(words, config'.command)
       /\ parse'.action = "run" =>
            IF config'.mode = "launch"
              THEN Launches(words, config'.command) \/ config'.command \in Mistaken(words)
              ELSE AttachLine(words) \/ Overlooked(words)
  <2>1. CASE parse.attach
    <3>1. config'.mode = "attach" /\ config'.mode # "launch"
      BY <1>7, <2>1
    <3> QED BY Zenon, <1>8, <1>9, <2>1, <3>1
  <2>2. CASE ~parse.attach
    <3>1. config'.mode = "launch" /\ config'.command = OptindAtEnd
      BY <1>7, <2>2
    <3> QED BY Zenon, <1>8, <1>9, <2>2, <3>1
  <2> QED BY <2>1, <2>2
<1>11. AsInUsage'
  <2>1. /\ Separate(words') =>
            /\ parse'.action = "run" <=> LaunchLine(words') \/ AttachLine(words')
            /\ parse'.action = "run" /\ config'.mode = "launch" => Launches(words', config'.command)
        /\ parse'.action = "run" =>
            IF config'.mode = "launch"
              THEN Launches(words', config'.command) \/ config'.command \in Mistaken(words')
              ELSE AttachLine(words') \/ Overlooked(words')
    BY Zenon, <1>1, <1>10
  <2> QED BY Zenon, <2>1 DEF AsInUsage
<1> QED BY <1>1, <1>4, <1>11

LEMMA ReadStep == ReadInv /\ [Next]_vars => ReadInv'
<1> SUFFICES ASSUME ReadInv, [Next]_vars, step' = "cli"
             PROVE  /\ words' \in Lines /\ AsInUsage'
                    /\ parse'.action = "parse" => Followed(words', parse', config')
  BY DEF ReadInv
<1>1. CASE ParseStep
  <2>1. step = "cli" /\ CliNext
    BY <1>1 DEF ParseStep
  <2>2. CASE ParseOption
    BY <2>1, <2>2, ReadOption
  <2>3. CASE validate_config
    <3>1. words' \in Lines /\ AsInUsage' /\ parse'.action # "parse" /\ words' = words
      BY <2>1, <2>3, ReadValidated DEF validate_config
    <3> QED BY <3>1
  <2> QED BY <2>1, <2>2, <2>3 DEF CliNext
<1>2. ASSUME step = "cli", UNCHANGED <<words, parse, config>>
      PROVE  /\ words' \in Lines /\ AsInUsage'
             /\ parse'.action = "parse" => Followed(words', parse', config')
  BY <1>2 DEF ReadInv, AsInUsage
<1>3. CASE UNCHANGED vars
  BY <1>2, <1>3 DEF vars, session
<1>4. CASE ChildStep
  BY <1>2, <1>4 DEF ChildStep
<1>5. ASSUME NEW s \in Signals, Signalled(s) PROVE step = "cli" /\ UNCHANGED <<words, parse, config>>
  BY <1>5 DEF Signalled
<1>6. CASE Over
  BY <1>2, <1>6 DEF Over, vars, session
<1>7. CASE LoopEvent
  BY <1>7 DEF LoopEvent, InLoop
<1>8. ASSUME ~ParseStep, ~ChildStep, ~Over, ~LoopEvent, ~UNCHANGED vars,
             \A s \in Signals : ~Signalled(s)
      PROVE  FALSE
  BY <1>8 DEF Next, Parsed, Exit, open_output, sg_output_init, Fails, Abandon,
     prepare_seccomp_program, launch_tracee, AddRoot, wait_for_initial_stop,
     install_ptrace_options, prepare_attach, install_shutdown_handlers, LoopEventFails,
     LoopGivesUp, LoopFails, LoopEnds, LoopShutdown, CleanUp, Restore,
     sg_output_write_summary, write_benchmark_metrics, Destroy, Close
<1> QED BY <1>1, <1>2, <1>3, <1>4, <1>5, <1>6, <1>7, <1>8

(* sg_cli_parse's loop, separator_index and validate_config against the    *)
(* usage text, for command lines of any length, with any values, clusters  *)
(* and abbreviations: where every option with a value in a word of its own *)
(* stands alone and in full, a line is accepted exactly if the grammar has *)
(* it, and the command is what follows its separator.  Any other line that *)
(* is accepted is the grammar's, or its "--" is an option's value that a   *)
(* command follows, or it is an attach line with a "--" at its end.        *)
THEOREM UsageFollowed == Spec => []UsageAccepted
<1>1. ReadInv => UsageAccepted
  BY DEF ReadInv, UsageAccepted
<1> QED BY <1>1, ReadInit, ReadStep, PTL DEF Spec
=============================================================================
