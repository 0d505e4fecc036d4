# sysgaze: a TLA+ verification project

sysgaze is a small `strace` for Linux on x86-64: it launches a command or
attaches to a running process, follows its system calls through `ptrace`, and
prints them as text, as NDJSON or as a table of totals.  This directory models
the parts of it in which a mistake is hard to see and hard to test, checks the
models with TLC and proves the parts that lend themselves to it with TLAPS.
Paths of the form `src/src/trace.c:617` are relative to the directory above.

## 1. The system

### Components

| component | where | state | operations |
|---|---|---|---|
| trace loop | `trace.c:354-832`, `1099-1250`, `1386-1563` | a record per tracee (pending call, interrupted call, stop, first-stop flag), root tid and status | `waitpid`, one handler per kind of stop, resumption |
| shutdown and cleanup | `trace.c:1252-1384`, `1565-` | `shutdown_signal` | signal handler; kill and reap; interrupt and detach |
| attach | `trace.c:886-1097` | the tracee table, the round | list `/proc/PID/task`, `PTRACE_SEIZE`, repeat, `PTRACE_INTERRUPT` |
| launch | `trace.c:143-352`, `1565-1666` | the child, the output stream, memory, handlers | `fork`, initial stop, options, seccomp in the child, `execvp`; the way to the exit status |
| tracee table | `tracee_table.c` | open-addressed slots, `count`, `tombstones` | get, insert (with resizing), remove, iterate |
| output: unfinished lines | `output.c:101-270`, `462-476` | `unfinished_tids` | flush, resume, exit, migrate on exec |
| output: rendering | `output.c` | the stream and what it buffers | metadata, event and summary lines, JSON quoting |
| argument decoder | `decoder.c`, `event.h` | the strings captured at a call's entry | capture, decode, release; reads of the tracee's memory |
| filter | `filter.c` | a bit set | parse `-e trace=EXPR`, contains, count |
| seccomp program | `trace.c:131-223` | a BPF program | generate, install |
| statistics | `stats.c` | rows and 64-bit totals | record, sorted copy |
| command line | `cli.c`, `main.c` | `struct sg_config`, `optind`, the separator | parse, validate |
| buffer | `buffer.c` | data, length, capacity | reserve, append, format, reset, destroy |
| catalogue | `syscall_catalog.*` | a constant, sorted table | binary search by number |

The tracer is one thread.  What makes it hard is the other side: the tasks it
traces run, create tasks, exec, die and get signals between any two of its
steps, and the kernel tells it only through `waitpid`, one task at a time.  The
loop infers from a status, from the tracee's record and from a further `ptrace`
request what the task is doing; by the time it asks, the task may be dead or may
be another one that took over its tid.  The only asynchronous step of the
tracer itself is the handler of SIGINT and SIGTERM, which sets a variable.

### What makes the parts correct

* Trace loop: each selected call is reported once, with the result its caller
  saw; the tracer's idea of "inside a call" never gets out of step with the
  kernel's; a signal sent to the program reaches it; a stopped task is always
  answered; a job-control stop stays one; the exit status is the command's.
* Cleanup: it ends; what was attached goes on untraced, with its signals.
* Attach: what is in the table can report; a round that finds nothing new has
  missed nothing; the limit on the rounds is not met early.
* Table: the probe loop, which has no bound, ends; a record is found exactly if
  it was stored; records survive resizing.
* Filter and BPF: an expression means what it says; a bad one changes nothing;
  the program stops exactly the selected calls and fits its memory.
* Statistics: totals never wrap and always agree with the rows; the order of
  the rows does not depend on `qsort`.
* Decoder: input arguments are those of the entry, whatever memory is by the
  time of the line; what is shown of a string or buffer is told to be all of it
  only if it is; the quotes can be found again; no captured string is lost.
* Buffer: no write outside the block and no endless loop, up to `SIZE_MAX`.
* A run as a whole: the command line means what the usage text says; whichever
  step fails, no child is left, nothing stays allocated or open, the stream is
  well-formed as far as it goes, and success means a complete output.

`PROJECT.json` lists the hazards behind these, each at its line.

## 2. The modules

| module | models | state |
|---|---|---|
| `PtraceKernel` | external: Linux tasks, signals and `ptrace` as `trace.c` uses them | `task[t]`: what the kernel knows of a task; `result`, `made`: the calls as the program sees them; `faults`: signals lost or injected; `config` |
| `Tracer` | `trace_loop`, its handlers, launch after the initial stop, the interrupts that end `prepare_attach`, cleanup, the unfinished lines of the output | `tracees`, `out`, `pc`, `cur`, `root`, `shutdown`, `end`, `todo` |
| `TraceContract` | abstract: what a trace owes its reader | `result`, `report` |
| `Attach` | `prepare_attach` and a target that creates and ends threads | `thr`, `table`, `ids`, `round`, `added`, `pc` |
| `TraceeTable` | `tracee_table.c` | `slots`, `capacity`, `count`, `tombstones`, the resize in progress |
| `TraceeMap` | abstract: a finite map | the map and the last reply |
| `SyscallFilter` | `filter.c` and `prepare_seccomp_program` | the terms, the cursor, `candidate`, `filter`, the program |
| `Stats` | `stats.c` | `rows`, `total`, the last return value |
| `Buffer` | `buffer.c` | `mem`, `length`, `capacity`, the call in progress; history: what was appended |
| `SyscallCatalog` | `sg_syscall_by_number` | the search in progress |
| `Decoder` | `decoder.c` with the catalogue, one call at a time | `mem`: the tracee's memory; `event`, `saved` (captured strings), `line`; history: the memory during the entry stop |
| `Cli` | `cli.c` | `words`, `parse`, `config` |
| `Session` | `main`, `sg_trace_run` around the loop, the lines of `output.c` | `step`, `success`, `stream`, `lines`, `target`, `held`, `handlers`, ... |
| `TracerMC`, `TraceeTableMC`, `SyscallFilterMC`, `SupportMC`, `DecoderMC`, `SessionMC` | small instances for TLC | |
| `TraceeTableProofs`, `AttachProofs`, `SupportProofs` (`Buffer`, `Stats`), `DecoderProofs`, `SyscallFilterProofs`, `SessionProofs`, `KernelProofs` (the tasks), `TracerProofs` | theorems | |

`Tracer` extends `PtraceKernel`, `Decoder` extends `SyscallCatalog`, `Session`
extends `Cli`.

### Tracer over PtraceKernel

`Tracer` extends `PtraceKernel`.  A turn of the loop is three steps: `Wait`
(`waitpid`), one of the handlers (`SyscallEntry`, `SyscallExit`, `EventStop`,
`ForkStop`, `ExecStop`, `NewbornStop`, `SignalStop`, `GroupStop`, `Exited`,
`Untracked`), and `Resume`.  They are separate because the tasks can act in
between: another thread's `exit_group` destroys the stop that was just
reported (`RequestFails`, `ResumeTooLate`), another thread's exec takes over
the tid (which also makes PTRACE_LISTEN fail, `ListenFails`), a signal arrives.  Within a handler several `ptrace` requests follow
each other; they are one step, which loses only that a task may die between
the first and the second request of one handler, with the same outcome as dying
before the first.

A tracee's record keeps the fields of `struct sg_tracee` that steer the loop.
`has_pending_syscall` and `pending_syscall` are one field, `NoCall` when the
flag is off; so are the interrupted call and its flag.  A call is a number and
an identity, so that the report of a call can be compared with how that very
call ended.  The identity is never looked at by an action of the tracer.

`config` is the command line together with the program to be traced: which
calls it makes, which signals it is sent, how many.  It is chosen in `Init` and
never changes, so that one run covers a set of such worlds.

The kernel's side has what the code depends on: entry, exit and seccomp stops;
fork, vfork, clone and exec events; the child that runs before its parent's
event; an exec that takes over the leader's tid; signals blocked while their
handler runs; restarts, either at once or after the handler's `rt_sigreturn`,
and sleeps through `restart_syscall`; group stops, `PTRACE_LISTEN`; a leader
whose death is reported last.

`out.report[i]` is what was printed about call *i*; `out.shown` and
`out.resumed` are the calls with an `<unfinished ...>` and with a
`<... resumed>` line.

`heap` holds the allocated arrays of captured strings, as numbers.  A capture
takes a number that is not in use, and a record has the number of its pending
and that of its interrupted call in `pendArgs` and `intrArgs`, 0 for none.  So
the two captures of a call that the kernel makes a task enter again are two
elements, and `StringsOwned` says that the allocated ones are those the records
point to, each from one place, and at the end none.

Each place where a handler can fail is a step with what has been done by then:
`EntryFails` (the entry of a call while another is pending, the two writes of
`begin_syscall`, its capture for want of memory, its flush), `WriteFails` (the
line of a completed call, of a child, of an execve, of a signal),
`ExitWriteFails` and `NoMemory` (`add_tracee` at its three places in the loop).

### Attach

`thr[t].late` marks a thread that descends from a seized one and was not there
at the last listing.  Without `-f` such a thread cannot be known to the tracer,
and `AttachComplete` exempts it.  `died` remembers that some thread ended,
which `AttachComplete` also needs (section 6).

### TraceeTable

Each call is a step, except an insertion that resizes, which takes a step per
old slot: the loop of `resize_table`.  The hash is any function, so the proofs
do not rest on the quality of `hash_tid`; allocation may fail at any time.

### Buffer

An append is its overflow check, a step per turn of the doubling loop, the
`realloc`, which may fail, and the copy.  Numbers wrap as `size_t` does.

### Decoder

Memory is a function on the mapped addresses, so that a read ends where the
mapping does.  A cell holds a byte, a pointer or a field alike, with the sizes
of the structures in cells; flag words are sets of bits.  `Scribble` is another
thread writing to memory at any time after the entry stop began, and `Return`
also stores what the call stores.  A quoted string is modelled character by
character as far as quoting goes, since `QuotesDelimit` is about that.

### Cli and Session

A word of the command line is given by how `getopt_long` and `separator_index`
see it (`Forms`): "--", "-", a plain word, a cluster of letters, a long option
in full or abbreviated, the latter three with a text attached, an empty one as
in `--format=`, or none (`NoText`).  `ParseOption` is one turn of the option
loop, which goes through a cluster letter by letter.  `LaunchLine` and
`AttachLine` are an independent reading of the usage text as a grammar: which
places of a line can be the end of a run of options (`Reached`, a recursive
function whose value is a set), and whether a run that ends there is
consistent.  `UsageAccepted` compares that with the parser's verdict, for every
line.  Where each option that takes the next word stands alone and in full
(`Separate`), the two agree exactly, and what is run is the command behind the
separator.  Elsewhere `separator_index` and `getopt_long` may disagree; then
the property says how far: what is accepted is in the grammar too, or it is a
line in which a "--" is the value of an option and a command follows
(`Mistaken`), or an attach line with a "--" at its end (`Overlooked`).

`Session` goes on from there, one action per step of `sg_trace_run`, each with
its failure.  The loop is reduced to what the rest sees of it: a line is
written or not, the loop fails, ends, or is shut down.  A signal may come at
any step.  `target` is the child (`forked`, `stopped`, traced with
`PTRACE_O_EXITKILL`) or the process attached to.

## 3. What TLC checks

Deadlock is checked except where a stopped or a finished program may leave
nobody with anything to do.

| run | asks | distinct states |
|---|---|---|
| `Tracer` | Is each call reported once and rightly, through interruptions, restarts and EINTR, plain and under `--seccomp-bpf`?  Do threads, forks, vforks and execs of either thread keep lines, pending calls, captured strings and exit status straight?  Does every signal reach the program, does an attached process stay stopped until SIGCONT?  Is exit status 126 of the setup told from the command's? (`RefinesContract`, `ReportsComplete`, `PendingInStep`, `LinesPaired`, `StringsOwned`, `StatusPropagated`, `SetupFailureTold`, `SignalsPreserved`, `GroupStopHonoured`, `TypeOK`) | 728,364 |
| `TracerShutdown` | SIGINT, failing output or failing allocation at any moment: is every stop answered, does the cleanup end, is nothing left traced, no signal and no string lost? (`StopsAnswered`, `CleanupEnds`, `AllDetached`, `SignalsPreserved`, `StringsOwned`) | 103,702 |
| `TraceeTable` | Is the hash table a map, through tombstones and resizes? (`RefinesMap`, `FindsStored`, `ProbeTerminates`, `CountsExact`, `TypeOK`) | 2,593 |
| `Attach` | Is attaching complete while threads come and go? (`AttachComplete`, `NoGhosts`, `RoundsProgress`, `TypeOK`) | 28,130 |
| `SyscallFilter` | Does every expression of up to three terms select what the README says, save what it takes back, and does the BPF program do the same? (`FilterMeaning`, `ProgramExact`) | 29,342 |
| `Support` | The two passive modules, each while the other is untouched.  Are totals, rows and their order right up to the limits of the counters?  Does the buffer's growth arithmetic hold up to `SIZE_MAX`, and what is kept through failures? (`TotalsTrue`, `SortDeterministic`; `InBounds`, `ContentKept`, `GrowthProgress`) | 84,953 |
| `Decoder` | Is what a line shows of memory true? (`LookupExact`, `InputsAsEntered`, `QuotesDelimit`, `ExtentTrue`, `FlagsExact`) | 963,728 |
| `Session` | Which command lines are accepted, clusters and abbreviations included, and what is left when a step fails or a signal comes? (`UsageAccepted`, `StreamInOrder`, `OutputComplete`, `NothingLeftBehind`) | 2,649,845 |

`RefinesContract` and `ReportsComplete` are stated for unfollowed commands that
get at most one signal and in which no handler makes a call fail with EINTR, or
that call is the only one (`ToldApart`): a later call of the same number would
be taken for its restart.  `ReportsComplete` also leaves out SIGKILL, which can
come when a call has ended and its exit stop has not been handled, and filters
that select `nanosleep` without `restart_syscall`, as which a sleep goes on
after an ignored signal.  `LinesPaired` is stated for programs without signals
(section 6 says why).  `SignalsPreserved` is stated for the commands and
processes where it is certain which SIGSTOP is `ptrace`'s own
(`OwnStopCertain`): a launched command that is not followed, or no SIGSTOP from
outside and, to a followed one, no signal that would come before it.  Each is vacuous in the other worlds of the run.

Four more runs end in a counterexample; they document where the code does not
do what its documentation says (section 6).

### Bounds

* Two tids.  Every race in the loop is between one task and the tracer, or
  between two tasks: a parent and its child, two threads and an exec, two
  tracees of which one is detached first.  Nothing counts tasks.
* One to three calls besides the exits and `rt_sigreturn`s, one or two signals.
  Two signals are what a handler within a handler, a stop and its SIGCONT, or a
  signal next to a stop takes; three calls are what it takes to interrupt a
  call, make another in the handler, and go on.
* `MaxIds` is the sum of these, so that the bound itself never stops a task
  that has to make a call (`KernelAssumption`).
* `Attach`: two threads at first and three more; three rounds, so that the
  limit is met.
* `TraceeTable`: capacities 2, 4 and 8, two keys that collide and one that
  wraps.  The theorems remove these bounds.
* `SyscallFilter`: words of 3 bits, so that word boundaries are crossed, a
  catalogue with a gap, overlapping classes, and the five sorts of term.
* `Stats`: counters up to 4 and seconds of 2 ns: every counter meets its limit.
* `Buffer`: a `SIZE_MAX` small enough for the overflow check, the last doubling
  and the exact fit all to happen.  The theorems remove the bound.
* `Decoder`: a limit of 2 bytes, vectors of up to 3, memories of up to 4 cells
  with each class of byte, sizes and results below, at and above the limit; one
  call of every shape, since calls share nothing.
* `Session`: command lines of up to four words out of 26, enough for every
  option with its value next to the separator and a command, every conflict, a
  cluster, an abbreviation, an empty value, and a value that is "--" itself.
  Two event lines, so that one can follow a failed one.

### Fairness

`FairSpec` is used for liveness.  It assumes that the tracer's process is
scheduled (it is never blocked except in `waitpid`, which the model has as
actions that are not enabled), that a task which has something to do inside the
kernel does it, and that the kernel releases the tasks of a tracer that exited.
It does not assume that a program makes another call, that a read returns, that
an exec begins, or that a signal ever comes.
The worlds of `TracerShutdown` have both an attached and a launched program.

## 4. What is proved

For every value of the constants that satisfies the module's `ASSUME`.

`TraceeTableProofs`, from `TableAssumption` (any hash into the naturals, an
initial capacity above 1, any limit on the capacity):

* `ProbesTerminate`, `StoredAreFound`, `CountersExact`, `TypesKept`;
* `ImplementsMap`: the table implements `TraceeMap`.

The invariant is inductive only with more than the properties say.  The key
part is `WellPlaced`: no EMPTY slot comes before a record on the record's own
probe sequence.  Removing leaves a tombstone, and so cannot break it; storing
at the slot where the probe ended cannot either.  With `Unique` and an EMPTY
slot somewhere (which the load limit and exact counters give) it yields that
find stops, and stops at the record if there is one.  While a resize is under
way the invariant also relates old and new slots: the new ones hold exactly the
records of the old slots already passed, and there is room for the rest.  The
counting lemmas rest on `FiniteSetTheorems`.

`AttachProofs`, from `AttachAssumption` (finitely many threads, at least one
round):

* `TypesKept`, `TableHasNoGhosts`, `RoundsBounded`, `AttachesAll`.

Here the strengthening is `StillToCome`: as long as nothing was seized in a
round and every tid still to come is known, no thread has been missed.  It
holds after the listing, because listing clears `late` and lists every live
thread; it survives clones, because the child of a traced or late thread is
late; and at the end of the round it is `MissedNone`.  `RoundsBounded` needs
that a round with `added > 0` has one more table entry than rounds before it.

`SupportProofs`, about `Buffer`, from `BufferAssumption` (any `SIZE_MAX`, any initial capacity
from 1 to it):

* `NeverOutOfBounds`, `KeepsContent`, `LoopProgresses`.

The strengthening relates the call in progress to the buffer: `required` is
length plus text plus one and did not wrap, and the capacity under computation
is at least the old one, so that a `realloc` never shrinks; then a copy ends
inside the block.

`DecoderProofs`, from `CatalogAssumption` (any table sorted by number) and
`DecoderAssumption` (a call has at most six arguments):

* `SearchIsExact`: the entries left of the range are smaller than the number,
  the ones right of it are not (`Bracketed`), which each narrowing keeps because
  the table is sorted; where the two meet, only one entry can match.
* `QuotesFound`: a quoted argument ends at its closing quote, whatever bytes it
  was made of.  What a reader does with the characters is a recursive function
  over the line; it is shown to leave the reader inside the quotes after every
  escaped byte, and so at the end of them.  The same for the escaping that an
  NDJSON line does once more.
* `ExtentShown`: a buffer is shown to its end or with an ellipsis, and never
  beyond what the call stored; a string or vector without an ellipsis ended
  where it ends.
* `FlagsToTheBit`: the fold over the table of flag names takes each bit of the
  word once.  After any number of entries, what was named and what is left are
  the word and do not overlap.
* `InputsTrue`: the input arguments in a line are those of the entry stop.  The
  invariant (`Entered`) follows the capture: the arguments before `index` are
  saved as some memory of the entry stop has them (`Captures`), the history
  `during` only grows while the task is in that stop, and by the time a line is
  written every input argument is saved.  The
  theorem also says that the descriptor by which all this is decided is the one
  of the call's number.

`SupportProofs`, about `Stats`, from `StatsAssumption` (counters of any width, any catalogue, and
no call that takes `UINT64_MAX` nanoseconds to the second, the one input
`elapsed_nanoseconds` gets wrong, section 6):

* `CountsExactly`: the totals are what was recorded and the sums of the rows,
  and each syscall has one row with at least one call.  With the ranges of the
  counters it is inductive: a row `add_row` has just made is empty, so it has
  room for whatever the totals had room for, and is not left without a call.
  The sums are a recursive function over the rows; adding to one row adds as
  much to the sum.
* `OneOrder`: `compare_rows` is total, antisymmetric and transitive on distinct
  rows, so `qsort` has one result.

`SyscallFilterProofs`, from `FilterAssumption` (any catalogue, any classes, any
word size):

* `FilterAsWritten`: an accepted expression selects what the README says: the
  positive terms, or everything where there is none, less the negative ones.
  Only for a call that a positive term names again after a negative one
  (`Retaken`) does the last term decide instead (section 6).  The bits of the
  words are the selected numbers, since a number is a word and a bit of it in
  one way only; and a rejected expression leaves the caller's filter alone.
* `StopsWhatIsSelected`: the program that `prepare_seccomp_program` writes,
  run instruction by instruction, stops the selected calls and `rt_sigreturn`,
  turns away other ABIs, lets the rest through, and fills exactly the
  instructions that were allocated.

`SessionProofs`, from `SessionAssumption` (any signals, any number of lines)
and `CliAssumption` (the forms a word may have):

* `LeavesNothing`: the invariant says for each step what memory may be in use,
  what there may be of a target, which handlers are installed and what the
  stream is (`MemoryAt`, `TargetAt`, `HandlersAt`, `StreamAt`).
* `KeepsOrder` and `SuccessMeansComplete`: the lines are metadata, events,
  summary in that order and only the last may be cut (`InOrder`); what the
  stream still holds would go there (`Pending`); and as long as `success` holds,
  nothing is cut or held back (`OutputAt`).
* `UsageFollowed`: `UsageAccepted` for all lines, of any length and any forms of
  words.  The invariant (`ReadInv`) says that the option loop stands at a place
  the grammar reaches, or within a cluster there (`Within`), with the options it
  has taken so far, and that what it has set is what those options say; an
  option cannot be read in two ways at one place, so the place where the loop
  ends is where the grammar ends too.  Where the options are `Separate`,
  `separator_index` steps over the same words as the loop; elsewhere all that
  is known is that it finds the first "--" it comes to, and from that follow
  the two oddities and nothing else.

`TracerProofs`, on top of `KernelProofs`, from `KernelAssumption` (any finite set of tids, any calls,
signals, dispositions and command lines; a launched command begins as one
task; exit codes are bytes; the signals that stop by default are 19 to 22, and only
SIGCONT, 18, continues):

* `TypesKept`.  Its invariant is `Sound`, which all the others rest on.  It has
  the types of the kernel's task records with their fields in agreement (a task
  inside a call has one; the event of a fork or exec names a task); `Held`: what
  `waitpid` reported still is so when the loop acts on it, unless the task has
  died or another thread's exec has its tid; and `NoneFree`: no task is let go
  before the loop has ended.
* `NoStringLeaks`.  Inductive is `Owned`: the allocated strings are those the
  records of the table point to (`Accounted`), and each from one place only,
  pending or interrupted.  The hard cases are the entry of a call while an older
  capture of the same call is still held, where a restart must pass that one on
  and a new entry must keep the two apart, and the exec event, where
  `migrate_exec_tid` moves a record over another.
* `StaysInStep`.  For each task the invariant `InStep` relates the pending call
  to where the kernel has the task, in one way while its last stop is not
  answered (`Before`) and in another when it is (`After`).  For execs it needs
  that the thread whose execve it was is gone or the leader itself
  (`ExecLeft`), which in turn needs that a reaped task never changes and that a
  task never leaves its thread group (`Ages`).
* `StatusTrue`.  `Told`: the launched task keeps its tid for life, it is in the
  table until its death is recorded, and it was reaped with the status then
  recorded.  `Unharmed`: an undisturbed command is alone, and nothing
  but SIGKILL gets a task out of a ptrace-stop, so no request about it fails.
* `SetupTold`.  A task's `execd` changes only in the event of an execve, which
  the task waits for the tracer to answer (`SameProgram`); so once that event is
  answered `root.exec` says what the kernel does (`Execed`), and a setup that
  failed did so before (`FailedSetup`) and is noticed when the root's exit is
  handled (`Noticed`).
* `EveryoneLetGo`.  `Marked`: a record says `in_ptrace_stop` only of a task
  that is in one, has died in it or has been let go.  `Released`: whoever
  `detach_all_tracees` has done with is dead, untraced, or a tid taken over by
  a late exec.
* `GroupStopsKept`.  `AtRest`: every task of a stopped group has its group stop
  still before it, listens, or is in a group stop that has not been answered
  (`Resting`); one in the table may, once `InterruptRunning` has called it, also
  be about to report the interrupt (`Caught`).  What keeps that true is that
  `EventStop` chose to listen whenever `Resume` answers a group stop, which
  needs `Held` (the stop waitpid reported is still the one there, or an exec's),
  that only an untraced task can stop its group by itself, so that none is
  stopped before the first interrupts are through, and `Released`, since the
  tracer's exit drops the pending interrupt of a task it still traces.

* `SignalsKept`.  `faults`, where the kernel's side notes a signal that was lost
  or invented, stays empty.  `Proper`, about each task: ptrace's own SIGSTOP is
  still to come only for a newborn of a followed command, as its first signal
  and its only SIGSTOP.  `Expected`: such a task is new to the tracer until that
  stop is answered, so `SignalStop` suppresses this stop and no other.  `Meant`:
  what a stop is about to be resumed with is right, which again needs `Held`.
  `Noted`, for attached processes, which `detach_all_tracees` resumes with the
  recorded signal: that is the signal of the stop, and a task it does not know
  is a child on its way to its first stop, with no signal reported yet.

`KernelProofs` is the list of what a step can do to a
task record: an action of a task or a request of the tracer leaves it alone,
changes what no invariant looks at, moves it along its call, kills it (`Plain`),
sets it going again (`GoesOn`), hands its stop to `waitpid` (`Reported`) or
gives its tid to another thread (`TakenOver`).  The invariants are shown for
these effects.

Where induction over data is needed a least counterexample stands in for it: a
non-empty set of naturals has a least element (`LeastElement`).  In that way a
recursive function is shown to exist and to satisfy its equation, and what it
computes is then shown the same way.

Trying to prove them changed some properties.  `AllDetached` was false with
two attached threads and an exec (section 6) and now names the exception.
`PendingInStep` used to exempt only the end of an execve; the end of a fork that
had begun before the tracer attached is one too.  The premise of the second
half of `StatusPropagated` is now `Undisturbed` and no `--seccomp-bpf`, and
that of `SetupFailureTold` is `Undisturbed`.  `ToldApart` and `ReportsComplete`
got the premises named in section 3, and `SignalsPreserved` got
`OwnStopCertain`, without which it is false (section 6, the first SIGSTOP of a
new tracee).  `GroupStopHonoured` now allows for the interrupt of
`InterruptRunning` that a stopped task still has to report, and `ListenFails`
and the wait of `Stopped` came to light as steps the model lacked.

Only model-checked:

* `RefinesContract`, `ReportsComplete` and `LinesPaired`: their invariants would be about the calls and handlers each task has entered.
* All liveness, which with `ENABLED` is outside what the prover does.

## 5. Mutants

Each property of a passing run is paired in `PROJECT.json` with a change to one
definition that a plausible slip in the code would make (the operators marked
"A bug" in the modules), under which TLC finds the property violated.

## 6. Where the code and its documentation part

With a run that shows it:

* `FindFilterOrder`: the terms of a filter are applied one after the other, so
  `!read,%file` selects what `%file` does, and `!%file,%file` too: a positive
  term takes back what a negative one subtracted (`filter.c:148-197`; README:
  "Positive filter terms form the initial set; `!name` and `!%class` subtract
  from it").
* `FindPhantomError`: a restartable call interrupted by two handlers in a row is
  reported as EINTR though the kernel goes on with it (`trace.c:634-640`;
  README: "Kernel restart pseudo-errors are never reported").
* `FindGhostChild`: a followed child that exits and is reaped before its parent's
  fork event is added again by that event, and nothing removes it; `waitpid`
  then fails and so does the trace (`trace.c:1175`, `1415`).
* `FindLostShutdown`: a shutdown signal between the check and `waitpid` is not
  noticed while the tasks are quiet (`trace.c:1553`, `1406`).

Met while modelling, and kept out of the worlds of the passing runs so that
these can check the rest:

* An unfinished call whose handler makes a call: the handler's call is printed
  as the resumed one, since `unfinished_tids` holds tids and not calls
  (`output.c:192`).  So `LinesPaired` is stated for programs without signals,
  and without threads that exec, which inherit a stale entry.
* A program that repeats a call which failed with EINTR is taken for a restart,
  and the EINTR is not shown (`trace.c:617-620`): in the world `Failing` the
  program makes one such call.
* A sleep interrupted by an ignored signal goes on as `restart_syscall`; it is
  recognised as a restart only after `rt_sigreturn`, so here it is reported,
  and filtered, as a call of its own.
* A thread killed between `waitpid` and the next request about it makes the
  whole trace fail (`trace.c:751`, `1160`, `1513`), while the same at the
  resumption is tolerated (`1542`).  So with several tasks the run checks
  `StatusPropagated`, which speaks of traces that succeed.
* `kill_all_tracees` waits for all children but kills those in the table: a
  newborn process that is not in it yet is waited for in vain (`1316`).
* `detach_all_tracees` waits for its tracees one after the other: for a vfork
  parent, which cannot stop before its child goes on, for ever if the child
  comes later (`1361`).
* A launched command's group stop is not kept: it is resumed at once (`1517`).
  `GroupStopHonoured` speaks of attached processes.
* The first SIGSTOP of a new tracee is taken for `ptrace`'s own (`1508`): a
  genuine SIGSTOP to an attached task that comes first is swallowed, and when
  another signal comes first, `ptrace`'s own is injected.
* `Attach`: a thread that was created by one which died before it was seized can
  be missed by a round that finds nothing new (`1063`); hence `~died`.
* With `-f`, a thread created by a seized thread is attached by the kernel; the
  next round of attaching tries to seize it, gets EPERM, and fails (`1051`).
* `detach_all_tracees` waits for a process's leader in vain when the process
  has ended and another thread of it, a zombie, is recorded as stopped: that
  record is passed over and never reaped (`1361`).  In the worlds of the runs
  two attached threads leave by `exit`.  The same happens when the leader is
  in an execve that has killed the other thread and waits for it to be reaped;
  `Stopped` is the step of a tracer that is stuck in this way.
* Another thread's exec may take over a tid between the report of its group
  stop and PTRACE_LISTEN, which then fails with EIO, and with it the trace
  (`trace.c:1539`, `ListenFails`): only ESRCH is tolerated there.
* `detach_all_tracees` is done with a thread group's leader when another thread
  of the group, which it has not come to, execs: the exec takes over the
  leader's tid, traced, and that task stays in its exec stop until the tracer
  exits (`1361`).  `AllDetached` names this exception; the exit that follows
  releases the task.
* `add_tracee` failing for a task that stops first (`1446`) leaves a launched
  child unknown and alive, while at `1177` it is killed; here such a child is a
  thread, which goes with its process.
* A signal between `fork` and `PTRACE_SETOPTIONS` leaves the child stopped and
  orphaned (`1629`): `NothingLeftBehind` speaks of commands that run.
* `root_tid` may be killed after it was reaped (`1314`).
* Command line: `separator_index` knows no clusters and no abbreviations
  (`cli.c:104-109`).  So `-fo -- cmd` runs `cmd` with "--" as the output file,
  though `cli.c:145` says "launch mode requires '-- COMMAND [ARG...]'";
  `-fp 1 --` is accepted, and `-fs 10 -- cmd` is refused.  These lines are in
  the run: `UsageAccepted` names the first two (`Mistaken`, `Overlooked`), says
  that nothing else is accepted against the usage text, and asks that nothing
  be refused against it only of `Separate` lines.
* Decoder: a string of exactly the limit's length gets a "..." and a vector of
  exactly 32 a ", ..."; an `<unfinished ...>` line shows output arguments
  before the call has stored them, and the resumed line never does; paths of
  Unix sockets and the fields of `uname` ignore `-s`, and the latter are not
  escaped (`decoder.c:557`); `O_DIRECTORY` alone makes `open` show a mode
  (`103`), and access mode 3 is shown as `O_RDONLY`.
* `elapsed_nanoseconds` wraps at exactly `UINT64_MAX / 10^9` seconds and a
  remainder (`stats.c:25`), which is 584 years; `StatsAssumption` leaves it out.

## 7. Not modelled

* The layout of text, JSON and summary lines; names of signals, socket
  constants and commands, and the text of results: constant tables.  The
  generated catalogue, and lookups by name.
* `clock_gettime` failing and the checks of the ABI reported by the kernel: they
  end the loop the way `RequestFails` does.
* `sg_output_finish`, which has nothing left to flush, and
  `validate_runtime_options`, which `validate_config` has made unreachable.
* Reuse of tids by the kernel, and an exec of the target during the attach
  rounds.
* A stop reported as continued (the loop does not ask for those), and the check
  of the BPF program against `USHRT_MAX`, which the size of the filter makes
  unreachable.
* Benchmarks, generators and tests.

## 8. Plan

Done: the loop, its kernel, cleanup, attach, table, filter, statistics, buffer,
decoder, catalogue, command line and the run around the loop; proofs about all
of them.

Open: prove `RefinesContract` and `ReportsComplete`: which call a task holds, in
flight, interrupted or in a handler's frame, and that the tracer's `pend` and
`intr` are that call.
