------------------------------ MODULE Decoder ------------------------------
(***************************************************************************)
(* Decoding of system-call arguments (src/src/decoder.c): one call, from   *)
(* its entry stop, where input arguments are read from the tracee's memory *)
(* and kept as strings, to its lines.  Meanwhile other threads may change  *)
(* that memory.                                                            *)
(*                                                                         *)
(* Memory is made of cells, which hold a byte, a pointer or a field of a   *)
(* structure alike; flag words are sets of bits.                           *)
(***************************************************************************)
EXTENDS SyscallCatalog, Sequences, FiniteSets, FiniteSetsExt

CONSTANTS Descriptors,   \* by position: [arity, arguments] of syscalls[]
          Images,        \* contents of memory: functions on the mapped addresses
          Overwritten,   \* what another thread makes of it
          Arguments(_),  \* argument lists a call may be made with
          StringLimit,   \* -s
          MaxArgv,       \* pointers of an argument vector that are read
          Class,         \* cell value -> sort of byte
          FlagNames,     \* a table of flag names: the bits of each, in order
          AccessMode,    \* O_ACCMODE
          Creating,      \* O_CREAT | O_TMPFILE
          Getting,       \* F_GETFD and F_GETFL
          Results        \* positive results of calls

(* A call has at most six arguments, of the sort its descriptor says: the  *)
(* length of a Sized one is another argument.                              *)
Sized == {"BUFFER_IN", "BUFFER_OUT", "STRING_OUT", "SOCKADDR_IN"}

ASSUME DecoderAssumption ==
  /\ StringLimit \in Nat /\ MaxArgv \in Nat /\ Results \subseteq Nat
  /\ FlagNames \in Seq(SUBSET Nat)
  /\ \A i \in 0..(Count - 1) :
       LET d == Descriptors[i]
       IN  /\ d.arity \in 0..6
           /\ d.arity = 1 => d.arguments[1].kind # "FCNTL_COMMAND"
           /\ \A v \in Arguments(Numbers[i]), j \in 0..(d.arity - 1) :
                LET s == d.arguments[j + 1]
                IN  /\ s.kind \in {"STRING", "ARGV"} => v[j] \in Nat
                    /\ s.kind \in Sized => v[s.auxiliary] \in Nat

VARIABLES mem,     \* the tracee's memory
          event,   \* struct sg_syscall_event
          at,      \* how far the call is
          index,   \* next argument of sg_decoder_capture_entry
          saved,   \* event->decoded_arguments; Unset for NULL
          line,    \* the last line about the call
          during   \* history: the memory at any time of the entry stop

vars == <<lookup, mem, event, at, index, saved, line, during>>

Unset    == [form |-> "unset"]
NoLine   == [kind |-> "none", args |-> << >>]
Nothing  == [i \in 0..5 |-> Unset]

-----------------------------------------------------------------------------
(* Text.  A quoted string is a sequence of characters; the hexadecimal     *)
(* digits of an escape count as one.                                       *)

(* A bug: a backslash is copied. *)
EscapeKeepingBackslash(v) ==
  CASE Class[v] = "quote" -> <<"\\", "quote">> [] Class[v] = "nul" -> <<"\\", "0">>
    [] Class[v] = "control" -> <<"\\", "x">>   [] OTHER -> <<Class[v]>>

Escape(v) ==
  CASE Class[v] \in {"quote", "\\"} -> <<"\\", Class[v]>>
    [] Class[v] = "nul"             -> <<"\\", "0">>
    [] Class[v] = "newline"         -> <<"\\", "n">>
    [] Class[v] = "control"         -> <<"\\", "x">>
    [] OTHER                        -> <<Class[v]>>

(* The loops append a piece for each character between two quotes. *)
Between(pieces) ==
  LET text[n \in 0..Len(pieces)] == IF n = 0 THEN <<"quote">> ELSE text[n - 1] \o pieces[n]
  IN  text[Len(pieces)] \o <<"quote">>

append_escaped(data) == Between([i \in 1..Len(data) |-> Escape(data[i])])

(* append_json_string: the text of an NDJSON line is escaped once more. *)
JsonEscape(c) == IF c \in {"quote", "\\"} THEN <<"\\", c>>
                 ELSE IF c = "newline" THEN <<"\\", "n">> ELSE <<c>>

append_json_string(text) == Between([i \in 1..Len(text) |-> JsonEscape(text[i])])

Null          == [form |-> "NULL"]
append_pointer(v) == IF v = 0 THEN Null ELSE [form |-> "pointer", value |-> v]
Number(v)     == [form |-> "number", value |-> v]
Fields(data)  == [form |-> "fields", data |-> data]
Quoted(data, more) == [form |-> "quoted", text |-> append_escaped(data), more |-> more]

-----------------------------------------------------------------------------
(* process_vm_readv stops at the first address that is not mapped; no      *)
(* bytes at all also stands for its failure, and for address 0, which      *)
(* read_memory refuses.                                                    *)
read_memory(m, a, n) ==
  LET k == Max({j \in 0..n : \A i \in 0..(j - 1) : a + i \in DOMAIN m})
  IN  [i \in 1..k |-> m[a + i - 1]]

UpToNul(data) == SubSeq(data, 1, Min({i - 1 : i \in {j \in DOMAIN data : data[j] = 0}}
                                     \cup {Len(data)}))
HasNul(data)  == \E i \in DOMAIN data : data[i] = 0

Truncated(data, requested) == Len(data) < requested

append_remote_bytes(m, a, requested, stop_at_nul) ==
  LET amount == Min({requested, StringLimit})
      data   == read_memory(m, a, amount)
  IN  IF a = 0 THEN Null
      ELSE IF amount = 0 THEN Quoted(<< >>, requested # 0)
      ELSE IF data = << >> THEN append_pointer(a)
      ELSE IF ~stop_at_nul THEN Quoted(data, Truncated(data, requested))
      ELSE Quoted(UpToNul(data), ~HasNul(data))

append_string(m, a) == append_remote_bytes(m, a, StringLimit + 1, TRUE)

append_argv(m, a) ==
  LET pointer(i) == read_memory(m, a + i, 1)
      stop == Min({i \in 0..(MaxArgv - 1) : pointer(i) \in {<< >>, <<0>>}} \cup {MaxArgv})
  IN  IF a = 0 THEN Null
      ELSE [form  |-> "argv",
            items |-> [i \in 1..stop |-> append_string(m, pointer(i - 1)[1])],
            ends  |-> IF stop = MaxArgv THEN ", ...]"
                      ELSE IF pointer(stop) = <<0>> THEN "]" ELSE "?, ...]"]

(* Cells of the structures; families as in the first cell of an address. *)
AF_UNIX  == 1
AF_INET  == 2
AF_INET6 == 3
SockaddrIn      == 3
SockaddrIn6     == 4
SockaddrStorage == 5
Timespec == 2
Pipe     == 2
Utsname  == 3

append_sockaddr(m, a, length) ==
  LET data == read_memory(m, a, Min({length, SockaddrStorage}))
      path == Tail(data)
  IN  IF data = << >> THEN append_pointer(a)
      ELSE IF data[1] = AF_INET /\ Len(data) >= SockaddrIn
        THEN Fields(SubSeq(data, 1, SockaddrIn))
      ELSE IF data[1] = AF_INET6 /\ Len(data) >= SockaddrIn6
        THEN Fields(SubSeq(data, 1, SockaddrIn6))
      ELSE IF data[1] # AF_UNIX THEN Fields(<<data[1]>>)
      ELSE IF path # << >> /\ path[1] = 0
        THEN [form |-> "abstract", text |-> append_escaped(Tail(path))]
      ELSE [form |-> "path", text |-> append_escaped(UpToNul(path))]

(* append_timespec, append_pipe and append_uts: the structure, if all of   *)
(* it can be read.                                                         *)
append_struct(m, a, size) ==
  LET data == read_memory(m, a, size)
  IN  IF Len(data) = size THEN Fields(data) ELSE append_pointer(a)

(* A bug: the bits of a name that was printed are not cleared. *)
ClearNothing(rest, i) == rest

Clear(rest, i) == rest \ FlagNames[i]

(* append_flags: the names in order, each if its bits are all still there, *)
(* then what is left.                                                      *)
append_flags(value) ==
  LET after[i \in 0..Len(FlagNames)] ==
        IF i = 0 THEN value
        ELSE IF FlagNames[i] \subseteq after[i - 1] THEN Clear(after[i - 1], i)
        ELSE after[i - 1]
  IN  [form  |-> "flags", rest |-> after[Len(FlagNames)],
       names |-> {i \in DOMAIN FlagNames : FlagNames[i] \subseteq after[i - 1]}]

(* append_open_flags: a name for the access mode comes first. *)
append_open_flags(value) ==
  [form |-> "open", access |-> IF value \cap AccessMode = {0} THEN "O_WRONLY"
                               ELSE IF value \cap AccessMode = {1} THEN "O_RDWR"
                               ELSE "O_RDONLY",
   flags |-> append_flags(value \ AccessMode)]

-----------------------------------------------------------------------------
(* A bug: buffers are rendered when the call returns. *)
IsOutputOrBuffer(kind) == kind \in {"BUFFER_IN", "STRING_OUT", "BUFFER_OUT", "PIPE_OUT", "UTS_OUT"}

is_output_argument(kind) == kind \in {"STRING_OUT", "BUFFER_OUT", "PIPE_OUT", "UTS_OUT"}

(* A bug: what the call returned is taken for what it stored. *)
ReturnedBytes(e, spec) == e.result

(* recvfrom may return more than the buffer holds. *)
StoredBytes(e, spec) == Min({e.result, e.arguments[spec.auxiliary]})

FlagKinds == {"FD_FLAGS", "PROT_FLAGS", "MAP_FLAGS", "ACCESS_FLAGS", "AT_FLAGS"}

(* Kinds whose values are only given names are all numbers here. *)
render_argument(m, e, spec, i) ==
  LET v == e.arguments[i]
  IN  CASE spec.kind = "STRING"     -> append_string(m, v)
        [] spec.kind = "BUFFER_IN"  ->
             append_remote_bytes(m, v, e.arguments[spec.auxiliary], FALSE)
        [] spec.kind = "STRING_OUT" ->
             IF e.error THEN append_pointer(v)
             ELSE append_remote_bytes(m, v, IF e.result > 0 THEN e.result
                                            ELSE e.arguments[spec.auxiliary], TRUE)
        [] spec.kind = "BUFFER_OUT" ->
             IF e.error \/ e.result < 0 THEN append_pointer(v)
             ELSE IF e.result = 0 THEN Quoted(<< >>, FALSE)
             ELSE append_remote_bytes(m, v, StoredBytes(e, spec), FALSE)
        [] spec.kind = "ARGV"        -> append_argv(m, v)
        [] spec.kind = "OPEN_FLAGS"  -> append_open_flags(v)
        [] spec.kind \in FlagKinds   -> append_flags(v)
        [] spec.kind = "SOCKADDR_IN" -> append_sockaddr(m, v, e.arguments[spec.auxiliary])
        [] spec.kind = "TIMESPEC_IN" -> append_struct(m, v, Timespec)
        [] spec.kind = "PIPE_OUT"    ->
             IF e.error THEN append_pointer(v) ELSE append_struct(m, v, Pipe)
        [] spec.kind = "UTS_OUT"     ->
             IF e.error THEN append_pointer(v) ELSE append_struct(m, v, Utsname)
        [] OTHER -> Number(v)

(* sg_syscall_by_number has been asked at every use; the answer is the     *)
(* same each time.                                                         *)
Known      == lookup.found # Missing
Descriptor == Descriptors[lookup.found]
ArgumentSpec(i) == Descriptor.arguments[i + 1]

(* open, openat and fcntl are the calls with arguments of these kinds: the *)
(* mode is an argument only if a file may be created, fcntl's third only   *)
(* of some commands.  A number that is not in the catalogue has six.       *)
ValuesOf(kind) == {event.arguments[i] : i \in {j \in 0..(Descriptor.arity - 1) :
                                                 ArgumentSpec(j).kind = kind}}

effective_argument_count ==
  IF ~Known THEN 6
  ELSE IF \E v \in ValuesOf("OPEN_FLAGS") : v \cap Creating = {} THEN Descriptor.arity - 1
  ELSE IF \E v \in ValuesOf("FCNTL_COMMAND") : v \in Getting THEN 2
  ELSE Descriptor.arity

(* sg_decode_syscall_entry *)
Decoded(i) ==
  IF saved[i] # Unset THEN saved[i]
  ELSE IF Known THEN render_argument(mem, event, ArgumentSpec(i), i)
  ELSE Number(event.arguments[i])

DecodedArguments == [i \in 1..effective_argument_count |-> Decoded(i - 1)]

-----------------------------------------------------------------------------
Init ==
  /\ CatalogInit
  /\ mem \in Images
  /\ event = [number |-> 0, arguments |-> [i \in 0..5 |-> 0], result |-> 0, error |-> FALSE]
  /\ at = "user" /\ index = 0 /\ saved = Nothing /\ line = NoLine /\ during = {}

(* The entry stop: begin_syscall calls sg_decoder_capture_entry. *)
Enter(n, arguments) ==
  /\ at = "user" /\ BeginLookup(n)
  /\ event' = [event EXCEPT !.number = n, !.arguments = arguments]
  /\ at' = "capture" /\ during' = {mem}
  /\ UNCHANGED <<mem, index, saved, line>>

Search == (Narrow \/ EndLookup) /\ UNCHANGED <<mem, event, at, index, saved, line, during>>

Capturing == at = "capture" /\ lookup.at = "done" /\ Known /\ index < effective_argument_count

Capture ==
  /\ Capturing
  /\ saved' = IF is_output_argument(ArgumentSpec(index).kind) THEN saved
              ELSE [saved EXCEPT ![index] = render_argument(mem, event, ArgumentSpec(index), index)]
  /\ index' = index + 1
  /\ UNCHANGED <<lookup, mem, event, at, line, during>>

sg_decoder_release_event(s) == Nothing

(* Memory runs out; begin_syscall drops its event. *)
CaptureFails ==
  /\ Capturing /\ ~is_output_argument(ArgumentSpec(index).kind)
  /\ saved' = sg_decoder_release_event(saved) /\ at' = "dropped"
  /\ UNCHANGED <<lookup, mem, event, index, line, during>>

Captured ==
  /\ at = "capture" /\ lookup.at = "done" /\ ~Capturing
  /\ at' = "running"
  /\ UNCHANGED <<lookup, mem, event, index, saved, line, during>>

(* flush_unfinished_syscalls: the call is shown before it has returned. *)
Unfinished ==
  /\ at = "running" /\ line = NoLine
  /\ line' = [kind |-> "unfinished", args |-> DecodedArguments]
  /\ UNCHANGED <<lookup, mem, event, at, index, saved, during>>

(* The kernel stores what the call promises, or fails. *)
Stored(a, n) == [b \in DOMAIN mem |-> IF b \in a..(a + n - 1) THEN 3 ELSE mem[b]]

Return(result, error) ==
  /\ at = "running"
  /\ event' = [event EXCEPT !.result = IF error THEN -result ELSE result, !.error = error]
  /\ mem' = LET O == {i \in 0..(effective_argument_count - 1) :
                        Known /\ ArgumentSpec(i).kind = "BUFFER_OUT"}
            IN  IF error \/ O = {} THEN mem
                ELSE LET i == Min(O)
                     IN  Stored(event.arguments[i],
                                Min({result, event.arguments[ArgumentSpec(i).auxiliary]}))
  /\ at' = "exit"
  /\ UNCHANGED <<lookup, index, saved, line, during>>

(* The exit stop.  A line that resumes an unfinished one has no arguments. *)
Decode ==
  /\ at = "exit"
  /\ line' = IF line.kind = "unfinished" THEN [NoLine EXCEPT !.kind = "resumed"]
             ELSE [kind |-> "whole", args |-> DecodedArguments]
  /\ at' = "release"
  /\ UNCHANGED <<lookup, mem, event, index, saved, during>>

(* The line cannot be made for want of memory; the tracee's record still   *)
(* owns the strings.                                                       *)
DecodeFails ==
  /\ at \in {"running", "exit"} /\ at' = "release"
  /\ UNCHANGED <<lookup, mem, event, index, saved, line, during>>

Release ==
  /\ at = "release"
  /\ saved' = sg_decoder_release_event(saved) /\ at' = "released"
  /\ UNCHANGED <<lookup, mem, event, index, line, during>>

(* Another thread of the program writes to memory, once. *)
Scribble ==
  /\ at \in {"capture", "running", "exit"} /\ mem # Overwritten /\ mem' = Overwritten
  /\ during' = IF at = "capture" THEN during \cup {Overwritten} ELSE during
  /\ UNCHANGED <<lookup, event, at, index, saved, line>>

Over == at \in {"dropped", "released"} /\ UNCHANGED vars

Next ==
  \/ Search \/ Capture \/ CaptureFails \/ Captured \/ Unfinished \/ Decode
  \/ DecodeFails \/ Release \/ Scribble \/ Over
  \/ \E n \in Asked : \E arguments \in Arguments(n) : Enter(n, arguments)
  \/ \E r \in Results : Return(r, FALSE) \/ (r > 0 /\ Return(r, TRUE))

Spec == Init /\ [][Next]_vars

-----------------------------------------------------------------------------
Shown(i) == line.args[i + 1]
Lines    == line.args # << >> /\ Known
Shows(kinds) == {i \in 0..(Len(line.args) - 1) : Lines /\ ArgumentSpec(i).kind \in kinds}

Inputs == {"STRING", "BUFFER_IN", "ARGV", "SOCKADDR_IN", "TIMESPEC_IN"}

(* Input arguments are shown as they were in memory at the entry stop,     *)
(* whatever the call itself or other threads have done to memory by the    *)
(* time the line is written (sg_decoder_capture_entry).                    *)
InputsAsEntered ==
  \A i \in Shows(Inputs) :
    \E m \in during : Shown(i) = render_argument(m, event, ArgumentSpec(i), i)

(* How many bytes a quoted text stands for, by reading it: a character is  *)
(* escaped if it follows a backslash that is not.                          *)
Escaped(text) ==
  LET upto[n \in 0..Len(text)] ==
        IF n < 2 THEN {}
        ELSE IF text[n - 1] = "\\" /\ n - 1 \notin upto[n - 1] THEN upto[n - 1] \cup {n}
        ELSE upto[n - 1]
  IN  upto[Len(text)]
BytesShown(text) == Len(text) - 2 - Cardinality(Escaped(text))

Delimited(text) ==
  /\ {j \in DOMAIN text : text[j] = "quote"} \ Escaped(text) = {1, Len(text)}
  /\ \A j \in DOMAIN text : text[j] # "newline"

(* The end of a quoted text can be found: no byte of the tracee's memory   *)
(* looks like the closing quote or ends the line (append_escaped), nor     *)
(* does it when the text is quoted again for NDJSON (append_json_string).  *)
QuotesDelimit ==
  \A i \in Shows({"STRING", "BUFFER_IN", "BUFFER_OUT", "STRING_OUT", "SOCKADDR_IN"}) :
    Shown(i).form \in {"quoted", "path", "abstract"} =>
      Delimited(Shown(i).text) /\ Delimited(append_json_string(Shown(i).text))

Extent(i) == IF ArgumentSpec(i).kind = "BUFFER_IN" THEN event.arguments[ArgumentSpec(i).auxiliary]
             ELSE IF at = "running" \/ line.kind = "unfinished" THEN 0
             ELSE Min({event.result, event.arguments[ArgumentSpec(i).auxiliary]})

Complete(m, a, n) == a + n \in DOMAIN m /\ m[a + n] = 0

(* What is shown of a buffer is all of it unless "..." says otherwise, and *)
(* never more than -s allows, than the call stored, or than the caller's   *)
(* buffer holds.  A string or an argument vector without "..." is          *)
(* complete: its terminator was there, right behind what is shown.         *)
ExtentTrue ==
  /\ \A i \in Shows({"BUFFER_IN", "BUFFER_OUT"}) :
       Shown(i).form = "quoted" =>
         LET n == BytesShown(Shown(i).text)
         IN  n <= StringLimit /\ IF Shown(i).more THEN n < Extent(i) ELSE n = Extent(i)
  /\ \A i \in Shows({"STRING", "ARGV"}) :
       LET r == Shown(i)
           Ends(n) == \E m \in during : Complete(m, event.arguments[i], n)
       IN  /\ r.form = "quoted" => /\ BytesShown(r.text) <= StringLimit
                                   /\ r.more \/ Ends(BytesShown(r.text))
           /\ r.form = "argv" => /\ Len(r.items) <= MaxArgv
                                 /\ r.ends = "]" => Ends(Len(r.items))

(* The names of a flag word and the number that follows them stand for     *)
(* every bit of it, each once (append_flags, whose tables name some bits   *)
(* twice, as O_SYNC and O_DSYNC).                                          *)
Exact(r, value) ==
  /\ r.rest \cup UNION {FlagNames[j] : j \in r.names} = value
  /\ \A j, k \in r.names : j # k => FlagNames[j] \cap FlagNames[k] = {}
  /\ \A j \in r.names : FlagNames[j] \cap r.rest = {}

FlagsExact ==
  /\ \A i \in Shows(FlagKinds) : Exact(Shown(i), event.arguments[i])
  /\ \A i \in Shows({"OPEN_FLAGS"}) : Exact(Shown(i).flags, event.arguments[i] \ AccessMode)

=============================================================================
