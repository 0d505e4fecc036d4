---------------------------- MODULE SyscallFilter ----------------------------
(***************************************************************************)
(* The -e trace=EXPR filter (src/src/filter.c) and the seccomp-BPF program *)
(* made from it (prepare_seccomp_program in src/src/trace.c).              *)
(*                                                                         *)
(* An expression is a sequence of terms, one per comma-separated piece.    *)
(* One step parses one term into the candidate; the last one stores it.    *)
(***************************************************************************)
EXTENDS Integers, Sequences, FiniteSets, FiniteSetsExt

CONSTANTS Catalog,      \* numbers of the named syscalls
          Classes,      \* class -> the catalogued numbers in it
          WordBits,     \* SG_FILTER_WORD_BITS
          Words,        \* SG_FILTER_WORDS
          RtSigreturn,  \* SYS_rt_sigreturn
          X32Bit,       \* SG_X32_SYSCALL_BIT
          MaxTerms      \* bound on the length of an expression

Limit == WordBits * Words          \* SG_SYSCALL_LIMIT

ASSUME FilterAssumption == /\ WordBits \in Nat \ {0} /\ Words \in Nat \ {0}
                           /\ Catalog \subseteq 0..Limit-1
                           /\ \A c \in DOMAIN Classes : Classes[c] \subseteq Catalog
                           /\ RtSigreturn \in 0..Limit-1
                           /\ X32Bit \in Nat /\ X32Bit >= Limit
                           /\ MaxTerms \in Nat

VARIABLES spec,       \* the terms of EXPR
          pc,         \* "idle", "term", "accepted", "rejected" or "program"
          at,         \* the cursor: index of the next term
          candidate, filter,
          program, capacity  \* the BPF program and the size allocated for it

vars == <<spec, pc, at, candidate, filter, program, capacity>>

(* A term names a call, a class, or nothing that the catalogue knows: an   *)
(* empty term, one of 128 characters or more, an unknown name.             *)
Term == [neg : BOOLEAN, kind : {"name"}, what : Catalog]
        \cup [neg : BOOLEAN, kind : {"class"}, what : DOMAIN Classes]
        \cup [neg : BOOLEAN, kind : {"empty", "long", "unknown"}, what : {"nothing"}]

-----------------------------------------------------------------------------
(* struct sg_filter: the bits set in each word, and active. *)
Cleared == [words |-> [w \in 0..Words-1 |-> {}], active |-> FALSE]
sg_filter_clear == Cleared
sg_filter_fill  == [words |-> [w \in 0..Words-1 |-> 0..WordBits-1], active |-> TRUE]

set_number(f, n, enabled) ==
  IF n < 0 \/ n >= Limit THEN f
  ELSE [f EXCEPT !.words[n \div WordBits] =
          IF enabled THEN @ \cup {n % WordBits} ELSE @ \ {n % WordBits}]

sg_filter_contains(f, n) ==
  n \in 0..Limit-1 /\ (n % WordBits) \in f.words[n \div WordBits]

sg_filter_count(f) ==
  LET count[w \in 0..Words] ==
        IF w = 0 THEN 0 ELSE count[w - 1] + Cardinality(f.words[w - 1])
  IN  count[Words]

(* set_number for each call of the class, all in one. *)
apply_class(f, class, enabled) ==
  LET bits(w) == {n % WordBits : n \in {m \in Classes[class] : m \div WordBits = w}}
  IN  [f EXCEPT !.words = [w \in 0..Words-1 |-> IF enabled THEN f.words[w] \cup bits(w)
                                                ELSE f.words[w] \ bits(w)]]

(* A bug: a leading "!" decides for the whole expression. *)
first_term_positive(s) == ~s[1].neg /\ s[1].kind # "empty"

has_positive_term(s) == \E i \in DOMAIN s : ~s[i].neg /\ s[i].kind # "empty"

-----------------------------------------------------------------------------
(* sg_filter_parse *)
Init == /\ spec = << >> /\ pc = "idle" /\ at = 1
        /\ candidate = Cleared /\ filter = sg_filter_clear
        /\ program = << >> /\ capacity = 0

(* The prefix "trace=" is missing, or nothing follows it. *)
Malformed == /\ pc = "idle" /\ pc' = "rejected"
             /\ UNCHANGED <<spec, at, candidate, filter, program, capacity>>

Begin(s) ==
  /\ pc = "idle" /\ s # << >> /\ s # <<[neg |-> FALSE, kind |-> "empty", what |-> "nothing"]>>
  /\ spec' = s /\ at' = 1 /\ pc' = "term"
  /\ candidate' = IF has_positive_term(s) THEN [sg_filter_clear EXCEPT !.active = TRUE]
                  ELSE sg_filter_fill
  /\ UNCHANGED <<filter, program, capacity>>

Applied(f, t) == IF t.kind = "class" THEN apply_class(f, t.what, ~t.neg)
                 ELSE set_number(f, t.what, ~t.neg)

Stored(c) == IF at = Len(spec) THEN c ELSE filter

ParseTerm ==
  LET t == spec[at]
      c == Applied(candidate, t)
  IN  /\ pc = "term"
      /\ IF t.kind \in {"name", "class"}
           THEN /\ candidate' = c /\ filter' = Stored(c)
                /\ at' = at + 1
                /\ pc' = IF at = Len(spec) THEN "accepted" ELSE "term"
           ELSE pc' = "rejected" /\ UNCHANGED <<candidate, filter, at>>
      /\ UNCHANGED <<spec, program, capacity>>

-----------------------------------------------------------------------------
(* prepare_seccomp_program *)
Instruction(op, jt, jf, k) == <<[op |-> op, jt |-> jt, jf |-> jf, k |-> k]>>

Preamble == Instruction("load", 0, 0, "arch")
            \o Instruction("jeq", 1, 0, "x86_64")
            \o Instruction("ret", 0, 0, "bad_arch")
            \o Instruction("load", 0, 0, "nr")
            \o Instruction("jge", 0, 1, X32Bit)
            \o Instruction("ret", 0, 0, "bad_abi")

InProgram(f, n) == sg_filter_contains(f, n) \/ n = RtSigreturn

Test(n) == Instruction("jeq", 0, 1, n) \o Instruction("ret", 0, 0, "trace")

Program(f) ==
  LET before[n \in 0..Limit] ==
        IF n = 0 THEN Preamble
        ELSE before[n - 1] \o (IF InProgram(f, n - 1) THEN Test(n - 1) ELSE << >>)
  IN  before[Limit] \o Instruction("ret", 0, 0, "allow")

(* A bug: no room is made for rt_sigreturn. *)
CapacityAsSelected(f) == 7 + 2 * sg_filter_count(f)

Capacity(f) == 7 + 2 * (sg_filter_count(f)
                        + IF sg_filter_contains(f, RtSigreturn) THEN 0 ELSE 1)

(* validate_config lets only a non-empty filter through. *)
Prepare == /\ pc = "accepted" /\ filter.active /\ sg_filter_count(filter) # 0
           /\ program' = Program(filter) /\ capacity' = Capacity(filter)
           /\ pc' = "program"
           /\ UNCHANGED <<spec, at, candidate, filter>>

Stop == pc \in {"accepted", "rejected", "program"} /\ UNCHANGED vars

Specs == UNION {[1..k -> Term] : k \in 1..MaxTerms}

Next == Malformed \/ (\E s \in Specs : Begin(s)) \/ ParseTerm \/ Prepare \/ Stop

Spec == Init /\ [][Next]_vars

-----------------------------------------------------------------------------
(* EXTERNAL: the kernel runs a classic BPF program on a system call.  m is *)
(* the machine: the instruction it is at, what was loaded, the verdict.    *)
Execute(prog, arch, nr, m) ==
  LET i == prog[m.k]
      a == IF m.acc = "arch" THEN arch ELSE nr
      jump(b) == [m EXCEPT !.k = m.k + 1 + (IF b THEN i.jt ELSE i.jf)]
  IN  CASE m.verdict # "none" -> m
        [] m.verdict = "none" /\ i.op = "load" -> [k |-> m.k + 1, acc |-> i.k, verdict |-> "none"]
        [] m.verdict = "none" /\ i.op = "jeq"  -> jump(a = i.k)
        [] m.verdict = "none" /\ i.op = "jge"  -> jump(a >= i.k)
        [] m.verdict = "none" /\ i.op = "ret"  -> [m EXCEPT !.verdict = i.k]

(* It only jumps forward: Len(prog) steps are enough. *)
Verdict(prog, arch, nr) ==
  LET after[n \in 0..Len(prog)] ==
        IF n = 0 THEN [k |-> 1, acc |-> "none", verdict |-> "none"]
        ELSE Execute(prog, arch, nr, after[n - 1])
  IN  after[Len(prog)].verdict

-----------------------------------------------------------------------------
Mentions(t, n) == \/ t.kind = "name" /\ t.what = n
                  \/ t.kind = "class" /\ n \in Classes[t.what]

Mentioning(n) == {i \in DOMAIN spec : Mentions(spec[i], n)}

(* The filter of README.md: the positive terms form the initial set, or    *)
(* everything where there is none, and the negative ones subtract from it, *)
(* wherever they stand.                                                    *)
Documented(n) ==
  /\ \/ \E i \in Mentioning(n) : ~spec[i].neg
     \/ \A i \in DOMAIN spec : spec[i].neg
  /\ \A i \in Mentioning(n) : ~spec[i].neg

(* A positive term names the call again after a negative one.              *)
Retaken(n) == \E i, j \in Mentioning(n) : i < j /\ spec[i].neg /\ ~spec[j].neg

(* What an accepted expression selects is what README.md says, call by     *)
(* call, except that of a call which a positive term names again after a   *)
(* negative one, the last term naming it decides (sg_filter_parse applies  *)
(* the terms in their order); sg_filter_count agrees with                  *)
(* sg_filter_contains.  A rejected expression leaves the caller's filter as*)
(* it was, whatever terms came before the one at fault.                    *)
FilterMeaning ==
  /\ pc \in {"accepted", "program"} =>
       /\ \A n \in 0..Limit-1 : sg_filter_contains(filter, n)
                                <=> IF Retaken(n) THEN ~spec[Max(Mentioning(n))].neg
                                    ELSE Documented(n)
       /\ sg_filter_count(filter) = Cardinality({n \in 0..Limit-1 : sg_filter_contains(filter, n)})
  /\ pc \in {"term", "rejected"} => filter = Cleared

(* README.md:101-102 without the exception: "Positive filter terms form the*)
(* initial set; `!name` and `!%class` subtract from it".  The code does not*)
(* keep to it: in `!read,%file' the class takes back what was subtracted.  *)
FilterAsDocumented ==
  pc \in {"accepted", "program"} =>
    \A n \in 0..Limit-1 : sg_filter_contains(filter, n) <=> Documented(n)

(* The BPF program stops exactly the selected calls and rt_sigreturn, and  *)
(* turns away every other ABI, whatever the filter; and it fills exactly   *)
(* the memory allocated for it (append_bpf does not check).                *)
ProgramExact ==
  pc = "program" =>
    /\ Len(program) = capacity
    /\ \A n \in 0..X32Bit+1 :
         /\ Verdict(program, "i386", n) = "bad_arch"
         /\ Verdict(program, "x86_64", n) =
              IF n >= X32Bit THEN "bad_abi"
              ELSE IF sg_filter_contains(filter, n) \/ n = RtSigreturn THEN "trace"
              ELSE "allow"
=============================================================================
