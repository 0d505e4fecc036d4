----------------------------- MODULE DecoderMC -----------------------------
(* A catalogue with gaps, and memory of a few cells. *)
EXTENDS Decoder, TLC

Argument(kind) == [kind |-> kind, auxiliary |-> 0]
WithSize(kind, i) == [kind |-> kind, auxiliary |-> i]

Catalogue ==
  [number |-> <<0, 1, 2, 5, 6, 7, 9, 11, 12, 13>>,
   entry |-> << [arity |-> 3, arguments |-> <<Argument("FD"), WithSize("BUFFER_OUT", 2), Argument("SIZE")>>],
                [arity |-> 3, arguments |-> <<Argument("FD"), WithSize("BUFFER_IN", 2), Argument("SIZE")>>],
                [arity |-> 3, arguments |-> <<Argument("STRING"), Argument("OPEN_FLAGS"), Argument("MODE")>>],
                [arity |-> 1, arguments |-> <<Argument("PIPE_OUT")>>],
                [arity |-> 2, arguments |-> <<Argument("STRING"), Argument("ARGV")>>],
                [arity |-> 2, arguments |-> <<Argument("TIMESPEC_IN"), Argument("POINTER")>>],
                [arity |-> 3, arguments |-> <<Argument("FD"), WithSize("SOCKADDR_IN", 2), Argument("SIZE")>>],
                [arity |-> 2, arguments |-> <<WithSize("STRING_OUT", 1), Argument("SIZE")>>],
                [arity |-> 1, arguments |-> <<Argument("UTS_OUT")>>],
                [arity |-> 3, arguments |-> <<Argument("FD"), Argument("FCNTL_COMMAND"), Argument("PROT_FLAGS")>>] >>]
Questions    == -1..16
TableSize   == Len(Catalogue.number)
TableNumbers == [i \in 0..(TableSize - 1) |-> Catalogue.number[i + 1]]
TableEntries == [i \in 0..(TableSize - 1) |-> Catalogue.entry[i + 1]]

(* Mapped addresses are 1..k; values 1 to 3 are pointers into it as well. *)
SmallImages == [1..2 -> 0..3] \cup [1..4 -> {0, 3}] \cup [1..4 -> {1, 2}]
               \cup {<<1, 3, 0, 0>>, <<1, 0, 2, 1>>, <<2, 0, 1, 0>>}
Fill        == [a \in 1..4 |-> 2]
Classes     == [v \in 0..3 |-> CASE v = 0 -> "nul" [] v = 1 -> "quote" [] v = 2 -> "\\" [] v = 3 -> "newline"]

Pointers == {0, 1, 3}
Sizes    == {0, 1, 3}

(* Bit 3 stands for O_DSYNC, 3 and 4 together for O_SYNC; 6 has no name. *)
Names    == <<{2}, {3, 4}, {3}, {5}>>
Words    == SUBSET {3, 4, 6} \cup {{0, 2, 3}, {1, 5}, {2, 3, 4}}

Of(a, b, c) == (0 :> a) @@ (1 :> b) @@ (2 :> c) @@ (3 :> 0) @@ (4 :> 0) @@ (5 :> 0)

ArgumentLists(n) ==
  CASE n \in {0, 1, 9} -> {Of(0, p, s) : p \in Pointers, s \in Sizes}
    [] n = 2           -> {Of(1, w, 0) : w \in Words}
    [] n = 6           -> {Of(p, q, 0) : p, q \in Pointers}
    [] n = 11          -> {Of(p, s, 0) : p \in Pointers, s \in Sizes}
    [] n = 13          -> {Of(0, 7, w) : w \in Words} \cup {Of(0, 1, {3})}
    [] OTHER           -> {Of(p, 0, 0) : p \in Pointers}
=============================================================================
