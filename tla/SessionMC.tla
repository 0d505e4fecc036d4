----------------------------- MODULE SessionMC -----------------------------
(* Command lines of up to MaxWords words. *)
EXTENDS Session

CONSTANT MaxWords

WordOf(text)      == [form |-> "word", letters |-> << >>, text |-> text]
Dashes            == [form |-> "--", letters |-> << >>, text |-> NoText]
Dash              == [form |-> "-", letters |-> << >>, text |-> NoText]
Short(letters)    == [form |-> "short", letters |-> letters, text |-> NoText]
With(name, text)  == [form |-> "short", letters |-> <<name>>, text |-> text]
Long(name, text)  == [form |-> "long", letters |-> <<name>>, text |-> text]

WordSet ==
  {Dashes, Dash, WordOf("0"), WordOf("1"), WordOf("trace=read"), WordOf(""),
   Short(<<"f">>), Short(<<"c">>), Short(<<"p">>), Short(<<"s">>), Short(<<"o">>), Short(<<"e">>),
   Short(<<"f", "o">>), Short(<<"c", "p">>), Short(<<"f", "x">>),
   With("e", "trace=read"), With("o", "out"), With("p", "1"),
   [form |-> "prefix", letters |-> <<"format">>, text |-> NoText],
   Long("format", "json"), Long("format", "ndjson"), Long("format", ""),
   Long("help", NoText), Long("version", NoText),
   Long("seccomp-bpf", NoText), Long("follow", "1")}

Lines == UNION {[1..n -> WordSet] : n \in 0..MaxWords}

NumberOf(text) == CASE text = "0" -> 0 [] text = "1" -> 1 [] OTHER -> -1
Filters(text)  == IF text = "trace=read" THEN "some" ELSE "bad"
=============================================================================
