--------------------------------- MODULE Cli ---------------------------------
(***************************************************************************)
(* The command line (src/src/cli.c): getopt_long goes through the words    *)
(* one option at a time, while separator_index has looked for "--" in its  *)
(* own way.                                                                *)
(*                                                                         *)
(* A word of argv is "--", a lone "-", one that does not begin with a dash *)
(* ("word"), a cluster of option letters ("short") or a long option        *)
(* ("long", "prefix" if abbreviated).  An option has a text attached to it,*)
(* which is empty in "--format=", or NoText.                               *)
(***************************************************************************)
EXTENDS Integers, Sequences, FiniteSets

CONSTANTS CommandLines,    \* sequences of words after argv[0]
          Number(_),       \* text -> the number it is, -1 if it is none
          FilterOf(_),     \* text -> "bad", "empty" or "some" (sg_filter_parse)
          NoText,
          IntMax,
          MaxStringLimit,
          DefaultLimit

OptionForms == {"short", "long", "prefix"}
Forms       == OptionForms \cup {"word", "-", "--"}

TakesValue(name) == name \in {"p", "e", "s", "o", "format"}

(* In a cluster what follows a letter that takes a value is its value. *)
Words == {w \in [form : Forms, letters : Seq(STRING), text : STRING \cup {NoText}] :
            w.form \in OptionForms =>
              /\ w.letters # << >> /\ (w.form # "short" => Len(w.letters) = 1)
              /\ \A q \in 1..Len(w.letters) - 1 : ~TakesValue(w.letters[q])}

ASSUME CliAssumption == \A line \in CommandLines : line \in Seq(Words)

VARIABLES words,   \* argv
          parse,   \* how far sg_cli_parse is
          config   \* struct sg_config

(* A word taken for a value: if it looks like an option its text is none   *)
(* of a number, a format or a filter.                                      *)
Text(w) == IF w.form = "word" THEN w.text ELSE "dashes"

Options == {"p", "f", "e", "s", "o", "c", "h", "follow", "format", "help",
            "seccomp-bpf", "version"}

config_init == [mode |-> "launch", format |-> "text", output |-> FALSE, limit |-> DefaultLimit,
                follow |-> FALSE, summary |-> FALSE, seccomp |-> FALSE, filter |-> "none",
                command |-> 0]

-----------------------------------------------------------------------------
parse_pid(text) == Number(text) \in 1..IntMax

parse_size_limit(text) == Number(text) \in 0..MaxStringLimit

parse_format(text) == text \in {"text", "ndjson", "json"}

(* A bug: the values of options are not skipped. *)
SkipsNothing(w) == FALSE

(* The options separator_index knows to be followed by their value. *)
Skips(w) == /\ w.form \in {"short", "long"} /\ w.text = NoText
            /\ Len(w.letters) = 1 /\ TakesValue(w.letters[1])

(* separator_index; 0 stands for -1. *)
separator_index(argv) ==
  LET from[i \in 1..(Len(argv) + 2)] ==
        IF i > Len(argv) THEN 0
        ELSE IF argv[i].form = "--" THEN i
        ELSE IF argv[i].form = "word" THEN 0
        ELSE from[IF Skips(argv[i]) THEN i + 2 ELSE i + 1]
  IN  from[1]

-----------------------------------------------------------------------------
(* getopt_long with "+": it ends at the first word that is no option, and  *)
(* behind "--"; optind is its next word and letter its place in a cluster. *)
Word    == words[parse.optind]
AtEnd   == parse.optind <= Len(words) => Word.form \in {"word", "-", "--"}
Letter  == Word.letters[parse.letter]
Last    == parse.letter = Len(Word.letters)
FromNext == TakesValue(Letter) /\ Word.text = NoText
optarg  == IF FromNext THEN Text(words[parse.optind + 1]) ELSE Word.text

Unrecognized == \/ Letter \notin Options
                \/ FromNext /\ parse.optind = Len(words)
                \/ ~TakesValue(Letter) /\ Last /\ Word.text # NoText

Advanced == IF ~Last THEN [parse EXCEPT !.letter = @ + 1]
            ELSE [parse EXCEPT !.letter = 1, !.optind = @ + (IF FromNext THEN 2 ELSE 1)]

(* The body of the loop in sg_cli_parse. *)
Configured(o) ==
  CASE o = "p"                -> config
    [] o \in {"f", "follow"}  -> [config EXCEPT !.follow = TRUE]
    [] o = "e"                -> [config EXCEPT !.filter = FilterOf(optarg)]
    [] o = "s"                -> [config EXCEPT !.limit = Number(optarg)]
    [] o = "o"                -> [config EXCEPT !.output = TRUE]
    [] o = "c"                -> [config EXCEPT !.summary = TRUE]
    [] o = "format"           -> [config EXCEPT !.format = optarg]
    [] o = "seccomp-bpf"      -> [config EXCEPT !.seccomp = TRUE]
    [] OTHER                  -> config

Invalid(o) ==
  \/ o = "p" /\ (parse.attach \/ ~parse_pid(optarg))
  \/ o = "e" /\ (parse.filter \/ FilterOf(optarg) = "bad")
  \/ o = "s" /\ ~parse_size_limit(optarg)
  \/ o = "o" /\ optarg = ""
  \/ o = "format" /\ ~parse_format(optarg)

ParseOption ==
  /\ parse.action = "parse" /\ ~AtEnd
  /\ IF Unrecognized \/ Invalid(Letter)
       THEN parse' = [parse EXCEPT !.action = "error"] /\ UNCHANGED config
     ELSE IF Letter \in {"h", "help"}
       THEN parse' = [parse EXCEPT !.action = "help"] /\ UNCHANGED config
     ELSE IF Letter = "version"
       THEN parse' = [parse EXCEPT !.action = "version"] /\ UNCHANGED config
     ELSE /\ parse'  = [Advanced EXCEPT !.attach = @ \/ Letter = "p",
                                        !.filter = @ \/ Letter = "e"]
          /\ config' = Configured(Letter)
  /\ UNCHANGED words

(* validate_config; the separator is where separator_index found it.       *)
Refused(optind) ==
  \/ IF parse.attach THEN parse.separator > 0 \/ optind <= Len(words)
     ELSE parse.separator = 0 \/ parse.separator # optind - 1 \/ optind > Len(words)
  \/ config.format = "json" /\ ~config.summary
  \/ config.format = "ndjson" /\ config.summary
  \/ config.seccomp /\ (parse.attach \/ config.filter # "some")

validate_config ==
  LET optind == IF parse.optind <= Len(words) /\ Word.form = "--" THEN parse.optind + 1
                ELSE parse.optind
  IN  /\ parse.action = "parse" /\ AtEnd
      /\ parse'  = [parse EXCEPT !.action = IF Refused(optind) THEN "error" ELSE "run"]
      /\ config' = IF parse.attach THEN [config EXCEPT !.mode = "attach"]
                   ELSE [config EXCEPT !.command = optind]
      /\ UNCHANGED words

CliInit ==
  /\ words \in CommandLines
  /\ config = config_init
  /\ parse = [action |-> "parse", optind |-> 1, letter |-> 1, attach |-> FALSE,
              filter |-> FALSE, separator |-> separator_index(words)]

CliNext == ParseOption \/ validate_config

-----------------------------------------------------------------------------
(* The command lines the usage text describes, read as a grammar.          *)
ValidValue(name, text) ==
  CASE name = "p" -> parse_pid(text) [] name = "e" -> FilterOf(text) # "bad"
    [] name = "s" -> parse_size_limit(text) [] name = "format" -> parse_format(text)
    [] name = "o" -> text # ""

(* Words i to j - 1 of argv are one option or a cluster, none of them      *)
(* asking for help.  Only the last letter may take a value.                *)
Final(w) == w.letters[Len(w.letters)]

IsOption(argv, i, j) ==
  LET w == argv[i]
  IN  /\ w.form \in OptionForms
      /\ \A q \in 1..Len(w.letters) : w.letters[q] \in Options \ {"h", "help", "version"}
      /\ IF ~TakesValue(Final(w)) THEN j = i + 1 /\ w.text = NoText
         ELSE IF w.text # NoText THEN j = i + 1 /\ ValidValue(Final(w), w.text)
         ELSE j = i + 2 /\ j <= Len(argv) + 1 /\ ValidValue(Final(w), Text(argv[i + 1]))

(* The words before which there is nothing but options. *)
Reached(argv) ==
  LET upto[j \in 0..Len(argv)] ==
        IF j = 0 THEN {1}
        ELSE upto[j - 1] \cup {k \in {j + 1} : \E i \in upto[j - 1] : IsOption(argv, i, k)}
  IN  upto[Len(argv)]

Given(argv, name, k) ==
  {i \in Reached(argv) : i < k /\ \E q \in 1..Len(argv[i].letters) : argv[i].letters[q] = name}
ValueAt(argv, i)     == IF argv[i].text # NoText THEN argv[i].text ELSE Text(argv[i + 1])
Latest(F)            == CHOOSE i \in F : \A j \in F : j <= i
FormatBefore(argv, k) ==
  LET F == Given(argv, "format", k) IN IF F = {} THEN "text" ELSE ValueAt(argv, Latest(F))

Consistent(argv, k) ==
  /\ Cardinality(Given(argv, "p", k)) <= 1 /\ Cardinality(Given(argv, "e", k)) <= 1
  /\ FormatBefore(argv, k) = "json" => Given(argv, "c", k) # {}
  /\ FormatBefore(argv, k) = "ndjson" => Given(argv, "c", k) = {}
  /\ Given(argv, "seccomp-bpf", k) # {} =>
       /\ Given(argv, "p", k) = {}
       /\ \E i \in Given(argv, "e", k) : FilterOf(ValueAt(argv, i)) = "some"

Separators(argv) == {k \in Reached(argv) : k < Len(argv) /\ argv[k].form = "--"}

LaunchLine(argv) == \E k \in Separators(argv) : Consistent(argv, k) /\ Given(argv, "p", k) = {}
AttachLine(argv) == LET k == Len(argv) + 1
                    IN  k \in Reached(argv) /\ Consistent(argv, k) /\ Given(argv, "p", k) # {}

(* Every option with a value in a word of its own is alone in its word and *)
(* in full: -f -o FILE, not -fo FILE, and --format text, not --form text.  *)
Separate(argv) ==
  \A i \in Reached(argv) :
    i <= Len(argv) /\ argv[i].form \in OptionForms
      /\ TakesValue(Final(argv[i])) /\ argv[i].text = NoText =>
        argv[i].form # "prefix" /\ Len(argv[i].letters) = 1

(* Where a "--" is the value of an option and a word that is none follows, *)
(* as in -fo -- cmd: the commands that can be mistaken for that of a line. *)
Mistaken(argv) ==
  {k \in Reached(argv) :
     /\ k <= Len(argv) /\ argv[k].form \in {"word", "-"}
     /\ Consistent(argv, k) /\ Given(argv, "p", k) = {}
     /\ \E i \in Reached(argv) : i = k - 2 /\ IsOption(argv, i, k) /\ argv[k - 1].form = "--"}

(* An attach line but for a "--" at its end. *)
Overlooked(argv) ==
  LET k == Len(argv)
  IN  /\ k \in Reached(argv) /\ argv[k].form = "--"
      /\ Consistent(argv, k) /\ Given(argv, "p", k) # {}

Launches(argv, k) == k - 1 \in Separators(argv) /\ LaunchLine(argv)

(* Where the options with values stand by themselves the line is accepted  *)
(* if and only if the grammar has it, and the command is what follows a    *)
(* "--" that is no option's value.  Of the others some are refused, and    *)
(* what is accepted is in the grammar or one of the two oddities.          *)
AsInUsage ==
  parse.action \in {"run", "error"} =>
    /\ Separate(words) =>
         /\ parse.action = "run" <=> LaunchLine(words) \/ AttachLine(words)
         /\ parse.action = "run" /\ config.mode = "launch" => Launches(words, config.command)
    /\ parse.action = "run" =>
         IF config.mode = "launch"
           THEN Launches(words, config.command) \/ config.command \in Mistaken(words)
           ELSE AttachLine(words) \/ Overlooked(words)
=============================================================================
