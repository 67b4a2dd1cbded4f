----------------------------- MODULE CuprofLaunch -----------------------------
(***************************************************************************)
(* How a cuprof window comes to be configured: the launcher parses its     *)
(* command line, sets the environment and becomes the target (main.cc);    *)
(* the library in the target merges the environment with a configuration   *)
(* file (config.cc); the trace writer uses what came out of it             *)
(* (trace_writer.cc).  A target that was started otherwise begins at the   *)
(* second step, with the environment its embedder gave it.  Words and keys *)
(* are members of small sets; integers have the Width bits of the code's   *)
(* 64, and half of them the Width \div 2 of its unsigned.                  *)
(***************************************************************************)
EXTENDS Integers, Sequences, SequencesExt

CONSTANTS
  Width,      \* bits of an unsigned long long
  MaxWords    \* bound: words after `cuprof run`

VARIABLES
  stage,      \* "options", "usage", "target", "loaded", "traced"
  argv,       \* the words after `run`
  parse,      \* the option loop: the word it is at, what it took, whether it is over
  env,        \* the text of each key in the environment
  files,      \* history: the configuration files there were
  config,     \* the Config of the window
  event       \* history: raw start and end of an event, and the times written

launchVars == <<stage, argv, parse, env, files, config, event>>

Minus(a, b) == (a - b) % 2^Width

Words == {"--", "-o", "-d", "-v", "-z", "prog", "5"}
Unset == "unset"
Keys == {"DURATION", "TIMEOUT"}

\* A value as strtoul sees it: an optional sign, digits (Big: more than fit, which sets
\* ERANGE; NoDigits: none at all) and what follows them.
NoDigits == -1
Big == 2^Width
Text(neg, digits, rest) == [neg |-> neg, digits |-> digits, rest |-> rest]
NoText == Text(FALSE, NoDigits, "absent")
Number(n) == Text(FALSE, n, "end")
Texts == {Text(neg, d, rest) : neg \in BOOLEAN, d \in {NoDigits, 0, 1, 2, 5, 8, 9, 2^Width - 1, Big},
                               rest \in {"end", "blank", "junk"}}
TextOf(word) == IF word = "5" THEN Number(5) ELSE Text(FALSE, NoDigits, "junk")

NoKeys == [k \in Keys |-> NoText]
NoFiles == [isNamed |-> FALSE, named |-> NoKeys, pid |-> NoKeys, shared |-> NoKeys]
NoOptions == [output |-> Unset, duration |-> Unset, verbose |-> FALSE]
Parsing == [at |-> 1, over |-> FALSE, bad |-> FALSE, opts |-> NoOptions]
NoConfig == [duration |-> 0, timeout |-> 0, offset |-> 0]
NoEvent == [start |-> 0, end |-> 0, ts |-> 0, dur |-> 0]

InitWith(s, words, duration, timeout) ==
  /\ stage = s /\ argv = words /\ parse = Parsing
  /\ env = [NoKeys EXCEPT !["DURATION"] = duration, !["TIMEOUT"] = timeout]
  /\ files = NoFiles /\ config = NoConfig /\ event = NoEvent

\* A command line, or a target that is started by somebody else.
Init ==
  \E duration \in {NoText, Number(7)} :
    \/ \E n \in 0..MaxWords : \E words \in [1..n -> Words] : InitWith("options", words, duration, NoText)
    \/ \E timeout \in Texts \cup {NoText} : InitWith("target", <<>>, duration, timeout)

-----------------------------------------------------------------------------
(* main.cc.                                                                *)

\* One turn of the option loop.  A flag that needs a value and has none, like an unknown
\* one, is an error; the first plain word is the target.
ParseOption ==
  /\ stage = "options" /\ ~parse.over /\ parse.at <= Len(argv)
  /\ LET i == parse.at
         hasValue == i + 1 <= Len(argv)
     IN parse' = CASE argv[i] = "--" -> [parse EXCEPT !.at = i + 1, !.over = TRUE]
                   [] argv[i] = "-o" /\ hasValue -> [parse EXCEPT !.at = i + 2, !.opts.output = argv[i + 1]]
                   [] argv[i] = "-d" /\ hasValue -> [parse EXCEPT !.at = i + 2, !.opts.duration = argv[i + 1]]
                   [] argv[i] = "-v" -> [parse EXCEPT !.at = i + 1, !.opts.verbose = TRUE]
                   [] argv[i] \in {"prog", "5"} -> [parse EXCEPT !.over = TRUE]
                   [] OTHER -> [parse EXCEPT !.over = TRUE, !.bad = TRUE]
  /\ UNCHANGED <<stage, argv, env, files, config, event>>

\* An unknown option or no program: the usage message and exit status 2.
Refuse ==
  /\ stage = "options" /\ (parse.bad \/ parse.at > Len(argv))
  /\ stage' = "usage"
  /\ UNCHANGED <<argv, parse, env, files, config, event>>

\* setenv for each option that was given, then the program takes the launcher's place.
Launch ==
  /\ stage = "options" /\ parse.over /\ ~parse.bad /\ parse.at <= Len(argv)
  /\ stage' = "target"
  /\ env' = IF parse.opts.duration = Unset THEN env
            ELSE [env EXCEPT !["DURATION"] = TextOf(parse.opts.duration)]
  /\ argv' = <<>> /\ parse' = [Parsing EXCEPT !.opts.duration = parse.opts.duration]
  /\ UNCHANGED <<files, config, event>>

-----------------------------------------------------------------------------
(* config.cc.                                                              *)

\* CUPROF_CONFIG names the file, whatever it holds; otherwise it is the pid's own file,
\* and when that one has no entry, /tmp/cuprof.cfg.
LoadCfgFile(f) ==
  CASE f.isNamed -> f.named
    [] ~f.isNamed /\ f.pid # NoKeys -> f.pid
    [] OTHER -> f.shared

\* A variable that is set and not empty wins over the file.
Merged(f) == [k \in Keys |-> IF env[k] # NoText THEN env[k] ELSE LoadCfgFile(f)[k]]

TeardownMin == 2
TeardownDefault == 4
TeardownMax == 8

\* Mutant of TeardownTimeout: a '-' is left to strtoull, which wraps the value.
TimeoutTakesMinus(t) ==
  LET v == IF t.neg THEN Minus(0, t.digits) ELSE t.digits IN
  IF t.rest \in {"end", "blank"} /\ t.digits \notin {NoDigits, Big} /\ v >= TeardownMin
  THEN (IF v > TeardownMax THEN TeardownMax ELSE v) ELSE TeardownDefault

\* The default, unless the whole value is a number of at least the minimum that fits; a
\* number beyond the maximum is clamped to it.
TeardownTimeout(t) ==
  IF ~t.neg /\ t.digits \notin {NoDigits, Big} /\ t.rest \in {"end", "blank"} /\ t.digits >= TeardownMin
  THEN (IF t.digits > TeardownMax THEN TeardownMax ELSE t.digits)
  ELSE TeardownDefault

\* strtoul, which takes what it can and saturates, cut to an unsigned.
DurationSec(t) ==
  LET v == CASE t.digits = NoDigits -> 0
             [] t.digits = Big -> 2^Width - 1
             [] OTHER -> IF t.neg THEN Minus(0, t.digits) ELSE t.digits
  IN v % 2^(Width \div 2)

\* The offset is the difference of the two clocks.
LoadConfig(f, offset) ==
  /\ stage = "target" /\ stage' = "loaded" /\ files' = f
  /\ config' = [duration |-> DurationSec(Merged(f)["DURATION"]),
                timeout |-> TeardownTimeout(Merged(f)["TIMEOUT"]), offset |-> offset]
  /\ UNCHANGED <<argv, parse, env, event>>

-----------------------------------------------------------------------------
(* trace_writer.cc.                                                        *)

\* The start is moved to the monotonic clock when it lies beyond the offset; the
\* duration is taken from the raw pair and clamped at zero.
WriteEvent(start, end) ==
  /\ stage = "loaded" /\ stage' = "traced"
  /\ event' = [start |-> start, end |-> end,
               ts |-> IF start > config.offset THEN Minus(start, config.offset) ELSE start,
               dur |-> IF end >= start THEN Minus(end, start) ELSE 0]
  /\ UNCHANGED <<argv, parse, env, files, config>>

ConfigFiles ==
  LET entries == {NoKeys, [NoKeys EXCEPT !["DURATION"] = Number(6)], [NoKeys EXCEPT !["TIMEOUT"] = Number(3)]}
  IN [isNamed : {TRUE}, named : entries, pid : {NoKeys}, shared : {NoKeys}]
       \cup [isNamed : {FALSE}, named : {NoKeys}, pid : entries, shared : entries]

Next ==
  \/ ParseOption \/ Refuse \/ Launch
  \/ \E f \in ConfigFiles, offset \in {0, 6, 2^Width - 1} : LoadConfig(f, offset)
  \/ \E start, end \in {0, 6, 7, 2^Width - 1} : WriteEvent(start, end)

Spec == Init /\ [][Next]_launchVars

-----------------------------------------------------------------------------
\* A complete option.
IsOption(s) == s = <<"-v">> \/ (Len(s) = 2 /\ s[1] \in {"-o", "-d"})

\* Where the options in s begin, with the end of s, if s is nothing but options.
Cuts(s) ==
  {cuts \in SUBSET (1..(Len(s) + 1)) :
     /\ {1, Len(s) + 1} \subseteq cuts
     /\ \A i, j \in cuts : i < j /\ (\A k \in cuts : k <= i \/ k >= j) => IsOption(SubSeq(s, i, j - 1))}

\* What the launcher makes of the words is the one reading that the usage message
\* allows: options, then perhaps "--", then the target, whose own flags are never eaten;
\* a duration counts where it is an option, the last one if there are several.
OptionsEndAtTarget ==
  stage = "options" /\ parse.over /\ ~parse.bad /\ parse.at <= Len(argv) =>
    \E n \in 0..(parse.at - 1) :
      /\ \/ n = parse.at - 1 /\ argv[parse.at] \in {"prog", "5"}
         \/ n = parse.at - 2 /\ argv[parse.at - 1] = "--"
      /\ \E cuts \in Cuts(SubSeq(argv, 1, n)) :
           LET durations == {i \in cuts : i <= n /\ argv[i] = "-d"} IN
           IF durations = {} THEN parse.opts.duration = Unset
           ELSE \E i \in durations : (\A j \in durations : j <= i) /\ parse.opts.duration = argv[i + 1]

\* The window the target opens: a number on the command line is its length whatever
\* the environment and the files say, a variable beats every file, and a file on the
\* shared path counts only for a process nobody else configured.  The teardown bound is
\* never zero nor beyond the ceiling, and only a number that asks for more than the
\* default lengthens it.
WindowIsAsAsked ==
  stage \in {"loaded", "traced"} =>
    /\ parse.opts.duration = "5" => config.duration = 5
    /\ config.duration = 6 => env["DURATION"] = NoText
    /\ env = NoKeys /\ (files.isNamed => files.named = NoKeys) /\ (~files.isNamed => files.pid = NoKeys)
       /\ (config.duration # 0 \/ config.timeout # TeardownDefault) => ~files.isNamed /\ files.shared # NoKeys
    /\ config.timeout \in TeardownMin..TeardownMax
    /\ config.timeout > TeardownDefault =>
         LET t == env["TIMEOUT"] IN ~t.neg /\ t.rest # "junk" /\ t.digits >= config.timeout

\* Times do not wrap, whatever the clocks did and also for an event without an end: the
\* time shown is at most the raw one and the duration is the one CUPTI measured.
TimesNeverWrap ==
  /\ event.ts <= event.start
  /\ event.dur <= event.end /\ (event.end >= event.start => event.start + event.dur = event.end)
=============================================================================
