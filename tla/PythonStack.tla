------------------------------ MODULE PythonStack ------------------------------
(***************************************************************************)
(* How pyki reads a thread's Python stack without the interpreter          *)
(* (python_stack_trace.cpp): the walk over its frames and, for each, the   *)
(* line of the instruction it stands at, decoded from the line table of    *)
(* its code.  The versions of CPython (6: up to 3.9, 10, 11, 12) differ in *)
(* the structures they are read from and in the format of the table; the   *)
(* environment is the compiler that encodes the lines of a function and an *)
(* interpreter that calls, steps and returns.  A frame stands at a code    *)
(* unit, of two bytes; its depth is that of the interpreter's evaluation   *)
(* on the C stack.                                                         *)
(***************************************************************************)
EXTENDS Integers, Sequences, SequencesExt

CONSTANTS
  Codes,       \* bound: the functions there are, each a sequence of [len, line] ranges
  MaxNframes,  \* max_nframes of the request
  MaxDepth     \* bound: frames of the thread

VARIABLES
  version,     \* the interpreter's
  columns,     \* whether the compiler notes columns
  code,        \* the function that runs
  pyFrames,    \* the frames, the innermost first
  sample,      \* the line and the entry flag of the last sample's frames
  sampledAt    \* history: the frames it was taken of

stackVars == <<version, columns, code, pyFrames, sample, sampledAt>>

NoLine == 0
FirstLine == 1       \* co_firstlineno
NoDelta == -128
LineMax == 1         \* the largest line step an entry of the older tables holds
CodeOffset == 5      \* co_code_adaptive: where the instructions lie in a code object

Starts(c, i) == FoldLeft(LAMBDA n, r : n + r.len, 0, SubSeq(c, 1, i - 1))
Units(c) == Starts(c, Len(c) + 1)

\* A thread that runs c under an interpreter of version v.
InitWith(v, cols, c) ==
  /\ version = v /\ columns = cols /\ code = c
  /\ pyFrames = <<[at |-> 0, depth |-> 1]>> /\ sample = <<>> /\ sampledAt = <<>>

\* The tables of the older interpreters know no instruction without a line, and no columns.
Init ==
  \E v \in {6, 10, 11, 12}, cols \in BOOLEAN, c \in Codes :
    /\ v <= 10 => ~cols
    /\ v = 6 => \A i \in DOMAIN c : c[i].line # NoLine
    /\ InitWith(v, cols, c)

-----------------------------------------------------------------------------
(* The compiler's tables.                                                  *)

\* A step of n lines as entries of at most LineMax each, the first of them after a bytes.
Split(a, n) ==
  CASE n > LineMax -> <<[bytes |-> a, delta |-> LineMax], [bytes |-> 0, delta |-> n - LineMax]>>
    [] n < -LineMax -> <<[bytes |-> a, delta |-> -LineMax], [bytes |-> 0, delta |-> n + LineMax]>>
    [] OTHER -> <<[bytes |-> a, delta |-> n]>>

\* The line the step to range i starts from.
LineBefore(c, i) ==
  LET lined == {j \in 1..(i - 1) : c[j].line # NoLine}
  IN IF lined = {} THEN FirstLine ELSE c[CHOOSE j \in lined : \A k \in lined : k <= j].line

\* Numbers in six bits a byte, the seventh when more follow; the sign comes last.
Varint(n) == IF n < 64 THEN <<n>> ELSE <<64 + (n % 64), n \div 64>>
SignedVarint(n) == Varint(IF n < 0 THEN 2 * (-n) + 1 ELSE 2 * n)

\* The bytes 3.11 and 3.12 write: no line, no columns, the same line, one of the next two,
\* or in full; the end line and the columns take a byte each here.
Location(len, step, lined, cols) ==
  LET Opening(form) == 128 + 8 * form + (len - 1) IN
  CASE ~lined -> <<Opening(15)>>
    [] lined /\ ~cols -> <<Opening(13)>> \o SignedVarint(step)
    [] lined /\ cols /\ step = 0 -> <<Opening(0), 5>>
    [] lined /\ cols /\ step \in 1..2 -> <<Opening(10 + step), 1, 5>>
    [] OTHER -> <<Opening(14)>> \o SignedVarint(step) \o <<0, 1, 5>>

Encoded(v, cols, c, i) ==
  LET step == c[i].line - LineBefore(c, i) IN
  CASE v = 6 -> IF i = 1 THEN (IF step = 0 THEN <<>> ELSE Split(0, step)) ELSE Split(2 * c[i - 1].len, step)
    [] v = 10 -> IF c[i].line = NoLine THEN <<[bytes |-> 2 * c[i].len, delta |-> NoDelta]>>
                 ELSE LET es == Split(0, step)
                      IN SubSeq(es, 1, Len(es) - 1) \o <<[bytes |-> 2 * c[i].len, delta |-> Last(es).delta]>>
    [] OTHER -> Location(c[i].len, step, c[i].line # NoLine, cols)

LineTable(v, cols, c) == FlattenSeq([i \in DOMAIN c |-> Encoded(v, cols, c, i)])

-----------------------------------------------------------------------------
(* The interpreter's structures.                                           *)

\* What the version's structures keep: the instruction as an offset in bytes, in units or
\* as a pointer into the code object; whether a frame was entered from C as nothing, as a
\* flag or as the owner of a frame of its own.
StackTracer(v) ==
  CASE v = 6 -> [lasti |-> "bytes", entry |-> "none"]
    [] v = 10 -> [lasti |-> "units", entry |-> "none"]
    [] v = 11 -> [lasti |-> "pointer", entry |-> "flag"]
    [] v = 12 -> [lasti |-> "pointer", entry |-> "owner"]

Entered(fs, i) == i = Len(fs) \/ fs[i].depth # fs[i + 1].depth

\* The frames from get_frame on, by get_frame_back: with 3.12 a shim, which the C stack
\* owns, is under each frame that was entered from C.
FrameChain(v, fs) ==
  FlattenSeq([i \in DOMAIN fs |->
    LET f == [at |-> fs[i].at, entry |-> Entered(fs, i), shim |-> FALSE]
    IN IF StackTracer(v).entry = "owner" /\ f.entry THEN <<f, [f EXCEPT !.at = 0, !.shim = TRUE]>>
       ELSE <<f>>])

FrameIsEntry(v, f) ==
  CASE StackTracer(v).entry = "none" -> TRUE
    [] StackTracer(v).entry = "flag" -> f.entry
    [] StackTracer(v).entry = "owner" -> f.shim

GetFrameLasti(v, f) ==
  CASE StackTracer(v).lasti = "bytes" -> 2 * f.at
    [] StackTracer(v).lasti = "units" -> f.at
    [] StackTracer(v).lasti = "pointer" -> CodeOffset + 2 * f.at

-----------------------------------------------------------------------------
(* get_lineno.                                                             *)

\* Up to 3.9: an entry's bytes come before its line.
LineUpTo39(table, lasti) ==
  LET read[i \in 0..Len(table)] ==
        IF i = 0 THEN [at |-> 0, line |-> FirstLine, done |-> FALSE]
        ELSE LET r == read[i - 1]
                 at == r.at + table[i].bytes
             IN IF r.done \/ at > lasti THEN [r EXCEPT !.done = TRUE]
                ELSE [r EXCEPT !.at = at, !.line = @ + table[i].delta]
  IN read[Len(table)].line

\* 3.10: an entry's line holds for its bytes; one without a line is skipped whole.
Line310(table, lasti) ==
  LET read[i \in 0..Len(table)] ==
        IF i = 0 THEN [at |-> 0, line |-> FirstLine, done |-> FALSE]
        ELSE LET r == read[i - 1] IN
             IF r.done \/ table[i].delta = NoDelta THEN r
             ELSE [at |-> r.at + table[i].bytes, line |-> r.line + table[i].delta,
                   done |-> r.at + table[i].bytes > 2 * lasti]
  IN read[Len(table)].line

\* The loop looks for the bit that more follow in what was masked: it reads one byte.
ReadVarint(table, i) ==
  IF i > Len(table) THEN [value |-> 0, next |-> i] ELSE [value |-> table[i] % 64, next |-> i + 1]

ReadSignedVarint(table, i) ==
  [ReadVarint(table, i) EXCEPT !.value = IF @ % 2 = 1 THEN -(@ \div 2) ELSE @ \div 2]

\* One entry of 3.11 and 3.12: its units, its line step and where the next one is.
ReadEntry(table, i) ==
  LET form == (table[i] \div 8) % 16
      step == ReadSignedVarint(table, i + 1)
      skip[n \in 0..3] == IF n = 0 THEN step.next ELSE ReadVarint(table, skip[n - 1]).next
      Entry(delta, next) == [units |-> (table[i] % 8) + 1, delta |-> delta, next |-> next]
  IN CASE form = 15 -> Entry(0, i + 1)
       [] form = 14 -> Entry(step.value, skip[3])
       [] form = 13 -> Entry(step.value, step.next)
       [] form \in 10..12 -> Entry(form - 10, i + 3)
       [] OTHER -> Entry(0, i + 2)

\* 3.11 and 3.12: an entry's line holds for its units, and for the instruction after them.
Line311(table, lasti) ==
  LET read[i \in Nat, at \in Nat, line \in Int] ==
        IF i > Len(table) THEN line
        ELSE LET e == ReadEntry(table, i)
                 end == at + 2 * e.units
             IN IF end >= lasti - CodeOffset THEN line + e.delta
                ELSE read[e.next, end, line + e.delta]
  IN read[1, 0, FirstLine]

\* Mutant of GetLineno: one reader for both formats that put an entry's line first.
GetLinenoAlike(v, table, lasti) ==
  IF v \in {6, 10} THEN Line310(table, lasti) ELSE Line311(table, lasti)

GetLineno(v, table, lasti) ==
  CASE v = 6 -> LineUpTo39(table, lasti)
    [] v = 10 -> Line310(table, lasti)
    [] OTHER -> Line311(table, lasti)

\* StackTracerBase::get_stack_trace: the bound is looked at after a frame was written.
\* No instruction of a shim has a line.
GetStackTrace ==
  LET chain == FrameChain(version, pyFrames)
      n == IF Len(chain) > MaxNframes THEN MaxNframes + 1 ELSE Len(chain)
      table == LineTable(version, columns, code)
  IN [i \in 1..n |->
        [line |-> IF chain[i].shim THEN FirstLine
                  ELSE GetLineno(version, table, GetFrameLasti(version, chain[i])),
         entry |-> FrameIsEntry(version, chain[i])]]

-----------------------------------------------------------------------------

Sample ==
  /\ sample' = GetStackTrace /\ sampledAt' = pyFrames
  /\ UNCHANGED <<version, columns, code, pyFrames>>

\* Up to 3.10 every call is an evaluation of its own.
Call ==
  /\ Len(pyFrames) < MaxDepth
  /\ \E d \in {0, 1} :
       /\ version <= 10 => d = 1
       /\ pyFrames' = <<[at |-> 0, depth |-> pyFrames[1].depth + d]>> \o pyFrames
  /\ UNCHANGED <<version, columns, code, sample, sampledAt>>

Return ==
  /\ Len(pyFrames) > 1 /\ pyFrames' = Tail(pyFrames)
  /\ UNCHANGED <<version, columns, code, sample, sampledAt>>

\* The innermost frame goes on, or jumps.
Step ==
  /\ \E u \in 0..(Units(code) - 1) : u # pyFrames[1].at /\ pyFrames' = [pyFrames EXCEPT ![1].at = u]
  /\ UNCHANGED <<version, columns, code, sample, sampledAt>>

Next == Sample \/ Call \/ Return \/ Step

Spec == Init /\ [][Next]_stackVars

-----------------------------------------------------------------------------

RangeOf(c, u) == CHOOSE i \in DOMAIN c : Starts(c, i) <= u /\ u < Starts(c, i) + c[i].len

\* Where the decoder knows its format in full: 3.10 before the first range without a
\* line, 3.11 anywhere but at the first instruction of a range, after line steps of less
\* than 32.
Decodable(c, u) ==
  LET upTo == {i \in 1..RangeOf(c, u) : c[i].line # NoLine} IN
  CASE version = 6 -> TRUE
    [] version = 10 -> upTo = 1..RangeOf(c, u)
    [] OTHER -> /\ RangeOf(c, u) \in upTo
                /\ u = 0 \/ u > Starts(c, RangeOf(c, u))
                /\ \A i \in upTo : c[i].line - LineBefore(c, i) \in (-31)..31

Flags(i, j) == Len(SelectSeq(SubSeq(sample, i, j), LAMBDA f : f.entry))

\* A sample shows the innermost frames in order, each at the line its instruction comes
\* from, for every table format, also where a line step or a block needs several entries
\* and where lines go backwards; between two frames there are as many entry flags as the
\* C stack has evaluations between them; there is never more than one frame beyond the
\* request.
SampleIsTheStack ==
  LET chain == FrameChain(version, sampledAt)
      own == {i \in DOMAIN sample : ~chain[i].shim}
      Frame(i) == sampledAt[Len(SelectSeq(SubSeq(chain, 1, i), LAMBDA f : ~f.shim))]
  IN /\ Len(sample) <= MaxNframes + 1 /\ Len(sample) <= Len(chain)
     /\ Len(chain) <= MaxNframes => Len(sample) = Len(chain)
     /\ \A i \in own :
          Decodable(code, Frame(i).at) => sample[i].line = code[RangeOf(code, Frame(i).at)].line
     /\ \A i, j \in own : i < j => Flags(i, j - 1) = Frame(i).depth - Frame(j).depth
===============================================================================
