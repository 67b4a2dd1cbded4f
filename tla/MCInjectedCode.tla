---------------------------- MODULE MCInjectedCode ----------------------------
\* Small instances of the parts of the injected code.
EXTENDS InjectedCode, Sequences, TLC

AllParts == {"allocator", "storage", "recorder", "hooks", "tracer", "dwarf", "symbols",
             "sampler", "site", "launcher"}

\* Both threads start their search for a slot at the same one.
OneHome == [t \in Threads |-> 0]

\* Two threads take a sample each, or two, with one fault; one thread is interrupted often
\* enough to fault in a handler above a handler.
SampleQuotas ==
  {[threads |-> {"t1", "t2"}, samples |-> 2, faults |-> 1, traces |-> {"a", "b"}],
   [threads |-> {"t1"}, samples |-> 3, faults |-> 2, traces |-> {"a"}]}

\* Tables of three symbols, none of which overlaps another in part, the first at the start
\* of the text.
Symbol == {b \in [start : 1..4, end : 1..5, name : {"x"}] : b.start <= b.end /\ b.end <= b.start + 2}
Apart(b, c) ==
  \/ b.start # c.start /\ (b.end <= c.start \/ c.end <= b.start)
  \/ b.start = c.start /\ b.end = c.end
Named(t) == [i \in DOMAIN t |-> [t[i] EXCEPT !.name = <<"p", "q", "r">>[i]]]
SymbolTables ==
  {Named(t) : t \in {u \in [1..3 -> Symbol] :
     /\ u[1].start = 1 /\ u[2].end # u[1].end
     /\ \A i, j \in 1..3 : i < j => u[i].start <= u[j].start /\ Apart(u[i], u[j])}}

\* The points of the one interval, and of the time when no session samples.
SampledPoints == (0 :> {2}) @@ (1 :> {1, 3})
=============================================================================
