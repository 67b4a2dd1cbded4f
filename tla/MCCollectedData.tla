---------------------------- MODULE MCCollectedData ----------------------------
\* Small instances of the parts that keep what is collected.
EXTENDS CollectedData, MCRustNames, TLC

AllParts == {"tracer", "free", "called", "map", "list", "stack", "shown", "leaks", "buffers", "names"}

\* Seven keys on three cells: four, a third of the table away, and two that share another;
\* one is at the end of the table.
Hashed == [k \in {"x1", "x2"} |-> 28] @@ [k \in {"y1", "y2", "y3", "y4"} |-> 16] @@ ("z" :> 51)

\* Functions of one range of instructions, of two, and of three that differ from their
\* neighbours; two of three have a line step of three or one beyond the byte.
LineRange == [len : 1..2, line : {0, 1, 3}]
Functions ==
  [1..1 -> LineRange] \cup {c \in [1..2 -> LineRange] : c[1].len = 1 /\ c[2].len = 2}
    \cup {c \in [1..3 -> LineRange] : /\ c[1].len = 1 /\ c[2].len = 2 /\ c[3].len = 1
                                 /\ c[1].line # c[2].line /\ c[2].line # c[3].line}
    \cup {[i \in 1..3 |-> [len |-> <<1, 2, 2>>[i], line |-> <<1, line, 2>>[i]]] : line \in {4, 40}}

\* Strings in one row: of one letter, of the same letter in another kind, with more after it,
\* with a zero inside, and one that does not decode.
String(text, kind) == [text |-> text, kind |-> kind]
x == String(<<2>>, 0)
longer == String(<<2, 5>>, 0)
y == String(<<3>>, 0)
wide == String(<<3, 0, 4>>, 2)
notUtf8 == String(<<255>>, 0)
FirstByte(string) == string.text[1]

Python(name, line, entry) == [file |-> y, name |-> name, line |-> line, entry |-> entry]
Native(name, eval) == [library |-> <<>>, name |-> name, eval |-> eval]
Loop == Native(<<x>>, TRUE)

\* Native frames with and without interpreter loops, and what the loops run.
AllStacks ==
  [native : {<<>>, <<Loop>>, <<Native(<<>>, FALSE), Loop>>, <<Loop, Native(<<y>>, FALSE), Loop>>},
   groups : {<<>>, <<<<Python([x EXCEPT !.kind = 1], 1, TRUE)>>>>,
             <<<<Python(y, 1, FALSE), Python(wide, 2, TRUE)>>>>,
             <<<<Python(wide, 1, TRUE)>>, <<Python(x, 2, TRUE)>>>>,
             <<<<Python(x, 1, TRUE)>>, <<Python(longer, 2, FALSE), Python(y, 3, TRUE)>>>>,
             <<<<Python(notUtf8, 1, TRUE)>>>>}]
SmallStack == {[native |-> <<>>, groups |-> <<<<Python(x, 1, TRUE)>>>>]}

Cpu == {[tag |-> "cpu", op |-> "none"]}
AllOps == Cpu \cup {[tag |-> "allocation", op |-> "heap"]}
              \cup [tag : {"malloc"}, op : {"malloc", "free", "mmap", "munmap"}]
=============================================================================
