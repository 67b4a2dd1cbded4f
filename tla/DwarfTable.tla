------------------------------ MODULE DwarfTable ------------------------------
(***************************************************************************)
(* How pyki unwinds native frames: the table DwarfParser builds from the   *)
(* call frame instructions of a library (dwarf.cpp), the search in it      *)
(* (CodeCache::findFrameDesc) and one step of get_native_stack_trace on    *)
(* x86-64.  The environment is a compiler that lays out functions one      *)
(* instruction after another and describes each change of sp and fp by     *)
(* the frame instructions a compiler uses for it; the parser reads them.   *)
(* Addresses and the stack are counted in words and instructions; a        *)
(* function's stack is seen from the caller's sp, which is 0, so its       *)
(* return address lies at -1 and a saved fp at -2.                         *)
(***************************************************************************)
EXTENDS Integers, Sequences, SequencesExt

CONSTANTS
  MaxLoc,     \* bound: locations of the library
  MaxFrame    \* bound: words of a frame

VARIABLES
  cfi,        \* the parser: loc, the rules of parseInstructions, those remembered, the table
  open,       \* the parser is inside an FDE
  kind,       \* what the FDE describes: "function" or "plt"
  from,       \* the first location of the FDE
  loc,        \* the location of the next instruction
  regs,       \* sp and fp before it
  resume,     \* the registers the code after a return continues with, None if it ends there
  at,         \* history: the registers at each location of a function, NoCode elsewhere
  closed      \* history: locations below this one are completely described

dwarfVars == <<cfi, open, kind, from, loc, regs, resume, at, closed>>

CallerFp == 5
ReturnAddress == 7

\* Registers, whether fp was pushed, and whether the address is in a stub's second half.
Entry == [sp |-> -1, fp |-> CallerFp, pushed |-> FALSE, late |-> FALSE]
None == [Entry EXCEPT !.sp = 0]
NoCode == [Entry EXCEPT !.sp = 1]

\* The rules of one location: the CFA, where fp and the return address are.
Same == 100                                   \* DW_SAME_FP
EmptyFrame == [reg |-> "sp", off |-> 1, fp |-> Same, ra |-> -1]
DefaultFrame == [reg |-> "fp", off |-> 2, fp |-> -2, ra |-> -1]

Init ==
  /\ cfi = [loc |-> 0, row |-> EmptyFrame, saved |-> EmptyFrame, table |-> <<>>]
  /\ open = FALSE /\ kind = "function" /\ from = 0 /\ loc = 0 /\ closed = 0
  /\ regs = None /\ resume = None /\ at = [l \in 0..MaxLoc |-> NoCode]

-----------------------------------------------------------------------------
(* The parser.                                                             *)

\* Mutant of AddRecord: the first record for a location stays.
AddRecordOnce(tb, l, row) ==
  IF tb # <<>> /\ (Last(tb).loc = l \/ Last(tb).row = row) THEN tb
  ELSE Append(tb, [loc |-> l, row |-> row])

\* A record for the location of the last one replaces it; one with its rules adds nothing.
AddRecord(tb, l, row) ==
  CASE tb = <<>> -> <<[loc |-> l, row |-> row]>>
    [] tb # <<>> /\ Last(tb).loc = l -> Append(Front(tb), [loc |-> l, row |-> row])
    [] tb # <<>> /\ Last(tb).loc # l /\ Last(tb).row # row -> Append(tb, [loc |-> l, row |-> row])
    [] OTHER -> tb

\* One frame instruction: those for a register other than fp and the return address, and
\* those for unwinding arguments, only skip their operands.
Instruction(p, i) ==
  CASE i.op \in {"advance_loc", "advance_loc1", "advance_loc2", "advance_loc4"} ->
         [p EXCEPT !.table = AddRecord(@, p.loc, p.row), !.loc = @ + i.n]
    [] i.op \in {"offset", "offset_extended", "offset_extended_sf"} /\ i.reg = "fp" ->
         [p EXCEPT !.row.fp = i.n]
    [] i.op \in {"restore", "restore_extended", "undefined", "same_value"} /\ i.reg = "fp" ->
         [p EXCEPT !.row.fp = Same]
    [] i.op = "remember_state" -> [p EXCEPT !.saved = p.row]
    [] i.op = "restore_state" -> [p EXCEPT !.row = p.saved]
    [] i.op \in {"def_cfa", "def_cfa_sf"} -> [p EXCEPT !.row.reg = i.reg, !.row.off = i.n]
    [] i.op = "def_cfa_register" -> [p EXCEPT !.row.reg = i.reg]
    [] i.op \in {"def_cfa_offset", "def_cfa_offset_sf"} -> [p EXCEPT !.row.off = i.n]
    [] i.op = "def_cfa_expression" -> [p EXCEPT !.row.reg = "plt", !.row.off = 1]
    [] OTHER -> p

Reads(p, is) == FoldLeft(Instruction, p, is)

\* parseFde up to its instructions, and what follows them.
BeginFde(p, l) == [p EXCEPT !.loc = l, !.row = EmptyFrame, !.saved = EmptyFrame]
EndFde(p, l) ==
  [p EXCEPT !.table = AddRecord(AddRecord(@, p.loc, p.row), l, DefaultFrame)]

\* findFrameDesc's binary search: the last record at or before l.
Search(tb, l) ==
  LET find[low \in 1..(Len(tb) + 1), high \in 0..Len(tb)] ==
        LET mid == (low + high) \div 2 IN
        CASE low > high -> low - 1
          [] low <= high /\ tb[mid].loc = l -> mid
          [] low <= high /\ tb[mid].loc < l -> find[mid + 1, high]
          [] OTHER -> find[low, mid - 1]
  IN find[1, Len(tb)]

\* Before the first record only the linkage table is known to have no frame.
FindFrameDesc(tb, l, plt) ==
  LET i == Search(tb, l) IN
  IF i > 0 THEN tb[i].row ELSE IF l < plt THEN EmptyFrame ELSE DefaultFrame

\* A step of get_native_stack_trace by the rules f from the registers r at location l;
\* the words the function has written are its return address and the saved fp.
Unwound(f, r, late) ==
  LET sp == CASE f.reg = "sp" -> r.sp + f.off
              [] f.reg = "fp" -> r.fp + f.off
              [] OTHER -> r.sp + (IF late THEN 2 * f.off ELSE f.off)
      word(a) == IF a = -1 THEN ReturnAddress ELSE IF a = -2 THEN CallerFp ELSE 0
  IN [sp |-> sp, pc |-> word(sp + f.ra), fp |-> IF f.fp = Same THEN r.fp ELSE word(sp + f.fp)]

-----------------------------------------------------------------------------
(* The compiler.                                                           *)

StartFunction ==
  /\ ~open /\ \E gap \in 0..1, k \in {"function", "plt"} :
       /\ loc + gap + 1 < MaxLoc
       /\ kind' = k /\ from' = loc + gap /\ loc' = loc + gap
       /\ cfi' = Reads(BeginFde(cfi, loc + gap),
                       IF k = "plt" THEN <<[op |-> "def_cfa_expression"]>> ELSE <<>>)
  /\ open' = TRUE /\ regs' = Entry
  /\ UNCHANGED <<resume, at, closed>>

\* An instruction at loc takes the registers to r; the rules that change with it hold
\* from the next location on, which an advance from the last one described reaches.
Lays(r, is) ==
  /\ open /\ loc + 1 < MaxLoc
  /\ loc' = loc + 1 /\ regs' = r /\ at' = [at EXCEPT ![loc] = regs]
  /\ \E a \in {"advance_loc", "advance_loc1"} :
       cfi' = IF is = <<>> THEN cfi
              ELSE Reads(cfi, <<[op |-> a, n |-> loc + 1 - cfi.loc]>> \o is)
  /\ UNCHANGED <<open, kind, from, closed>>

InFunction == kind = "function" /\ resume = None
BySp == regs.fp = CallerFp         \* the CFA is counted from sp

PushFp ==
  /\ InFunction /\ regs = Entry /\ UNCHANGED resume
  /\ \E o \in {"offset", "offset_extended"} :
       Lays([regs EXCEPT !.sp = -2, !.pushed = TRUE],
            <<[op |-> "def_cfa_offset", n |-> 2], [op |-> o, reg |-> "fp", n |-> -2]>>)

SetFp ==
  /\ InFunction /\ regs.pushed /\ regs.sp = -2 /\ BySp /\ UNCHANGED resume
  /\ Lays([regs EXCEPT !.fp = -2], <<[op |-> "def_cfa_register", reg |-> "fp"]>>)

\* Space for locals or an argument.
Reserve ==
  /\ InFunction /\ regs.sp > -MaxFrame /\ UNCHANGED resume
  /\ Lays([regs EXCEPT !.sp = @ - 1],
          IF BySp THEN <<[op |-> "def_cfa_offset", n |-> 1 - regs.sp]>> ELSE <<>>)

\* A call, a move, a push of a register the unwinder does not follow.
Plain == InFunction /\ Lays(regs, <<>>) /\ UNCHANGED resume

\* The epilogue's rules; that fp is restored need not be said: its word is still there.
Back == {<<[op |-> "def_cfa", reg |-> "sp", n |-> 1]>> \o is :
          is \in {<<>>, <<[op |-> "restore", reg |-> "fp"]>>, <<[op |-> "restore_extended", reg |-> "fp"]>>}}

\* leave, in front of the last ret, or of a ret that other code follows.
Leave ==
  /\ InFunction /\ regs # Entry /\ UNCHANGED resume
  /\ \E is \in Back : Lays(Entry, is)

LeaveEarly ==
  /\ InFunction /\ regs # Entry /\ resume' = regs
  /\ \E is \in Back : Lays(Entry, <<[op |-> "remember_state"]>> \o is)

ReturnEarly ==
  /\ resume # None /\ resume' = None
  /\ Lays(resume, <<[op |-> "restore_state"]>>)

\* A linkage stub pushes its index, and the rules of one expression tell by the address.
PushIndex ==
  /\ kind = "plt" /\ regs = Entry /\ UNCHANGED resume
  /\ Lays([regs EXCEPT !.sp = -2, !.late = TRUE], <<>>)

\* The last instruction: a ret, a jump, or a call that does not return.
EndFunction ==
  /\ open /\ resume = None /\ loc < MaxLoc /\ (kind = "plt" => regs.late)
  /\ at' = [at EXCEPT ![loc] = regs] /\ loc' = loc + 1 /\ closed' = loc + 1
  /\ cfi' = EndFde(cfi, loc + 1) /\ open' = FALSE
  /\ UNCHANGED <<kind, from, regs, resume>>

Next ==
  \/ StartFunction
  \/ PushFp \/ SetFp \/ Reserve \/ Plain
  \/ Leave \/ LeaveEarly \/ ReturnEarly
  \/ PushIndex
  \/ EndFunction

Spec == Init /\ [][Next]_dwarfVars

-----------------------------------------------------------------------------

Caller == [sp |-> 0, pc |-> ReturnAddress, fp |-> CallerFp]

\* From every location of every function, whatever its prologue, locals, early returns
\* and epilogues, the table finds the rules that lead to the caller's sp, pc and fp:
\* merged and replaced records, the state remembered around an early return and the
\* search lose nothing.  Padding between functions is never unwound by a function's rules.
UnwindReturnsToCaller ==
  \A l \in 0..(closed - 1) :
    LET f == FindFrameDesc(cfi.table, l, 0) IN
    IF at[l] = NoCode THEN f = DefaultFrame ELSE Unwound(f, at[l], at[l].late) = Caller
=============================================================================
