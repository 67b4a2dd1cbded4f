----------------------------- MODULE RustDemangle -----------------------------
(***************************************************************************)
(* The names of Rust functions in native frames: rustDemangle.cpp and its  *)
(* use in demangle.cpp and the recorder.  The environment is a compiler    *)
(* that mangles a tree in the v0 scheme, with or without references back   *)
(* to what it wrote before, or a path in the legacy one; some symbols are  *)
(* damaged.                                                                *)
(***************************************************************************)
EXTENDS RustMangle

CONSTANTS
  MaxDepth,       \* MAX_DEPTH
  MaxWide,        \* SMALL_PUNYCODE_LEN
  FirstRoom, RoomLimit, Margin,   \* buffer sizes; OVERFLOW_MARGIN
  Paths, Crates,  \* what the v0 compiler mangles; the instantiating crate, if any
  LegacyPaths,    \* what the legacy one does
  Endings,        \* what later passes append
  DamagedPaths,   \* what the damaged symbols are made of
  Letters         \* a damaged symbol has one of these, or ends before its end

VARIABLES
  symbol,         \* the symbol that is looked at
  wanted,         \* the text of what it was made of, or Nothing
  shown           \* what the tool shows

vars == <<symbol, wanted, shown>>

Nothing == <<>>

-----------------------------------------------------------------------------
\* The parser.  What it reads at a place is a result: a value and the place after it.
Good(val, next) == [status |-> "ok", val |-> val, next |-> next]
Bad == [status |-> "{invalid syntax}"]

\* parser_peek: past the end there is an imaginary NUL.
At(s, i) == IF i < Len(s) THEN s[i + 1] ELSE ""

\* The longest run of letters of a set from a place on.
RunOf(s, i, letters) ==
  LET first == SelectInSubSeq(s, i + 1, Len(s), LAMBDA letter : letter \notin letters)
  IN SubSeq(s, i + 1, IF first = 0 THEN Len(s) ELSE first - 1)

Letter(s, i) == IF i < Len(s) THEN Good(s[i + 1], i + 1) ELSE Bad

NibblesUpTo(s, digits, end) == IF At(s, end) = "_" THEN Good(digits, end + 1) ELSE Bad
NibblesOf(s, i, digits) == NibblesUpTo(s, digits, i + Len(digits))
HexNibbles(s, i) == NibblesOf(s, i, RunOf(s, i, HexLetters))

Integer62UpTo(s, digits, end, x) ==
  IF At(s, end) # "_" \/ x >= MaxInt THEN Bad ELSE Good(IF digits = <<>> THEN 0 ELSE x + 1, end + 1)
Integer62Of(s, i, digits) == Integer62UpTo(s, digits, i + Len(digits), Number(digits, Base62))
Integer62(s, i) == Integer62Of(s, i, RunOf(s, i, Base62Letters))

OneMore(r) == IF r = Bad \/ r.val >= MaxInt THEN Bad ELSE Good(r.val + 1, r.next)
OptInteger62(s, i, tag) == IF At(s, i) = tag THEN OneMore(Integer62(s, i + 1)) ELSE Good(0, i)

Disambiguator(s, i) == OptInteger62(s, i, "s")

Namespace(s, i) ==
  IF At(s, i) \in UpperLetters THEN Good(s[i + 1], i + 1)
  ELSE IF At(s, i) \in LowerLetters THEN Good("", i + 1) ELSE Bad

\* A length, an optional `_' and as many letters; those of a name that is not ASCII are split
\* at the last `_'.
IdentSplit(name, cut, next) ==
  IF cut = Len(name) THEN Bad
  ELSE Good([ascii |-> SubSeq(name, 1, cut - 1), puny |-> SubSeq(name, cut + 1, Len(name))], next)
IdentNamed(name, next, puny) ==
  IF puny THEN IdentSplit(name, SelectLastInSeq(name, LAMBDA letter : letter = "_"), next)
  ELSE Good([ascii |-> name, puny |-> <<>>], next)
IdentAt(s, start, len, puny) ==
  IF len > Len(s) - start THEN Bad
  ELSE IdentNamed(SubSeq(s, start + 1, start + len), start + len, puny)
IdentAfter(s, i, len, puny) == IdentAt(s, IF At(s, i) = "_" THEN i + 1 ELSE i, len, puny)
IdentOf(s, i, digits, puny) ==
  IF digits = <<>> THEN Bad ELSE IdentAfter(s, i + Len(digits), Number(digits, Decimal), puny)
IdentFrom(s, i, puny) ==
  IdentOf(s, i, IF At(s, i) = "0" THEN <<"0">> ELSE RunOf(s, i, DecimalLetters), puny)
Ident(s, i) == IF At(s, i) = "u" THEN IdentFrom(s, i + 1, TRUE) ELSE IdentFrom(s, i, FALSE)

\* parser_backref: to a place before the `B' that was just read.
BackrefOf(r, i, depth) ==
  IF r = Bad \/ r.val >= i - 1 THEN Bad
  ELSE IF depth + 1 > MaxDepth THEN [status |-> "{recursion limit reached}"] ELSE r
BackrefTo(s, i, depth) == BackrefOf(Integer62(s, i), i, depth)

-----------------------------------------------------------------------------
\* Names that are not ASCII.

IsScalar(n) == n \in 0..1114111 /\ n \notin 55296..57343              \* validate_char

\* One number of a punycode, and how many letters it takes; none if the code ends within it.
RECURSIVE Delta(_, _, _, _, _)
DeltaMore(d, w, rest) == [rest EXCEPT !.val = @ + d * w]
DeltaDigit(code, used, k, w, bias, d, t) ==
  IF d < t THEN [used |-> used + 1, val |-> d * w]
  ELSE DeltaMore(d, w, Delta(code, used + 1, k + 36, w * (36 - t), bias))
Delta(code, used, k, w, bias) ==
  IF used = Len(code) \/ code[used + 1] \notin Base36Letters THEN [used |-> 0, val |-> 0]
  ELSE DeltaDigit(code, used, k, w, bias, Digit(code[used + 1], Base36),
                  IF k - bias < 1 THEN 1 ELSE IF k - bias > 26 THEN 26 ELSE k - bias)

\* punycode_decode: `text' are the code points so far; one more is put in its place.
RECURSIVE PunycodeDecode(_, _, _, _, _, _)
PunycodeRest(text, rest, place, n, bias) ==
  IF rest = <<>> THEN Good(text, 0) ELSE PunycodeDecode(text, rest, place, n, bias, 2)
PunycodeInsert(text, code, delta, i, n, damp, len) ==
  LET point == n + (i + delta.val) \div len
      place == (i + delta.val) % len
  IN IF delta.used = 0 \/ ~IsScalar(point) \/ len > MaxWide THEN Bad
     ELSE PunycodeRest(InsertAt(text, place + 1, point), SubSeq(code, delta.used + 1, Len(code)),
                       place + 1, point, Adapted(delta.val, len, damp))
PunycodeDecode(text, code, i, n, bias, damp) ==
  PunycodeInsert(text, code, Delta(code, 0, 36, 1, bias), i, n, damp, Len(text) + 1)

\* display_ident
WideText(id, wide) ==
  IF wide # Bad THEN [k \in DOMAIN wide.val |-> Glyph(wide.val[k])]
  ELSE <<"punycode{">> \o (IF id.ascii = <<>> THEN <<>> ELSE Append(id.ascii, "-"))
                       \o Append(id.puny, "}")
IdentText(id) ==
  IF id.puny = <<>> THEN id.ascii
  ELSE WideText(id, PunycodeDecode([k \in DOMAIN id.ascii |-> CodeOf(id.ascii[k])],
                                   id.puny, 0, 128, 72, 700))

\* char_to_string
Escaped(n, quote) ==
  CASE n = 0 -> "\\0" [] n = 9 -> "\\t" [] n = 13 -> "\\r" [] n = 10 -> "\\n" [] n = 92 -> "\\\\"
    [] n = quote -> "\\" \o Glyph(n)
    [] n # quote /\ n \notin {0, 9, 13, 10, 92} ->
         IF n \in 32..126 THEN Glyph(n) ELSE "\\u{" \o Concatenated(Digits(n, Hex)) \o "}"

\* utf8_next_char on what is left of a string, of which it is given four bytes; the value is
\* the character, the place the number of bytes.
Utf8Char(b) ==
  LET Byte(k) == IF k <= Len(b) THEN b[k] ELSE 0
      Tails(k) == \A j \in 2..k : Byte(j) \in 128..191
      Low(k) == Byte(k) % 64
      c == Byte(1)
  IN IF c < 128 THEN Good(c, 1)
     ELSE IF c \in 194..223 /\ Tails(2) THEN Good((c % 32) * 64 + Low(2), 2)
     ELSE IF /\ c \in 224..239 /\ Tails(3)
             /\ (c = 224 => Byte(2) >= 160) /\ (c = 237 => Byte(2) < 160)
       THEN Good((c % 16) * 4096 + Low(2) * 64 + Low(3), 3)
     ELSE IF /\ c \in 240..244 /\ Tails(4)
             /\ (c = 240 => Byte(2) >= 144) /\ (c = 244 => Byte(2) < 144)
       THEN Good((c % 8) * 262144 + Low(2) * 4096 + Low(3) * 64 + Low(4), 4)
     ELSE Bad

\* nibbles_to_string
RECURSIVE StringText(_)
StringMore(c, rest) == IF rest = Bad THEN Bad ELSE Good(<<Escaped(c.val, 34)>> \o rest.val, 0)
StringFrom(bytes, c) ==
  IF c = Bad \/ c.next > Len(bytes) THEN Bad
  ELSE StringMore(c, StringText(SubSeq(bytes, c.next + 1, Len(bytes))))
StringText(bytes) == IF bytes = <<>> THEN Good(<<>>, 0) ELSE StringFrom(bytes, Utf8Char(bytes))

Quoted(text) == IF text = Bad THEN Bad ELSE Good(<<"\"">> \o Append(text.val, "\""), 0)
NibblesToString(digits) ==
  IF Len(digits) % 2 = 1 THEN Bad
  ELSE Quoted(StringText([k \in 1..(Len(digits) \div 2) |->
                            Number(SubSeq(digits, 2 * k - 1, 2 * k), Hex)]))

\* try_parse_uint
Significant(digits) == LET n == Len(RunOf(digits, 0, {"0"})) IN SubSeq(digits, n + 1, Len(digits))
IsUint(digits) == Len(Significant(digits)) <= MaxNibbles

-----------------------------------------------------------------------------
(* The printer.  `out' is NULL while `skip' is set: what is parsed is not  *)
(* printed.  `stop' is an early return of the function that is run, `over' *)
(* an overflow, which returns from all of them; `val' is what was parsed   *)
(* last, or the number of elements of a list; `open' is the flag of        *)
(* print_maybe_open_generics.                                              *)
Printer(s, next, skip, room, alternate) ==
  [sym |-> s, next |-> next, depth |-> 0, status |-> "ok", out |-> <<>>, skip |-> skip,
   room |-> room, bound |-> 0, alternate |-> alternate,
   stop |-> FALSE, over |-> FALSE, val |-> "", open |-> FALSE]

Live(p) == ~p.stop /\ ~p.over
Return(p) == [p EXCEPT !.stop = FALSE]

\* printer_print_buf
Write(p, text) ==
  IF ~Live(p) \/ p.skip THEN p
  ELSE IF p.room < Len(text) THEN [p EXCEPT !.over = TRUE]
  ELSE [p EXCEPT !.out = @ \o text, !.room = @ - Len(text)]
p ++ piece == Write(p, <<piece>>)
WriteIf(p, condition, text) == IF Live(p) /\ condition THEN Write(p, text) ELSE p

\* INVALID and PARSE
Fail(p, status) ==
  [(p ++ status) EXCEPT !.status = IF Live(p) THEN status ELSE @, !.stop = TRUE, !.val = ""]
Invalid(p) == Fail(p, "{invalid syntax}")
Parsed(p, result) ==
  IF ~Live(p) THEN p
  ELSE IF p.status # "ok" THEN [(p ++ "?") EXCEPT !.stop = TRUE, !.val = ""]
  ELSE IF result.status # "ok" THEN Fail(p, result.status)
  ELSE [p EXCEPT !.next = result.next, !.val = result.val]

ParseLetter(p) == Parsed(p, Letter(p.sym, p.next))
ParseName(p) == Parsed(p, Ident(p.sym, p.next))
ParseDisambiguator(p) == Parsed(p, Disambiguator(p.sym, p.next))
PushDepth(p) ==
  LET q == Parsed(p, IF p.depth + 1 > MaxDepth THEN [status |-> "{recursion limit reached}"]
                     ELSE Good(p.val, p.next))
  IN IF Live(q) THEN [q EXCEPT !.depth = @ + 1] ELSE q
PopDepth(p) == IF Live(p) /\ p.status = "ok" THEN [p EXCEPT !.depth = @ - 1] ELSE p

\* printer_eat
Sees(p, letter) == Live(p) /\ p.status = "ok" /\ At(p.sym, p.next) = letter
Eaten(p, letter) == IF Sees(p, letter) THEN [p EXCEPT !.next = @ + 1] ELSE p

\* The functions of the printer call each other: what is printed, and with which flag.
RECURSIVE Emit(_, _, _)
Path(p, in_value) == Emit(<<"path">>, in_value, p)
Type(p) == Emit(<<"type">>, FALSE, p)
Const(p, in_value) == Emit(<<"const">>, in_value, p)
OpenGenerics(p) == Emit(<<"open">>, FALSE, p)
SepList(p, element, sep) == Emit(<<"list", element, sep>>, 0, p)

\* printer_print_backref: what is there is printed with the parser and the status of its own.
BackrefAt(q, what, v) ==
  IF ~Live(q) \/ q.skip THEN Return(q)
  ELSE [Emit(<<what>>, v, [q EXCEPT !.next = q.val, !.depth = @ + 1])
          EXCEPT !.next = q.next, !.depth = q.depth, !.status = q.status]
Backref(p, what, v) == BackrefAt(Parsed(p, BackrefTo(p.sym, p.next, p.depth)), what, v)

\* Lifetimes count from the innermost binder outwards.
Lifetime(p, lt) ==
  LET depth == p.bound - lt IN
  IF ~Live(p) \/ p.skip THEN p
  ELSE IF lt = 0 THEN Write(p, <<"'", "_">>)
  ELSE IF p.bound < lt THEN Return(Invalid(p ++ "'"))
  ELSE Write(p, <<"'">> \o IF depth < LifetimeNames THEN <<Lower[depth + 1]>>
                             ELSE <<"_", ToString(depth)>>)

\* The binder of n lifetimes of printer_in_binder.
RECURSIVE Bind(_, _, _)
Bind(p, n, i) ==
  IF i = n \/ ~Live(p) THEN p
  ELSE Bind(Lifetime([WriteIf(p, i > 0, <<", ">>) EXCEPT !.bound = @ + 1], 1), n, i + 1)

\* Mutant of BoundIn: the lifetimes stay bound behind the binder.
StaysBound(q, what) ==
  LET n == IF Live(q) THEN q.val ELSE 0
  IN Return(Emit(<<what>>, FALSE, IF n > 0 /\ ~q.skip THEN Bind(q ++ "for<", n, 0) ++ "> " ELSE q))

BoundIn(q, what) ==
  LET n == IF Live(q) /\ ~q.skip THEN q.val ELSE 0
  IN Return([Emit(<<what>>, FALSE, IF n > 0 THEN Bind(q ++ "for<", n, 0) ++ "> " ELSE q)
               EXCEPT !.bound = @ - n])
InBinder(p, what) == BoundIn(Parsed(p, OptInteger62(p.sym, p.next, "G")), what)

ParseLifetime(p) == Parsed(Eaten(p, "L"), Integer62(p.sym, p.next + 1))

LifetimeArg(lt) == IF Live(lt) THEN Lifetime(lt, lt.val) ELSE lt
GenericArg(p) ==
  IF Sees(p, "L") THEN LifetimeArg(ParseLifetime(p))
  ELSE IF Sees(p, "K") THEN Const(Eaten(p, "K"), FALSE)
  ELSE Type(p)

GenericArgs(p) == SepList(p ++ "<", "arg", ", ") ++ ">"

Name(p) == IF Live(p) THEN Write(p, IF p.skip THEN <<>> ELSE IdentText(p.val)) ELSE p
IsNamed(p) == Live(p) /\ p.val # [ascii |-> <<>>, puny |-> <<>>]

CrateText(name, dis) ==
  WriteIf(name, ~name.alternate /\ dis # 0, <<"[">> \o Digits(dis, Hex) \o <<"]">>)
CrateNamed(dis) == CrateText(Name(ParseName(dis)), dis.val)
CratePath(p) == CrateNamed(ParseDisambiguator(p))

\* A name within a path, or what has none: a closure or a shim, with its number.
Special(ns) == IF ns = "C" THEN "closure" ELSE IF ns = "S" THEN "shim" ELSE ns
SpecialText(name, ns, dis) ==
  Write((IF IsNamed(name) THEN Name(Write(name, <<"::{", ns, ":">>))
         ELSE Write(name, <<"::{", ns>>)), <<"#", ToString(dis), "}">>)
NestedText(name, ns, dis) ==
  IF ~Live(name) THEN name
  ELSE IF ns # "" THEN SpecialText(name, Special(ns), dis)
  ELSE IF IsNamed(name) THEN Name(name ++ "::") ELSE name
NestedNamed(dis, ns) == NestedText(ParseName(dis), ns, dis.val)
NestedIn(parent, ns) ==
  NestedNamed(ParseDisambiguator(WriteIf(parent, parent.status # "ok", <<"::">>)), ns)
NestedOf(ns, in_value) == NestedIn(Path(ns, in_value), ns.val)
NestedPath(p, in_value) == NestedOf(Parsed(p, Namespace(p.sym, p.next)), in_value)

\* The path of an impl itself is parsed and not printed.
Impl(p) == [Path([ParseDisambiguator(p) EXCEPT !.skip = TRUE], FALSE) EXCEPT !.skip = p.skip]

QualifiedType(type, tag) == (IF tag = "M" THEN type ELSE Path(type ++ " as ", FALSE)) ++ ">"
QualifiedPath(p, tag) == QualifiedType(Type((IF tag = "Y" THEN p ELSE Impl(p)) ++ "<"), tag)

PathTagged(q, tag, in_value) ==
  CASE tag = "C" -> CratePath(q)
    [] tag = "N" -> NestedPath(q, in_value)
    [] tag \in {"M", "X", "Y"} -> QualifiedPath(q, tag)
    [] tag = "I" -> GenericArgs(WriteIf(Path(q, in_value), in_value, <<"::">>))
    [] tag = "B" -> Backref(q, "path", in_value)
    [] OTHER -> Invalid(q)
PathOf(q, in_value) == IF Live(q) THEN PopDepth(PathTagged(q, q.val, in_value)) ELSE q
PathBody(p, in_value) == PathOf(ParseLetter(PushDepth(p)), in_value)

Unsigned == {"h", "t", "m", "y", "o", "j"}
Signed == {"a", "s", "l", "x", "n", "i"}

UintText(digits) ==
  IF IsUint(digits) THEN <<ToString(Number(digits, Hex))>> ELSE <<"0x">> \o digits
UintOf(q, tag) ==
  IF ~Live(q) THEN Return(q)
  ELSE Write(q, UintText(q.val) \o IF q.alternate THEN <<>> ELSE <<BasicType[tag]>>)
ParseNibbles(p) == Parsed(p, HexNibbles(p.sym, p.next))
ConstUint(p, tag) == UintOf(ParseNibbles(p), tag)

ConstBool(q) ==
  IF ~Live(q) THEN q
  ELSE IF Significant(q.val) = <<>> THEN q ++ "false"
  ELSE IF Significant(q.val) = <<"1">> THEN q ++ "true" ELSE Invalid(q)

CharOf(q, n) == IF IsScalar(n) THEN Write(q, <<"'", Escaped(n, 39), "'">>) ELSE Invalid(q)
ConstChar(q) ==
  IF ~Live(q) THEN q ELSE IF IsUint(q.val) THEN CharOf(q, Number(q.val, Hex)) ELSE Invalid(q)

StringOf(q, text) == IF text = Bad THEN Return(Invalid(q)) ELSE Write(q, text.val)
StrNibbles(q) == IF Live(q) THEN StringOf(q, NibblesToString(q.val)) ELSE Return(q)
StrLiteral(p) == StrNibbles(ParseNibbles(p))

FieldsOf(q) ==
  IF ~Live(q) THEN q
  ELSE CASE q.val = "U" -> q
         [] q.val = "T" -> SepList(q ++ "(", "const", ", ") ++ ")"
         [] q.val = "S" -> SepList(q ++ " { ", "field", ", ") ++ " }"
         [] OTHER -> Invalid(q)
Fields(p) == FieldsOf(ParseLetter(Path(p, TRUE)))

Field(p) == Return(Const(Name(ParseName(ParseDisambiguator(p))) ++ ": ", TRUE))

\* A list in round brackets, with a comma behind a single element.
TupleEnd(all) == WriteIf(all, all.val = 1, <<",">>) ++ ")"
Tuple(p, element) == TupleEnd(SepList(p ++ "(", element, ", "))

\* Values that would be read as a type stand in braces outside of a value.
ConstTagged(q, tag, string, b, in_value) ==
  CASE tag = "p" -> q ++ "_"
    [] tag \in Signed -> ConstUint(WriteIf(Eaten(q, "n"), Sees(q, "n"), <<"-">>), tag)
    [] tag \in Unsigned -> ConstUint(q, tag)
    [] tag = "b" -> ConstBool(ParseNibbles(q))
    [] tag = "c" -> ConstChar(ParseNibbles(q))
    [] tag = "e" -> StrLiteral(b ++ "*")
    [] string -> StrLiteral(Eaten(q, "e"))
    [] tag = "Q" \/ (tag = "R" /\ ~string) -> Const(WriteIf(b ++ "&", tag = "Q", <<"mut ">>), TRUE)
    [] tag = "A" -> SepList(b ++ "[", "const", ", ") ++ "]"
    [] tag = "T" -> Tuple(b, "const")
    [] tag = "V" -> Fields(b)
    [] tag = "B" -> Backref(q, "const", in_value)
    [] OTHER -> Invalid(q)
ConstIn(q, tag, string, in_value) ==
  LET braced == ~in_value /\ ~string /\ tag \in {"e", "R", "Q", "A", "T", "V"}
  IN WriteIf(ConstTagged(q, tag, string, WriteIf(q, braced, <<"{">>), in_value), braced, <<"}">>)
ConstOf(q, in_value) ==
  IF Live(q) THEN PopDepth(ConstIn(q, q.val, q.val = "R" /\ Sees(q, "e"), in_value)) ELSE q
ConstBody(p, in_value) == ConstOf(PushDepth(ParseLetter(p)), in_value)

\* The generics of a trait stay open for its associated types.
OpenGenericsBody(p) ==
  IF Sees(p, "B") THEN Backref([Eaten(p, "B") EXCEPT !.open = FALSE], "open", FALSE)
  ELSE IF Sees(p, "I")
       THEN [SepList(Path(Eaten(p, "I"), FALSE) ++ "<", "arg", ", ") EXCEPT !.open = TRUE]
       ELSE [Path(p, FALSE) EXCEPT !.open = FALSE]

DynTraitEnd(all) == WriteIf(all, all.open, <<">">>)
DynTrait(p) == DynTraitEnd(Emit(<<"bindings">>, FALSE, OpenGenerics(p)))
Binding(p) ==
  Type(Name(ParseName(Write(Eaten(p, "p"), IF p.open THEN <<", ">> ELSE <<"<">>))) ++ " = ")
Bindings(p) ==
  IF ~Sees(p, "p") THEN p ELSE Emit(<<"bindings">>, FALSE, [Binding(p) EXCEPT !.open = TRUE])

Dashes(text) == [i \in DOMAIN text |-> IF text[i] = "_" THEN "-" ELSE text[i]]

\* The ABI of a function type, none if empty.
AbiIdent(q) ==
  IF ~Live(q) THEN q
  ELSE IF q.val.ascii = <<>> \/ q.val.puny # <<>> THEN Invalid(q)
  ELSE [q EXCEPT !.val = Dashes(q.val.ascii)]
AbiNamed(q) ==
  IF Sees(q, "C") THEN [Eaten(q, "C") EXCEPT !.val = <<"C">>] ELSE AbiIdent(ParseName(q))
Abi(q) == IF Sees(q, "K") THEN AbiNamed(Eaten(q, "K")) ELSE [q EXCEPT !.val = <<>>]

FunctionHead(q, unsafe) ==
  Write(q, (IF unsafe THEN <<"unsafe ">> ELSE <<>>)
             \o (IF q.val = <<>> THEN <<>> ELSE <<"extern \"">> \o q.val \o <<"\" ">>))
FunctionEnd(q) == IF Sees(q, "u") THEN Eaten(q, "u") ELSE Type(q ++ " -> ")
FunctionType(p) ==
  Return(FunctionEnd(
    SepList(FunctionHead(Abi(Eaten(p, "U")), Sees(p, "U")) ++ "fn(", "type", ", ") ++ ")"))

WithLifetime(lt) == IF Live(lt) /\ lt.val # 0 THEN Lifetime(lt, lt.val) ++ " " ELSE lt
Reference(p, tag) ==
  Type(WriteIf(IF Sees(p, "L") THEN WithLifetime(ParseLifetime(p)) ELSE p, tag = "Q", <<"mut ">>))

PlusLifetime(lt) == IF Live(lt) /\ lt.val # 0 THEN Lifetime(lt ++ " + ", lt.val) ELSE lt
DynBound(q) == IF Sees(q, "L") THEN PlusLifetime(ParseLifetime(q)) ELSE Invalid(q)

ArrayType(element, tag) == (IF tag = "A" THEN Const(element ++ "; ", TRUE) ELSE element) ++ "]"

TypeTagged(q, tag) ==
  CASE tag \in {"R", "Q"} -> Reference(q ++ "&", tag)
    [] tag \in {"P", "O"} -> Type(Write(q, <<"*", IF tag = "P" THEN "const " ELSE "mut ">>))
    [] tag \in {"A", "S"} -> ArrayType(Type(q ++ "["), tag)
    [] tag = "T" -> Tuple(q, "type")
    [] tag = "F" -> InBinder(q, "function")
    [] tag = "D" -> DynBound(InBinder(q ++ "dyn ", "bounds"))
    [] tag = "B" -> Backref(q, "type", FALSE)
    [] OTHER -> Path([q EXCEPT !.next = @ - 1], FALSE)
TypeIn(q) == IF Live(q) THEN PopDepth(TypeTagged(q, q.val)) ELSE q
TypeOf(q) ==
  IF Live(q) /\ q.val \in DOMAIN BasicType THEN q ++ BasicType[q.val] ELSE TypeIn(PushDepth(q))
TypeBody(p) == TypeOf(ParseLetter(p))

\* PRINT_SEP_LIST_COUNT: up to an `E', or an error.
ListBody(p, element, sep, count) ==
  LET q == WriteIf(p, count > 0, <<sep>>)
      one == CASE element = "arg" -> GenericArg(q)
               [] element = "type" -> Type(q)
               [] element = "const" -> Const(q, TRUE)
               [] element = "field" -> Field(q)
               [] element = "bound" -> DynTrait(q)
  IN IF ~Live(p) \/ p.status # "ok" \/ Sees(p, "E") THEN [Eaten(p, "E") EXCEPT !.val = count]
     ELSE Emit(<<"list", element, sep>>, count + 1, Return(one))

Emit(what, v, p) ==
  IF ~Live(p) THEN p
  ELSE IF what[1] = "bindings" THEN Bindings(p)
  ELSE Return(CASE what[1] = "path" -> PathBody(p, v)
                [] what[1] = "type" -> TypeBody(p)
                [] what[1] = "const" -> ConstBody(p, v)
                [] what[1] = "open" -> OpenGenericsBody(p)
                [] what[1] = "function" -> FunctionType(p)
                [] what[1] = "bounds" -> SepList(p, "bound", " + ")
                [] what[1] = "list" -> ListBody(p, what[2], what[3], v))

-----------------------------------------------------------------------------
(* The demanglers.                                                         *)

Unknown == [style |-> "unknown", mangled |-> <<>>, names |-> <<>>, suffix |-> <<>>]

\* try_parse_path
TryParsed(s, next) == Path(Printer(s, next, TRUE, RoomLimit, FALSE), FALSE)

V0Result(inner, end) ==
  IF end.status # "ok" THEN Unknown
  ELSE [Unknown EXCEPT !.style = "v0", !.mangled = inner,
                       !.suffix = SubSeq(inner, end.next + 1, Len(inner))]
V0Crate(inner, path) ==
  IF path.status = "ok" /\ At(inner, path.next) \in UpperLetters
  THEN TryParsed(inner, path.next) ELSE path

\* rust_demangle_v0_demangle: a path and, perhaps, that of the crate that instantiated it.
V0(s) ==
  LET n == IF IsPrefix(<<"_", "R">>, s) THEN 2 ELSE IF IsPrefix(<<"R">>, s) THEN 1
           ELSE IF IsPrefix(<<"_", "_", "R">>, s) THEN 3 ELSE 0
      inner == SubSeq(s, n + 1, Len(s))
  IN IF n = 0 \/ At(inner, 0) \notin UpperLetters THEN Unknown
     ELSE V0Result(inner, V0Crate(inner, TryParsed(inner, 0)))

\* The elements of a legacy name up to its `E': each a length and as many letters.
RECURSIVE Elements(_, _)
Elements(s, i) ==
  LET digits == RunOf(s, i, DecimalLetters)
      from == i + Len(digits)
      end == from + Number(digits, Decimal)
      rest == Elements(s, end)
  IN IF At(s, i) = "E" THEN Good(<<>>, i + 1)
     ELSE IF digits = <<>> \/ end >= Len(s) THEN Bad
     ELSE IF rest = Bad THEN Bad ELSE Good(<<SubSeq(s, from + 1, end)>> \o rest.val, rest.next)

\* rust_demangle_legacy_demangle
Legacy(s) ==
  LET n == IF IsPrefix(<<"_", "Z", "N">>, s) THEN 3 ELSE IF IsPrefix(<<"Z", "N">>, s) THEN 2
           ELSE IF IsPrefix(<<"_", "_", "Z", "N">>, s) THEN 4 ELSE 0
      inner == SubSeq(s, n + 1, Len(s))
      all == Elements(inner, 0)
  IN IF n = 0 \/ all = Bad THEN Unknown
     ELSE [Unknown EXCEPT !.style = "legacy", !.names = all.val,
                          !.suffix = SubSeq(inner, all.next + 1, Len(inner))]

IsRustHash(name) ==
  /\ name # <<>> /\ name[1] = "h"
  /\ Range(Tail(name)) \subseteq HexLetters \cup {"A", "B", "C", "D", "E", "F"}

Escape(code) ==
  LET digits == Tail(code)
      n == Number(digits, Hex)
  IN IF code \in Range(Escapes) THEN Glyph(CHOOSE c \in DOMAIN Escapes : Escapes[c] = code)
     ELSE IF /\ Len(code) > 1 /\ code[1] = "u" /\ Range(digits) \subseteq HexLetters
             /\ IsUint(digits) /\ IsScalar(n) /\ n >= 32 /\ n \notin 127..159
     THEN Glyph(n) ELSE ""

\* The letters of an element; behind an escape that is not known, the rest as it is.
RECURSIVE Unescaped(_)
Unescaped(name) ==
  LET cut == SelectInSeq(Tail(name), LAMBDA letter : letter = "$")
      glyph == Escape(SubSeq(name, 2, cut))
  IN IF name = <<>> THEN <<>>
     ELSE IF IsPrefix(<<".", ".">>, name) THEN <<"::">> \o Unescaped(SubSeq(name, 3, Len(name)))
     ELSE IF name[1] # "$" THEN <<name[1]>> \o Unescaped(Tail(name))
     ELSE IF cut = 0 \/ glyph = "" THEN name
     ELSE <<glyph>> \o Unescaped(SubSeq(name, cut + 2, Len(name)))

\* rust_demangle_legacy_display_demangle
LegacyText(names, alternate) ==
  LET n == Len(names)
      shownNames == IF alternate /\ n > 0 /\ IsRustHash(names[n]) THEN Front(names) ELSE names
      Element(name) == Unescaped(IF IsPrefix(<<"_", "$">>, name) THEN Tail(name) ELSE name)
  IN FlattenSeq([i \in DOMAIN shownNames |->
                   (IF i > 1 THEN <<"::">> ELSE <<>>) \o Element(shownNames[i])])

Llvm == <<".", "l", "l", "v", "m", ".">>
WithoutLlvm(s) ==
  LET places == {i \in 1..(Len(s) - 5) : SubSeq(s, i, i + 5) = Llvm}
      i == CHOOSE i \in places : \A j \in places : i <= j
      Dropped == DecimalLetters \cup Range(SubSeq(Upper, 1, 6)) \cup {"@"}
  IN IF places # {} /\ Range(SubSeq(s, i + 6, Len(s))) \subseteq Dropped THEN SubSeq(s, 1, i - 1)
     ELSE s

\* rust_demangle_demangle: what follows the name is kept when it looks like a symbol.
Suffixed(d) ==
  IF d.suffix = <<>> \/ (d.suffix[1] = "." /\ " " \notin Range(d.suffix)) THEN d ELSE Unknown
LegacyOrV0(s, legacy) == IF legacy # Unknown THEN legacy ELSE V0(s)
RustDemangled(name) ==
  LET s == WithoutLlvm(name) IN Suffixed(LegacyOrV0(s, Legacy(s)))

\* rust_demangle_display_demangle, and the retries of demangleRust with twice the buffer.
Displayed(d, room, alternate) ==
  IF d.style = "v0" THEN Path(Printer(d.mangled, 0, FALSE, room, alternate), TRUE)
  ELSE Write(Printer(<<>>, 0, FALSE, room, alternate), LegacyText(d.names, alternate))

RECURSIVE Retried(_, _, _)
DisplayedOrRetried(d, room, full, p) ==
  IF p.over \/ p.room < Margin \/ p.room < Len(d.suffix) + Margin THEN Retried(d, 2 * room, full)
  ELSE p.out \o d.suffix
Retried(d, room, full) ==
  IF room >= RoomLimit THEN <<"NULL">>
  ELSE DisplayedOrRetried(d, room, full, Displayed(d, room, ~full))

\* Demangle::isRustSymbol: v0, or a hash before the last `E'.
IsRustSymbol(s) ==
  LET e == SelectLastInSeq(s, LAMBDA letter : letter = "E") IN
  \/ IsPrefix(<<"_", "R">>, s)
  \/ /\ e > 23 /\ SubSeq(s, e - 19, e - 17) = <<"1", "7", "h">>
     /\ Range(SubSeq(s, e - 16, e - 1)) \subseteq HexLetters

\* Demangle::demangle; what is not Rust goes to the demangler of C++.
DemangledBy(d, full) == IF d.style = "unknown" THEN <<"C++">> ELSE Retried(d, FirstRoom, full)
Demangled(s, full) == IF IsRustSymbol(s) THEN DemangledBy(RustDemangled(s), full) ELSE <<"C++">>

\* The name of a frame: the symbol itself where no demangler knows better.
OrSymbol(text, s) == IF text = <<"NULL">> THEN s ELSE text
FrameName(s, full) == OrSymbol(Demangled(s, full), s)

-----------------------------------------------------------------------------
Init == symbol = <<>> /\ wanted = Nothing /\ shown = Nothing

Made(s, text) ==
  /\ symbol' = s
  /\ wanted' = text
  /\ UNCHANGED shown

CompiledV0 ==
  /\ symbol = <<>>
  /\ \E path \in Paths, crate \in Crates, share \in BOOLEAN, ending \in Endings :
       Made(V0Symbol(path, crate, share) \o ending.letters,
            [full \in BOOLEAN |-> Text(path, TRUE, 0, full) \o ending.kept])

\* An ending with an `E' hides the hash: such a name is left to the demangler of C++.
CompiledLegacy ==
  /\ symbol = <<>>
  /\ \E path \in LegacyPaths, ending \in Endings :
       Made(LegacySymbol(path) \o ending.letters,
            [full \in BOOLEAN |-> IF "E" \in Range(ending.letters) THEN <<"C++">>
                                  ELSE LegacyWanted(path, full) \o ending.kept])

\* A symbol that was cut, or has another letter somewhere.
Damaged ==
  /\ symbol = <<>>
  /\ \E path \in DamagedPaths, share \in BOOLEAN :
       LET s == V0Symbol(path, <<>>, share)
       IN \E i \in 3..Len(s), letter \in Letters \cup {""} :
            Made(IF letter = "" THEN SubSeq(s, 1, i - 1) ELSE [s EXCEPT ![i] = letter], Nothing)

\* The recorder asks for the short form, the interface has both.
Show ==
  /\ symbol # <<>> /\ shown = Nothing
  /\ shown' = [full \in BOOLEAN |-> FrameName(symbol, full)]
  /\ UNCHANGED <<symbol, wanted>>

Next == CompiledV0 \/ CompiledLegacy \/ Damaged \/ Show

Spec == Init /\ [][Next]_vars

-----------------------------------------------------------------------------
Rooms == {n \in {FirstRoom * 2^k : k \in 0..10} : n < RoomLimit}
Fits(text) == \E room \in Rooms : Len(text) + Margin <= room

\* The name of a frame is what the compiler was given, with or without references back,
\* unless it is too long for the largest buffer, and then it is the symbol.
NamesAreTheirPaths ==
  shown # Nothing /\ wanted # Nothing =>
    \A full \in BOOLEAN : shown[full] = IF Fits(wanted[full]) THEN wanted[full] ELSE symbol

\* A name is looked through before it is printed, without output, without following
\* references back and without lifetimes: what is printed without an error ends where it
\* ended then, and leaves nothing open.
PassesAgree(pass) ==
  pass[FALSE].status = "ok" /\ ~pass[FALSE].over =>
    /\ pass[TRUE].status = "ok" /\ pass[TRUE].next = pass[FALSE].next
    /\ pass[FALSE].depth = 0 /\ pass[FALSE].bound = 0 /\ ~pass[FALSE].skip
BothPasses(inner) ==
  PassesAgree([skip \in BOOLEAN |-> Path(Printer(inner, 0, skip, RoomLimit, TRUE), ~skip)])
SkippingAndPrintingAgree ==
  shown # Nothing /\ IsPrefix(<<"_", "R">>, symbol) => BothPasses(SubSeq(symbol, 3, Len(symbol)))
=============================================================================
