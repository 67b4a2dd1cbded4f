------------------------------ MODULE RustMangle ------------------------------
(***************************************************************************)
(* What rustDemangle.cpp is given and what it should say: the letters of   *)
(* symbols, a compiler that mangles trees in the v0 and the legacy scheme, *)
(* and the texts of the trees as Rust is written.  A symbol is a sequence  *)
(* of letters, a text one of pieces, each of which takes one unit of a     *)
(* buffer.                                                                 *)
(***************************************************************************)
EXTENDS Integers, Sequences, SequencesExt, TLC

CONSTANTS
  MaxInt,         \* UINT64_MAX
  MaxNibbles,     \* the hex digits of a uint64_t
  LifetimeNames,  \* the letters that name lifetimes
  Hash            \* the hash of legacy names

Lower == <<"a", "b", "c", "d", "e", "f", "g", "h", "i", "j", "k", "l", "m", "n", "o", "p", "q",
           "r", "s", "t", "u", "v", "w", "x", "y", "z">>
Upper == <<"A", "B", "C", "D", "E", "F", "G", "H", "I", "J", "K", "L", "M", "N", "O", "P", "Q",
           "R", "S", "T", "U", "V", "W", "X", "Y", "Z">>
Decimal == <<"0", "1", "2", "3", "4", "5", "6", "7", "8", "9">>
Hex == Decimal \o SubSeq(Lower, 1, 6)
Base62 == Decimal \o Lower \o Upper
Base36 == Lower \o Decimal
LowerLetters == Range(Lower)
UpperLetters == Range(Upper)
DecimalLetters == Range(Decimal)
HexLetters == Range(Hex)
Base62Letters == Range(Base62)
Base36Letters == Range(Base36)

Digit(letter, alphabet) == (CHOOSE i \in DOMAIN alphabet : alphabet[i] = letter) - 1

\* The number of digits, up to MaxInt.
Number(digits, alphabet) ==
  FoldLeft(LAMBDA x, d : LET n == x * Len(alphabet) + Digit(d, alphabet)
                         IN IF n < MaxInt THEN n ELSE MaxInt, 0, digits)
RECURSIVE Digits(_, _)
Digits(n, alphabet) ==
  (IF n < Len(alphabet) THEN <<>> ELSE Digits(n \div Len(alphabet), alphabet))
    \o <<alphabet[(n % Len(alphabet)) + 1]>>
Concatenated(text) == FoldLeft(LAMBDA a, b : a \o b, "", text)

\* The letter of a code point; what is not ASCII is named by its number.
Glyph(n) == CASE n \in 97..122 -> Lower[n - 96] [] n \in 65..90 -> Upper[n - 64]
              [] n \in 48..57 -> Decimal[n - 47] [] n = 95 -> "_" [] n = 34 -> "\"" [] n = 39 -> "'"
              [] OTHER -> "U+" \o ToString(n)
CodeOf(letter) == CHOOSE n \in 48..122 : Glyph(n) = letter

\* The escapes of punctuation, by code point.
Escapes == (64 :> <<"S", "P">>) @@ (42 :> <<"B", "P">>) @@ (38 :> <<"R", "F">>)
             @@ (60 :> <<"L", "T">>) @@ (62 :> <<"G", "T">>) @@ (40 :> <<"L", "P">>)
             @@ (41 :> <<"R", "P">>) @@ (44 :> <<"C">>)

BasicType ==
  [b |-> "bool", c |-> "char", e |-> "str", u |-> "()", a |-> "i8", s |-> "i16", l |-> "i32",
   x |-> "i64", n |-> "i128", i |-> "isize", h |-> "u8", t |-> "u16", m |-> "u32", y |-> "u64",
   o |-> "u128", j |-> "usize", f |-> "f32", d |-> "f64", z |-> "!", p |-> "_", v |-> "..."]

RECURSIVE Halve(_, _)
Halve(delta, k) ==
  IF delta > 455 THEN Halve(delta \div 35, k + 36) ELSE k + (36 * delta) \div (delta + 38)
Adapted(delta, len, damp) == Halve(delta \div damp + (delta \div damp) \div len, 0)

-----------------------------------------------------------------------------
(* The compiler.  A tree is made of nodes of a class (path, type, const or *)
(* lifetime) and a kind; names are sequences of code points.  What is      *)
(* mangled has the letters so far, the places of the nodes in them and the *)
(* number of lifetimes that are bound.                                     *)

Int62(n) == (IF n = 0 THEN <<>> ELSE Digits(n - 1, Base62)) \o <<"_">>
Tagged(tag, n) == IF n = 0 THEN <<>> ELSE <<tag>> \o Int62(n - 1)

\* The numbers of RFC 3492 for the characters of a name that are not ASCII, in order.
RECURSIVE PunycodeNumber(_, _, _)
PunycodeNumber(delta, k, bias) ==
  LET t == IF k - bias < 1 THEN 1 ELSE IF k - bias > 26 THEN 26 ELSE k - bias IN
  IF delta < t THEN <<Base36[delta + 1]>>
  ELSE <<Base36[t + ((delta - t) % (36 - t)) + 1]>>
         \o PunycodeNumber((delta - t) \div (36 - t), k + 36, bias)

RECURSIVE PunycodeEncode(_, _, _, _, _, _)
PunycodeEncode(name, order, len, i, n, bias) ==
  LET c == name[order[1]]
      place == Cardinality({j \in 1..(order[1] - 1) : name[j] <= c})
      delta == (c - n) * len + place - i
      damp == IF n = 128 /\ i = 0 THEN 700 ELSE 2
  IN IF order = <<>> THEN <<>>
     ELSE PunycodeNumber(delta, 36, bias)
            \o PunycodeEncode(name, Tail(order), len + 1, place + 1, c, Adapted(delta, len, damp))

\* A length and the letters, with a `_' between them where they would run together.
Spelt(wide, letters) ==
  (IF wide THEN <<"u">> ELSE <<>>) \o Digits(Len(letters), Decimal)
    \o (IF letters # <<>> /\ letters[1] \in DecimalLetters \cup {"_"} THEN <<"_">> ELSE <<>>)
    \o letters
InOrder(name) ==
  SetToSortSeq({i \in DOMAIN name : name[i] > 127},
               LAMBDA i, j : name[i] < name[j] \/ (name[i] = name[j] /\ i < j))
WideName(name, ascii) ==
  (IF ascii = <<>> THEN <<>> ELSE Append(ascii, "_"))
    \o PunycodeEncode(name, InOrder(name), Len(ascii) + 1, 0, 128, 72)
NameLetters(name, ascii) ==
  IF Len(ascii) = Len(name) THEN Spelt(FALSE, ascii) ELSE Spelt(TRUE, WideName(name, ascii))
Identifier(name) ==
  LET ascii == SelectSeq(name, LAMBDA c : c < 128)
  IN NameLetters(name, [i \in DOMAIN ascii |-> Glyph(ascii[i])])

Put(e, word) == [e EXCEPT !.out = @ \o word]

RECURSIVE Mangle(_, _)
MangleAll(e, nodes) == FoldLeft(LAMBDA x, node : Mangle(x, node), e, nodes)
MangleList(e, nodes) == Put(MangleAll(e, nodes), <<"E">>)
MangleArg(e, node) == Mangle(IF node.class = "const" THEN Put(e, <<"K">>) ELSE e, node)

\* A binder of n lifetimes around what M mangles.
Bound(e, n, M(_)) == [M(Put([e EXCEPT !.bound = @ + n], Tagged("G", n))) EXCEPT !.bound = @ - n]

PathLetters(e, node) ==
  CASE node.kind = "crate" -> Put(e, <<"C">> \o Tagged("s", node.dis) \o Identifier(node.name))
    [] node.kind = "nested" ->
         Put(Mangle(Put(e, <<"N", node.ns>>), node.path),
             Tagged("s", node.dis) \o Identifier(node.name))
    [] node.kind = "impl" ->
         MangleAll(Put(e, <<IF node.trait = <<>> THEN "M" ELSE "X">> \o Tagged("s", node.dis)),
                   <<node.path, node.type>> \o node.trait)
    [] node.kind = "trait" -> MangleAll(Put(e, <<"Y">>), <<node.type>> \o node.trait)
    [] node.kind = "generic" ->
         Put(FoldLeft(MangleArg, Mangle(Put(e, <<"I">>), node.path), node.args), <<"E">>)

FunctionLetters(e, node) ==
  LET abi == CASE node.abi = <<>> -> <<>> [] node.abi = <<67>> -> <<"K", "C">>
               [] OTHER -> <<"K">> \o Identifier([i \in DOMAIN node.abi |->
                                                  IF node.abi[i] = 45 THEN 95 ELSE node.abi[i]])
      arguments == Put(e, (IF node.unsafe THEN <<"U">> ELSE <<>>) \o abi)
  IN Mangle(MangleList(arguments, node.args), node.type)

BindingLetters(e, b) == Mangle(Put(e, <<"p">> \o Identifier(b.name)), b.type)
DynLetters(e, node) ==
  Put(FoldLeft(LAMBDA x, t : FoldLeft(BindingLetters, Mangle(x, t.path), t.bindings),
               e, node.bounds), <<"E">>)

LifetimeLetters(e, level) == <<"L">> \o Int62(IF level < 0 THEN 0 ELSE e.bound - level)

TypeLetters(e, node) ==
  CASE node.kind = "basic" -> Put(e, <<node.tag>>)
    [] node.kind = "ref" ->
         Mangle(Put(e, <<node.tag>> \o (IF node.level < 0 THEN <<>>
                                        ELSE LifetimeLetters(e, node.level))), node.type)
    [] node.kind \in {"ptr", "slice"} -> Mangle(Put(e, <<node.tag>>), node.type)
    [] node.kind = "array" -> MangleAll(Put(e, <<"A">>), <<node.type, node.value>>)
    [] node.kind = "tuple" -> MangleList(Put(e, <<"T">>), node.args)
    [] node.kind = "fn" -> Bound(Put(e, <<"F">>), node.binder, LAMBDA x : FunctionLetters(x, node))
    [] node.kind = "dyn" ->
         LET all == Bound(Put(e, <<"D">>), node.binder, LAMBDA x : DynLetters(x, node))
         IN Put(all, LifetimeLetters(all, node.level))

Bytes(bytes) ==
  FlattenSeq([i \in DOMAIN bytes |-> <<Hex[bytes[i] \div 16 + 1], Hex[(bytes[i] % 16) + 1]>>])

ConstLetters(e, node) ==
  CASE node.kind = "placeholder" -> Put(e, <<"p">>)
    [] node.kind = "int" -> Put(e, <<node.tag>> \o (IF node.negative THEN <<"n">> ELSE <<>>)
                                                \o Digits(node.code, Hex) \o <<"_">>)
    [] node.kind \in {"bool", "char"} -> Put(e, <<node.tag>> \o Digits(node.code, Hex) \o <<"_">>)
    [] node.kind = "str" ->
         Put(e, (IF node.tag = "R" THEN <<"R", "e">> ELSE <<"e">>) \o Bytes(node.bytes) \o <<"_">>)
    [] node.kind = "constref" -> Mangle(Put(e, <<node.tag>>), node.value)
    [] node.kind \in {"values", "constants"} -> MangleList(Put(e, <<node.tag>>), node.args)
    [] node.kind = "variant" -> Put(Mangle(Put(e, <<"V">>), node.path), <<"U">>)
    [] node.kind = "call" -> MangleList(Put(Mangle(Put(e, <<"V">>), node.path), <<"T">>), node.args)
    [] node.kind = "struct" ->
         Put(FoldLeft(LAMBDA x, f : Mangle(Put(x, Identifier(f.name)), f.value),
                      Put(Mangle(Put(e, <<"V">>), node.path), <<"S">>), node.fields), <<"E">>)

\* What has been written before is referred to, except where it would have other lifetimes.
Mangle(e, node) ==
  LET known == {p \in e.seen : p[1] = node}
      here == IF e.bound > 0 \/ node.kind = "basic" THEN e
              ELSE [e EXCEPT !.seen = @ \cup {<<node, Len(e.out)>>}]
  IN IF e.share /\ e.bound = 0 /\ known # {}
     THEN Put(e, <<"B">> \o Int62((CHOOSE p \in known : TRUE)[2]))
     ELSE CASE node.class = "path" -> PathLetters(here, node)
            [] node.class = "type" -> TypeLetters(here, node)
            [] node.class = "const" -> ConstLetters(here, node)
            [] node.class = "lifetime" -> Put(e, LifetimeLetters(e, node.level))

V0Symbol(path, crate, share) ==
  <<"_", "R">> \o MangleAll([out |-> <<>>, seen |-> {}, share |-> share, bound |-> 0],
                            <<path>> \o crate).out

-----------------------------------------------------------------------------
\* What the trees say, written as Rust is.

Glyphs(name) == [i \in DOMAIN name |-> Glyph(name[i])]
Joined(texts, sep) ==
  FlattenSeq([i \in DOMAIN texts |-> IF i = 1 THEN texts[i] ELSE <<sep>> \o texts[i]])
LevelText(level) ==
  <<"'">> \o IF level < 0 THEN <<"_">> ELSE IF level < LifetimeNames THEN <<Lower[level + 1]>>
             ELSE <<"_", ToString(level)>>
ForText(b, n) ==
  IF n = 0 THEN <<>>
  ELSE <<"for<">> \o Joined([i \in 1..n |-> LevelText(b + i - 1)], ", ") \o <<"> ">>

RECURSIVE Text(_, _, _, _)
Texts(nodes, v, b, full) == [i \in DOMAIN nodes |-> Text(nodes[i], v, b, full)]

PathText(node, v, b, full) ==
  CASE node.kind = "crate" ->
         Glyphs(node.name)
           \o IF full /\ node.dis # 0 THEN <<"[">> \o Digits(node.dis, Hex) \o <<"]">> ELSE <<>>
    [] node.kind = "nested" ->
         Text(node.path, v, b, full)
           \o IF node.ns \in LowerLetters THEN <<"::">> \o Glyphs(node.name)
              ELSE <<"::{", CASE node.ns = "C" -> "closure" [] node.ns = "S" -> "shim"
                              [] node.ns \notin {"C", "S"} -> node.ns>>
                     \o (IF node.name = <<>> THEN <<>> ELSE <<":">> \o Glyphs(node.name))
                     \o <<"#", ToString(node.dis), "}">>
    [] node.kind \in {"impl", "trait"} ->
         <<"<">> \o Joined(Texts(<<node.type>> \o node.trait, FALSE, b, full), " as ") \o <<">">>
    [] node.kind = "generic" ->
         Text(node.path, v, b, full) \o (IF v THEN <<"::">> ELSE <<>>)
           \o <<"<">> \o Joined(Texts(node.args, FALSE, b, full), ", ") \o <<">">>

\* A bound of a trait object: its generics and its associated types in one list.
BoundText(t, b, full) ==
  LET generic == t.path.kind = "generic"
      arguments == IF generic THEN Texts(t.path.args, FALSE, b, full) ELSE <<>>
      types == [i \in DOMAIN t.bindings |->
                  Glyphs(t.bindings[i].name) \o <<" = ">>
                    \o Text(t.bindings[i].type, FALSE, b, full)]
  IN Text(IF generic THEN t.path.path ELSE t.path, FALSE, b, full)
       \o IF arguments \o types = <<>> THEN <<>>
          ELSE <<"<">> \o Joined(arguments \o types, ", ") \o <<">">>

TupleText(texts) ==
  <<"(">> \o Joined(texts, ", ") \o (IF Len(texts) = 1 THEN <<",">> ELSE <<>>) \o <<")">>

FunctionText(node, b, full) ==
  (IF node.unsafe THEN <<"unsafe ">> ELSE <<>>)
    \o (IF node.abi = <<>> THEN <<>>
        ELSE <<"extern \"">> \o [i \in DOMAIN node.abi |->
                                   IF node.abi[i] = 45 THEN "-" ELSE Glyph(node.abi[i])]
                             \o <<"\" ">>)
    \o <<"fn(">> \o Joined(Texts(node.args, FALSE, b, full), ", ") \o <<")">>
    \o IF node.type.kind = "basic" /\ node.type.tag = "u" THEN <<>>
       ELSE <<" -> ">> \o Text(node.type, FALSE, b, full)

TypeText(node, b, full) ==
  CASE node.kind = "basic" -> <<BasicType[node.tag]>>
    [] node.kind = "ref" ->
         <<"&">> \o (IF node.level < 0 THEN <<>> ELSE Append(LevelText(node.level), " "))
           \o (IF node.tag = "Q" THEN <<"mut ">> ELSE <<>>) \o Text(node.type, FALSE, b, full)
    [] node.kind = "ptr" ->
         <<"*", IF node.tag = "O" THEN "mut " ELSE "const ">> \o Text(node.type, FALSE, b, full)
    [] node.kind = "slice" -> <<"[">> \o Text(node.type, FALSE, b, full) \o <<"]">>
    [] node.kind = "array" ->
         <<"[">> \o Text(node.type, FALSE, b, full) \o <<"; ">>
                \o Text(node.value, TRUE, b, full) \o <<"]">>
    [] node.kind = "tuple" -> TupleText(Texts(node.args, FALSE, b, full))
    [] node.kind = "fn" -> ForText(b, node.binder) \o FunctionText(node, b + node.binder, full)
    [] node.kind = "dyn" ->
         <<"dyn ">> \o ForText(b, node.binder)
           \o Joined([i \in DOMAIN node.bounds |->
                        BoundText(node.bounds[i], b + node.binder, full)], " + ")
           \o IF node.level < 0 THEN <<>> ELSE <<" + ">> \o LevelText(node.level)

Braced(text, v) == IF v THEN text ELSE <<"{">> \o text \o <<"}">>

ConstText(node, v, b, full) ==
  CASE node.kind = "placeholder" -> <<"_">>
    [] node.kind = "int" ->
         (IF node.negative THEN <<"-">> ELSE <<>>)
           \o (IF Len(Digits(node.code, Hex)) <= MaxNibbles THEN <<ToString(node.code)>>
               ELSE <<"0x">> \o Digits(node.code, Hex))
           \o IF full THEN <<BasicType[node.tag]>> ELSE <<>>
    [] node.kind = "bool" -> <<IF node.code = 1 THEN "true" ELSE "false">>
    [] node.kind = "char" -> <<"'">> \o node.text \o <<"'">>
    [] node.kind = "str" ->
         LET literal == <<"\"">> \o node.text \o <<"\"">>
         IN IF node.tag = "R" THEN literal ELSE Braced(<<"*">> \o literal, v)
    [] node.kind = "constref" ->
         Braced((IF node.tag = "Q" THEN <<"&", "mut ">> ELSE <<"&">>)
                  \o Text(node.value, TRUE, b, full), v)
    [] node.kind = "values" ->
         Braced(<<"[">> \o Joined(Texts(node.args, TRUE, b, full), ", ") \o <<"]">>, v)
    [] node.kind = "constants" -> Braced(TupleText(Texts(node.args, TRUE, b, full)), v)
    [] node.kind = "variant" -> Braced(Text(node.path, TRUE, b, full), v)
    [] node.kind = "call" ->
         Braced(Text(node.path, TRUE, b, full)
                  \o <<"(">> \o Joined(Texts(node.args, TRUE, b, full), ", ") \o <<")">>, v)
    [] node.kind = "struct" ->
         Braced(Text(node.path, TRUE, b, full) \o <<" { ">>
                  \o Joined([i \in DOMAIN node.fields |->
                               Glyphs(node.fields[i].name) \o <<": ">>
                                 \o Text(node.fields[i].value, TRUE, b, full)],
                            ", ") \o <<" }">>, v)

Text(node, v, b, full) ==
  CASE node.class = "path" -> PathText(node, v, b, full)
    [] node.class = "type" -> TypeText(node, b, full)
    [] node.class = "const" -> ConstText(node, v, b, full)
    [] node.class = "lifetime" -> LevelText(node.level)

-----------------------------------------------------------------------------
\* The legacy scheme: the elements of a path and a hash.  An element is made of code points,
\* and of Colons.

Colons == 0
LegacyLetters(c) ==
  IF c = Colons THEN <<".", ".">>
  ELSE IF c \in DOMAIN Escapes THEN <<"$">> \o Escapes[c] \o <<"$">>
  ELSE IF c \in (48..57) \cup (65..90) \cup (97..122) \cup {95} THEN <<Glyph(c)>>
  ELSE <<"$", "u">> \o Digits(c, Hex) \o <<"$">>

LegacyElement(name) ==
  LET letters == FlattenSeq([i \in DOMAIN name |-> LegacyLetters(name[i])])
      whole == IF letters[1] = "$" THEN <<"_">> \o letters ELSE letters
  IN Digits(Len(whole), Decimal) \o whole

LegacySymbol(path) ==
  <<"_", "Z", "N">> \o FlattenSeq([i \in DOMAIN path |-> LegacyElement(path[i])])
    \o <<"1", "7", "h">> \o Hash \o <<"E">>

LegacyWanted(path, full) ==
  Joined([i \in DOMAIN path |-> [j \in DOMAIN path[i] |->
            IF path[i][j] = Colons THEN "::" ELSE Glyph(path[i][j])]]
         \o (IF full THEN <<<<"h">> \o Hash>> ELSE <<>>), "::")

=============================================================================
