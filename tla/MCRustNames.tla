------------------------------ MODULE MCRustNames ------------------------------
\* Trees that a Rust compiler mangles: each kind of path, type and constant, and what the
\* schemes treat alike.
EXTENDS Integers, Sequences

Crate(name, dis) == [class |-> "path", kind |-> "crate", name |-> name, dis |-> dis]
In(path, ns, name, dis) ==
  [class |-> "path", kind |-> "nested", path |-> path, ns |-> ns, name |-> name, dis |-> dis]
ImplOf(path, type, trait) ==
  [class |-> "path", kind |-> "impl", path |-> path, type |-> type, trait |-> trait, dis |-> 1]
TraitOf(type, trait) == [class |-> "path", kind |-> "trait", type |-> type, trait |-> <<trait>>]
Generic(path, args) == [class |-> "path", kind |-> "generic", path |-> path, args |-> args]
Life(level) == [class |-> "lifetime", kind |-> "lifetime", level |-> level]
Basic(tag) == [class |-> "type", kind |-> "basic", tag |-> tag]
Ref(tag, level, type) ==
  [class |-> "type", kind |-> "ref", tag |-> tag, level |-> level, type |-> type]
Ptr(tag, type) == [class |-> "type", kind |-> "ptr", tag |-> tag, type |-> type]
Slice(type) == [class |-> "type", kind |-> "slice", tag |-> "S", type |-> type]
Array(type, value) == [class |-> "type", kind |-> "array", type |-> type, value |-> value]
TupleOf(args) == [class |-> "type", kind |-> "tuple", args |-> args]
Fn(binder, unsafe, abi, args, type) ==
  [class |-> "type", kind |-> "fn", binder |-> binder, unsafe |-> unsafe, abi |-> abi,
   args |-> args, type |-> type]
Dyn(binder, bounds, level) ==
  [class |-> "type", kind |-> "dyn", binder |-> binder, bounds |-> bounds, level |-> level]
Of(path, bindings) == [path |-> path, bindings |-> bindings]
Placeholder == [class |-> "const", kind |-> "placeholder"]
Integer(tag, negative, n) ==
  [class |-> "const", kind |-> "int", tag |-> tag, negative |-> negative, code |-> n]
Bool(n) == [class |-> "const", kind |-> "bool", tag |-> "b", code |-> n]
Char(n, text) == [class |-> "const", kind |-> "char", tag |-> "c", code |-> n, text |-> text]
Str(tag, bytes, text) ==
  [class |-> "const", kind |-> "str", tag |-> tag, bytes |-> bytes, text |-> text]
To(tag, value) == [class |-> "const", kind |-> "constref", tag |-> tag, value |-> value]
ListOf(args) == [class |-> "const", kind |-> "values", tag |-> "A", args |-> args]
Constants(args) == [class |-> "const", kind |-> "constants", tag |-> "T", args |-> args]
Variant(path) == [class |-> "const", kind |-> "variant", path |-> path]
Call(path, args) == [class |-> "const", kind |-> "call", path |-> path, args |-> args]
Struct(path, fields) == [class |-> "const", kind |-> "struct", path |-> path, fields |-> fields]
Named(name, value) == [name |-> name, value |-> value]
Assigned(name, type) == [name |-> name, type |-> type]

crate == Crate(<<99>>, 0)
foreign == Crate(<<107>>, 65)
function == In(crate, "v", <<102>>, 0)
struct == In(crate, "t", <<83>>, 2)
trait == In(foreign, "t", <<84>>, 0)
i32 == Basic("l")
unit == Basic("u")

\* Functions: a closure, names that are not ASCII, one that begins like a number, impls.
FunctionPaths ==
  {function, In(function, "C", <<>>, 2), In(crate, "v", <<246, 95, 97, 8364>>, 0),
   In(crate, "v", <<246, 228>>, 0), In(crate, "S", <<95, 49>>, 0),
   In(ImplOf(crate, struct, <<>>), "v", <<109>>, 0),
   In(ImplOf(In(crate, "t", <<109>>, 0), Generic(struct, <<i32>>),
             <<Generic(trait, <<struct, i32>>)>>), "v", <<109>>, 0),
   In(TraitOf(Ref("R", -1, struct), trait), "v", <<109>>, 0)}

\* Generic arguments: types within types, ...
ArgTypes ==
  {<<struct, struct, Life(-1), Placeholder>>,
   <<Generic(struct, <<i32>>), Generic(struct, <<i32, struct>>), Generic(struct, <<i32>>)>>,
   <<Ref("R", -1, Basic("e")), Ref("Q", -1, Slice(struct)), Ptr("P", struct), Ptr("O", i32)>>,
   <<Array(struct, Integer("j", FALSE, 3)), Array(struct, Integer("j", FALSE, 3)),
     TupleOf(<<>>), TupleOf(<<struct>>), TupleOf(<<struct, i32>>)>>}

\* ... types that bind lifetimes, ...
ArgBinders ==
  {<<Fn(1, FALSE, <<>>, <<Ref("R", 0, i32)>>, Ref("R", 0, i32))>>,
   <<Fn(0, TRUE, <<67>>, <<struct>>, unit), Fn(0, FALSE, <<115, 45, 97>>, <<>>, struct)>>,
   <<Fn(3, FALSE, <<>>, <<Fn(1, FALSE, <<>>, <<Ref("R", 0, i32), Ref("Q", 3, i32)>>, unit),
                          Ref("R", 2, i32)>>, unit)>>,
   <<Dyn(0, <<Of(trait, <<>>)>>, -1)>>,
   <<Generic(trait, <<struct>>),
     Dyn(0, <<Of(Generic(trait, <<struct>>), <<Assigned(<<65>>, struct)>>),
              Of(crate, <<Assigned(<<66>>, i32), Assigned(<<67>>, struct)>>)>>, -1)>>}
BoundTraits ==
  {<<Dyn(1, <<Of(Generic(trait, <<Life(0)>>), <<>>)>>, -1),
     Fn(1, FALSE, <<>>, <<Dyn(1, <<Of(Generic(trait, <<Life(0), Life(1)>>), <<>>)>>, 0)>>, unit)>>}

\* ... and constants.
ArgValues ==
  {<<Integer("l", TRUE, 255), Integer("h", FALSE, 0), Integer("o", FALSE, 1048576),
     Bool(0), Bool(1)>>,
   <<Char(97, <<"a">>), Char(39, <<"\\'">>), Char(34, <<"\"">>), Char(10, <<"\\n">>),
     Char(8364, <<"\\u{20ac}">>)>>,
   <<Str("R", <<34, 97, 195, 169>>, <<"\\\"", "a", "\\u{e9}">>), Str("e", <<>>, <<>>)>>,
   <<To("R", Integer("l", FALSE, 1)), To("Q", Str("e", <<226, 130, 172>>, <<"\\u{20ac}">>)),
     ListOf(<<Bool(0), Bool(0)>>)>>,
   <<Constants(<<Bool(0)>>), Constants(<<>>), Variant(Generic(struct, <<i32>>)),
     Call(struct, <<Bool(1), ListOf(<<>>)>>)>>,
   <<Struct(struct, <<Named(<<97>>, Bool(1)), Named(<<49>>, Integer("s", TRUE, 2))>>)>>}

RustDamagedPaths ==
  FunctionPaths \cup {Generic(function, args) : args \in ArgTypes \cup ArgBinders \cup ArgValues}
\* Damage makes trait objects within binders recurse deeper than TLC's stack.
RustPaths == RustDamagedPaths \cup {Generic(function, args) : args \in BoundTraits}
RustCrates == {<<>>, <<foreign>>}
End(letters, kept) == [letters |-> letters, kept |-> kept]
RustEndings ==
  {End(<<>>, <<>>), End(<<".", "l", "l", "v", "m", ".", "9", "E", "@">>, <<>>),
   End(<<".", "l", "l", "v", "m", ".", "9">>, <<>>), End(<<".", "c">>, <<".", "c">>)}
\* Elements with escapes, with the two colons (0), and one that looks like a hash.
RustLegacyPaths ==
  {<<<<99>>, <<102>>>>,
   <<<<60, 99, 0, 83, 32, 97, 115, 32, 84, 62>>, <<102>>>>,
   <<<<99>>, <<123, 123, 233, 125, 125>>, <<40, 42, 64, 38, 44, 41>>>>,
   <<<<104, 97>>>>}
RustHash == <<"0", "1", "2", "3", "4", "5", "6", "7", "8", "9", "a", "b", "c", "d", "e", "f">>
=============================================================================
