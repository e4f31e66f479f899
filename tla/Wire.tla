-------------------------------- MODULE Wire --------------------------------
(***************************************************************************)
(* The binary format the host and an extension exchange values in          *)
(* (postcard.rs), scaled down: a byte carries DataBits bits of a number    *)
(* and one bit that says more follow, an i32 has IntBits bits and an i64   *)
(* WordBits.  A value is read or written along a shape, a tuple whose      *)
(* first element names the reader and whose others are its arguments; an   *)
(* option is a sequence of at most one value, a string the sequence of its *)
(* bytes, a float the sequence of its bytes.                               *)
(***************************************************************************)
EXTENDS Integers, Sequences, SequencesExt, TLC

CONSTANTS
  DataBits,   \* 7 in the code: the bits of a number in one byte
  IntBits,    \* 32 in the code
  WordBits    \* 64 in the code: the width of u64 and of a length

ASSUME WidthsAssumption ==
  /\ {DataBits, IntBits, WordBits} \subseteq Nat \ {0}
  /\ DataBits < IntBits
  /\ IntBits < WordBits

More == 2^DataBits
Byte == 0..(2 * More - 1)
Word == 2^WordBits
Int32 == -(2^(IntBits - 1))..(2^(IntBits - 1) - 1)
Int64 == -(2^(WordBits - 1))..(2^(WordBits - 1) - 1)

\* A float is kept as its bytes, four in the code.
F32Bytes == 1

\* In the scaled alphabet the bytes with the high bit belong to no text.
IsUtf8(bytes) == \A i \in DOMAIN bytes : bytes[i] < More

(* A reader gives one result, as a set: a value and the place after it, an *)
(* error, or the panic of an addition that overflows (in a build that does *)
(* not check it, of the slice the wrapped sum lets through).               *)
Ok(value, at) == {[is |-> "ok", value |-> value, at |-> at]}
Bad == {[is |-> "error"]}
Panicked == {[is |-> "panic"]}

Then(result, F(_, _)) ==
  UNION {IF r.is = "ok" THEN F(r.value, r.at) ELSE {r} : r \in result}

(* Readers ---------------------------------------------------------------- *)

\* n bytes from place at on.
Need(data, at, n, result) ==
  IF at - 1 + n >= Word THEN Panicked
  ELSE IF at - 1 + n > Len(data) THEN Bad
  ELSE result

\* At the end of the data the place holds no byte: only Need looks there.
ByteAt(data, at) == IF at <= Len(data) THEN data[at] ELSE 0

ReadU8(data, at) == Need(data, at, 1, Ok(ByteAt(data, at), at + 1))
ReadBool(data, at) == Need(data, at, 1, Ok(ByteAt(data, at) # 0, at + 1))

\* Each byte adds its low bits; the ones beyond the word are lost.
RECURSIVE ReadVar(_, _, _, _)
ReadVar(data, at, shift, sum) ==
  LET byte == ByteAt(data, at)
      total == (sum + (byte % More) * 2^shift) % Word
  IN  Need(data, at, 1,
        IF byte < More THEN Ok(total, at + 1)
        ELSE IF shift + DataBits >= WordBits THEN Bad
        ELSE ReadVar(data, at + 1, shift + DataBits, total))

ReadU64(data, at) == ReadVar(data, at, 0, 0)

\* Mutant: the one that makes room for zero is forgotten.
ZigzagDecodeTwoZeros(n) == IF n % 2 = 0 THEN n \div 2 ELSE -(n \div 2)

\* 0, 1, 2, 3, ... stand for 0, -1, 1, -2, ...
ZigzagDecode(n) == IF n % 2 = 0 THEN n \div 2 ELSE -(n \div 2) - 1

ZigzagEncode(n) == IF n >= 0 THEN 2 * n ELSE -2 * n - 1

ReadI32(data, at) ==
  LET Narrow(n, end) == Ok(ZigzagDecode(n % 2^IntBits), end)
  IN  Then(ReadU64(data, at), Narrow)

ReadI64(data, at) ==
  LET Signed(n, end) == Ok(ZigzagDecode(n), end)
  IN  Then(ReadU64(data, at), Signed)

ReadFloat(data, at, n) == Need(data, at, n, Ok(SubSeq(data, at, at + n - 1), at + n))

ReadString(data, at) ==
  LET Text(n, start) ==
        IF n = 0 THEN Ok(<<>>, start)
        ELSE LET text == SubSeq(data, start, start + n - 1)
             IN  Need(data, start, n, IF IsUtf8(text) THEN Ok(text, start + n) ELSE Bad)
  IN  Then(ReadU64(data, at), Text)

RECURSIVE Read(_, _, _), ReadList(_, _, _, _), ReadFields(_, _, _, _)

ReadOption(shape, data, at) ==
  LET Some(v, end) == Ok(<<v>>, end)
      Tagged(tag, start) == CASE tag = 0 -> Ok(<<>>, start)
                              [] tag = 1 -> Then(Read(shape, data, start), Some)
                              [] OTHER -> Bad
  IN  Then(ReadU8(data, at), Tagged)

ReadList(shape, data, at, n) ==
  IF n = 0 THEN Ok(<<>>, at)
  ELSE LET Rest(first, next) ==
             LET Joined(rest, end) == Ok(<<first>> \o rest, end)
             IN  Then(ReadList(shape, data, next, n - 1), Joined)
       IN  Then(Read(shape, data, at), Rest)

\* A struct is read field by field, each a name and a shape.
ReadFields(fields, data, at, got) ==
  IF fields = <<>> THEN Ok(got, at)
  ELSE LET Next(v, next) == ReadFields(Tail(fields), data, next, got @@ (fields[1][1] :> v))
       IN  Then(Read(fields[1][2], data, at), Next)

\* The name of a number in an enumeration, its first for an unknown one.
FromValue(names, n) == IF n < Len(names) THEN names[n + 1] ELSE names[1]
AsU8(names, v) == CHOOSE n \in 0..(Len(names) - 1) : names[n + 1] = v

Read(shape, data, at) ==
  LET Named(n, end) == Ok(FromValue(shape[2], n), end)
      Counted(n, start) == ReadList(shape[2], data, start, n)
  IN  CASE shape[1] = "bool" -> ReadBool(data, at)
        [] shape[1] = "i32" -> ReadI32(data, at)
        [] shape[1] = "i64" -> ReadI64(data, at)
        [] shape[1] = "f32" -> ReadFloat(data, at, F32Bytes)
        [] shape[1] = "string" -> ReadString(data, at)
        [] shape[1] = "enum" -> Then(ReadU8(data, at), Named)
        [] shape[1] = "option" -> ReadOption(shape[2], data, at)
        [] shape[1] = "list" -> Then(ReadU64(data, at), Counted)
        [] shape[1] = "struct" -> ReadFields(shape[2], data, at, <<>>)

(* Writers ----------------------------------------------------------------- *)

RECURSIVE WriteVar(_)
WriteVar(n) == IF n >= More THEN <<(n % More) + More>> \o WriteVar(n \div More) ELSE <<n>>

WriteBool(v) == <<IF v THEN 1 ELSE 0>>
WriteString(text) == WriteVar(Len(text)) \o text

RECURSIVE Write(_, _)

WriteOption(shape, v) == IF v = <<>> THEN <<0>> ELSE <<1>> \o Write(shape, v[1])

WriteList(shape, v) ==
  WriteVar(Len(v)) \o FlattenSeq([i \in DOMAIN v |-> Write(shape, v[i])])

Write(shape, v) ==
  CASE shape[1] = "bool" -> WriteBool(v)
    [] shape[1] \in {"i32", "i64"} -> WriteVar(ZigzagEncode(v))
    [] shape[1] = "f32" -> v
    [] shape[1] = "string" -> WriteString(v)
    [] shape[1] = "enum" -> <<AsU8(shape[2], v)>>
    [] shape[1] = "option" -> WriteOption(shape[2], v)
    [] shape[1] = "list" -> WriteList(shape[2], v)
    [] shape[1] = "struct" ->
         FlattenSeq([i \in DOMAIN shape[2] |-> Write(shape[2][i][2], v[shape[2][i][1]])])

(* Shapes ------------------------------------------------------------------ *)

Bool == <<"bool">>
I32 == <<"i32">>
I64 == <<"i64">>
F32 == <<"f32">>
Str == <<"string">>
Opt(shape) == <<"option", shape>>
ListOf(shape) == <<"list", shape>>
Struct(fields) == <<"struct", fields>>

\* read_map and write_map: a count and that many keys, each with its value.
Pairs == ListOf(Struct(<< <<"key", Str>>, <<"value", Str>> >>))
=============================================================================
