------------------------------- MODULE Tuple --------------------------------
(***************************************************************************)
(* Schemas, src/src/catalog.rs, and tuples, src/src/table/tuple.rs: how    *)
(* values become bytes and are read back, compared and incremented.        *)
(*                                                                         *)
(* A schema is a sequence of columns, data a sequence of bytes.  A byte    *)
(* has BASE values instead of 256, so that integers of 8 bytes and offsets *)
(* of 2 reach their limits.  A Varchar is a sequence of one-byte           *)
(* characters.  Arithmetic that overflows panics, as in the dev profile.   *)
(***************************************************************************)
EXTENDS Integers, Sequences, SequencesExt

CONSTANT BASE

ASSUME BaseAssumption == BASE \in Nat /\ BASE >= 4 /\ BASE % 2 = 0

Integer == {"TinyInt", "Int", "BigInt"}
Type == Integer \cup {"Bool", "Varchar"}

\* Type::size
TypeSize(ty) == [TinyInt |-> 1, Bool |-> 1, Int |-> 4, BigInt |-> 8, Varchar |-> 4][ty]

MaxOf(ty) == BASE ^ TypeSize(ty) \div 2 - 1

SumSizes(tys) ==
    LET sum[n \in 0..Len(tys)] == IF n = 0 THEN 0 ELSE sum[n - 1] + TypeSize(tys[n])
    IN  sum[Len(tys)]

-----------------------------------------------------------------------------
(***************************************************************************)
(* Schemas.  A column has a name, a type and the offset of its bytes.      *)
(***************************************************************************)
Types(schema) == [i \in DOMAIN schema |-> schema[i].ty]

Compact(schema) ==
    [i \in DOMAIN schema |->
        [schema[i] EXCEPT !.offset = SumSizes(Types(SubSeq(schema, 1, i - 1)))]]

\* Schema::from a sequence of names and types.
SchemaFrom(columns) ==
    Compact([i \in DOMAIN columns |->
                [name |-> columns[i].name, ty |-> columns[i].ty, offset |-> 0]])

\* The columns with these names, in the order of the schema, where they were.
Filter(schema, names) == SelectSeq(schema, LAMBDA c : c.name \in names)

-----------------------------------------------------------------------------
(***************************************************************************)
(* Bytes, big endian and two's complement.                                 *)
(***************************************************************************)
ToBytes(v, n) == [i \in 1..n |-> (v \div BASE ^ (n - i)) % BASE]

Unsigned(bytes) ==
    LET value[n \in 0..Len(bytes)] == IF n = 0 THEN 0 ELSE value[n - 1] * BASE + bytes[n]
    IN  value[Len(bytes)]

Signed(u, n) == IF 2 * u >= BASE ^ n THEN u - BASE ^ n ELSE u

U16 == BASE ^ 2   \* one more than the largest u16

\* data[from..from + n]
Slice(data, from, n) == SubSeq(data, from + 1, from + n)

Overwrite(data, from, bytes) ==
    SubSeq(data, 1, from) \o bytes \o SubSeq(data, from + Len(bytes) + 1, Len(data))

-----------------------------------------------------------------------------
(***************************************************************************)
(* TupleBuilder: the fixed part grows with every value; the bytes of       *)
(* Varchars wait in variable until build() knows where they go.            *)
(***************************************************************************)
NewBuilder == [data |-> <<>>, variable |-> <<>>]

Encode(ty, v) == ToBytes(IF ty = "Bool" THEN IF v THEN 1 ELSE 0 ELSE v, TypeSize(ty))

Add(b, ty, v) ==
    IF ty # "Varchar" THEN [b EXCEPT !.data = @ \o Encode(ty, v)]
    ELSE [data     |-> b.data \o ToBytes(0, 2) \o ToBytes(Len(v), 2),
          variable |-> Append(b.variable, [data |-> v, offset_offset |-> Len(b.data)])]

PutVariableUnset(data, var) == data \o var.data   \* mutant: the offset stays 0

\* The offset is where the bytes go, as a u16.
PutVariable(data, var) ==
    Overwrite(data, var.offset_offset, ToBytes(Len(data), 2)) \o var.data

Build(b) == FoldLeft(PutVariable, b.data, b.variable)

\* The builder, and the tuple, of a row of values.
RowBuilder(tys, row) ==
    FoldLeft(LAMBDA b, i : Add(b, tys[i], row[i]), NewBuilder, [i \in DOMAIN row |-> i])

BuildRow(tys, row) == Build(RowBuilder(tys, row))

\* build() meets an offset that is too large for a u16.
Truncates(b) ==
    b.variable # <<>> /\ Len(Build(b)) - Len(Last(b.variable).data) >= U16

-----------------------------------------------------------------------------
\* The offset and the length that the bytes of a Varchar column hold.
VarOffset(column, data) == Unsigned(Slice(data, column.offset, 2))
VarLen(column, data) == Unsigned(Slice(data, column.offset + 2, 2))

\* Value::from panics unless the bytes are there.
Readable(column, data) ==
    /\ column.offset + TypeSize(column.ty) <= Len(data)
    /\ column.ty = "Varchar" => VarOffset(column, data) + VarLen(column, data) <= Len(data)

ValueFrom(column, data) ==
    LET bytes == Slice(data, column.offset, TypeSize(column.ty))
    IN  CASE column.ty = "Varchar" ->
                Slice(data, VarOffset(column, data), VarLen(column, data))
          [] column.ty = "Bool" -> Unsigned(bytes) > 0
          [] OTHER -> Signed(Unsigned(bytes), TypeSize(column.ty))

ValuesOf(schema, data) == [i \in DOMAIN schema |-> ValueFrom(schema[i], data)]

(***************************************************************************)
(* Tuple::from copies the columns of schema, which may be sparse, from buf *)
(* and moves the offset of each Varchar to where its bytes go now.         *)
(***************************************************************************)
CopyColumn(b, buf, column) ==
    [data     |-> b.data \o Slice(buf, column.offset, TypeSize(column.ty)),
     variable |-> IF column.ty # "Varchar" THEN b.variable
                  ELSE Append(b.variable,
                              [data |-> Slice(buf, VarOffset(column, buf), VarLen(column, buf)),
                               offset_offset |-> Len(b.data)])]

TupleFrom(buf, schema) ==
    Build(FoldLeft(LAMBDA b, column : CopyColumn(b, buf, column), NewBuilder, schema))

-----------------------------------------------------------------------------
(***************************************************************************)
(* Comparand.  == compares the bytes of two tuples; < the values column by *)
(* column.  Keys of the B+ tree are sequences of values.                   *)
(***************************************************************************)
LexLess(s, t) ==
    \/ \E i \in DOMAIN s \cap DOMAIN t : s[i] < t[i] /\ \A j \in 1..(i - 1) : s[j] = t[j]
    \/ Len(s) < Len(t) /\ SubSeq(t, 1, Len(s)) = s

ValueLess(ty, v, w) ==
    CASE ty = "Varchar" -> LexLess(v, w)
      [] ty = "Bool" -> ~v /\ w
      [] OTHER -> v < w

\* Mutant: only the first column is compared.
FirstLess(tys, k, l) == tys # <<>> /\ ValueLess(tys[1], k[1], l[1])

KeyLess(tys, k, l) ==
    \E i \in DOMAIN tys : /\ ValueLess(tys[i], k[i], l[i])
                          /\ \A j \in 1..(i - 1) : k[j] = l[j]

TupleLess(schema, s, t) == KeyLess(Types(schema), ValuesOf(schema, s), ValuesOf(schema, t))

-----------------------------------------------------------------------------
(***************************************************************************)
(* Tuple::next increments the first column.  Of a Varchar the first        *)
(* character is replaced: as many bytes as the next character has in UTF-8 *)
(* are taken from the front of its code as a u32.                          *)
(***************************************************************************)
LenUtf8(c) == IF c < BASE \div 2 THEN 1 ELSE 2

NextPanicsEarly(ty, v) == ty \in Integer /\ v + 1 >= MaxOf(ty)   \* mutant: off by one

NextPanics(ty, v) ==
    \/ ty \in Integer /\ v = MaxOf(ty)
    \/ ty = "Varchar" /\ v # <<>> /\ LenUtf8(Head(v) + 1) > Len(v)

NextValueSame(ty, v) == v   \* mutant: nothing is added

NextValue(ty, v) ==
    CASE ty = "Bool" -> TRUE
      [] ty = "Varchar" -> IF v = <<>> THEN <<0>>
                           ELSE Overwrite(v, 0, Slice(ToBytes(Head(v) + 1, 4), 0, LenUtf8(Head(v) + 1)))
      [] OTHER -> v + 1

KeyNext(tys, k) == [k EXCEPT ![1] = NextValue(tys[1], @)]

TupleNext(schema, data) ==
    BuildRow(Types(schema), KeyNext(Types(schema), ValuesOf(schema, data)))
=============================================================================
