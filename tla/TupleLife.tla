----------------------------- MODULE TupleLife ------------------------------
(***************************************************************************)
(* The life of a tuple: a TupleBuilder makes it of values, Tuple::from     *)
(* cuts it down to the columns of a key or reads it back from a page, and  *)
(* Tuple::next makes it a bound in an internal node of a B+ tree.          *)
(***************************************************************************)
EXTENDS Tuple

CONSTANTS ColumnValues,   \* the values that are written, by type
          Rest,           \* what follows a tuple in the buffer it is read from
          MaxColumns      \* bound

ASSUME LifeAssumption ==
    /\ MaxColumns \in Nat
    /\ \A ty \in DOMAIN ColumnValues \cap Integer :
          ColumnValues[ty] \subseteq (-MaxOf(ty) - 1)..MaxOf(ty)

VARIABLES schema,    \* of the tuple
          row,       \* its values
          builder,   \* TupleBuilder
          data,      \* the bytes of the tuple, once built
          prev,      \* and those it had before next()
          phase

vars == <<schema, row, builder, data, prev, phase>>

Init == /\ schema = <<>>
        /\ row = <<>>
        /\ builder = NewBuilder
        /\ data = <<>>
        /\ prev = <<>>
        /\ phase = "build"

AddValue(ty, v) ==
    /\ phase = "build" /\ Len(schema) < MaxColumns
    /\ schema' = SchemaFrom(Append(schema, [name |-> Len(schema) + 1, ty |-> ty]))
    /\ row' = Append(row, v)
    /\ builder' = Add(builder, ty, v)
    /\ UNCHANGED <<data, prev, phase>>

\* A tuple of more than 2^16 bytes is not followed: no page could take it.
BuildTuple ==
    /\ phase = "build"
    /\ data' = Build(builder)
    /\ builder' = NewBuilder
    /\ phase' = IF Truncates(builder) THEN "truncated" ELSE "tuple"
    /\ UNCHANGED <<schema, row, prev>>

\* The values of the columns with these names.
Chosen(names) ==
    LET ids == SelectSeq([i \in DOMAIN schema |-> i], LAMBDA i : schema[i].name \in names)
    IN  [j \in DOMAIN ids |-> row[ids[j]]]

\* create_index makes a key, or Node::from reads one back (all the names).
Project(names, rest) ==
    /\ phase = "tuple"
    /\ data' = TupleFrom(data \o rest, Filter(schema, names))
    /\ schema' = Compact(Filter(schema, names))
    /\ row' = Chosen(names)
    /\ UNCHANGED <<builder, prev, phase>>

Increment ==
    /\ phase = "tuple" /\ schema # <<>>
    /\ ~NextPanics(schema[1].ty, row[1])
    /\ data' = TupleNext(schema, data)
    /\ row' = KeyNext(Types(schema), row)
    /\ prev' = data
    /\ phase' = "next"
    /\ UNCHANGED <<schema, builder>>

IncrementPanics ==
    /\ phase = "tuple" /\ schema # <<>>
    /\ NextPanics(schema[1].ty, row[1])
    /\ phase' = "panicked"
    /\ UNCHANGED <<schema, row, builder, data, prev>>

Next == \/ \E ty \in DOMAIN ColumnValues : \E v \in ColumnValues[ty] : AddValue(ty, v)
        \/ BuildTuple
        \/ \E names \in SUBSET {schema[i].name : i \in DOMAIN schema}, rest \in Rest :
              Project(names, rest)
        \/ Increment
        \/ IncrementPanics

Spec == Init /\ [][Next]_vars

-----------------------------------------------------------------------------
(***************************************************************************)
(* Properties.                                                             *)
(***************************************************************************)
\* There is a tuple, with offsets below 2^16.
Built == phase \in {"tuple", "next", "panicked"}

(***************************************************************************)
(* Every column reads as what was written, whichever columns were cut away *)
(* before it or around it, and the bytes are those a TupleBuilder makes of *)
(* the values left (test_from, table/tuple.rs:540).                        *)
(***************************************************************************)
ReadsAsBuilt ==
    Built => /\ \A i \in DOMAIN schema : Readable(schema[i], data)
             /\ ValuesOf(schema, data) = row
             /\ data = BuildRow(Types(schema), row)

\* The rows of a schema.
Rows(tys) == FoldLeft(LAMBDA acc, ty : {Append(w, v) : w \in acc, v \in ColumnValues[ty]},
                      {<<>>}, tys)

(***************************************************************************)
(* Two tuples of a schema are == (the same bytes) exactly if neither is    *)
(* less: Node::insert and replace test one and then the other              *)
(* (btree/node.rs:266).                                                    *)
(***************************************************************************)
EqAgreesWithCmp ==
    Built => \A w \in Rows(Types(schema)) : ~Truncates(RowBuilder(Types(schema), w)) =>
                LET t == BuildRow(Types(schema), w)
                IN  t = data <=> ~TupleLess(schema, t, data) /\ ~TupleLess(schema, data, t)

(***************************************************************************)
(* next() of a key that begins with an integer is above every key that     *)
(* begins with the same integer or a smaller one, so it bounds a leaf      *)
(* (get_separator, btree/node.rs:217).                                     *)
(***************************************************************************)
NextIsBound ==
    phase = "next" /\ schema[1].ty \in Integer =>
        \A w \in Rows(Types(schema)) :
            w[1] <= ValueFrom(schema[1], prev) /\ ~Truncates(RowBuilder(Types(schema), w)) =>
                TupleLess(schema, BuildRow(Types(schema), w), data)

\* next() gives a larger tuple: "Increment the first column" (table/tuple.rs:195).
NextIncrements == phase = "next" => TupleLess(schema, prev, data)
=============================================================================
