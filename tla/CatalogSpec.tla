---------------------------- MODULE CatalogSpec -----------------------------
(***************************************************************************)
(* What the catalog promises: tables under their names, each with the rows *)
(* inserted into it and with indexes under names of their own.  An index   *)
(* has what the table had when it was made.                                *)
(***************************************************************************)
EXTENDS Tuple

CONSTANTS TableNames, IndexNames,
          Schemas,       \* what create_table and create_index are called with
          KeySets,       \* the names of key columns create_index picks from one
          RowsOf,        \* by schema, the rows that are inserted into a table
          LimitOf(_),    \* how many different keys of these types an index can have
          Unreadable     \* the contents of an index that cannot be read

VARIABLE db   \* name -> schema, rows, indexes

SpecInit == db = <<>>

\* The values that a row of a table has in the columns of a key.
KeyOf(schema, key, row) ==
    [j \in DOMAIN key |-> row[CHOOSE i \in DOMAIN schema : schema[i] = key[j]]]

KeysOf(schema, key, rows) == {KeyOf(schema, key, rows[r]) : r \in DOMAIN rows}

\* The types of the key, and each key once, in ascending order, with the last of its rows.
Contents(schema, key, rows) ==
    LET ks  == KeysOf(schema, key, rows)
        tys == Types(key)
        Nth(i) == CHOOSE k \in ks : Cardinality({l \in ks : KeyLess(tys, l, k)}) = i - 1
    IN  <<tys, [i \in 1..Cardinality(ks) |->
            [key |-> Nth(i),
             val |-> CHOOSE r \in DOMAIN rows :
                        /\ KeyOf(schema, key, rows[r]) = Nth(i)
                        /\ \A q \in (r + 1)..Len(rows) : KeyOf(schema, key, rows[q]) # Nth(i)]]>>

\* An index that has reached its limit may be lost to one row more.
Indexed(schema, key, rows) ==
    LET keys  == Cardinality(KeysOf(schema, key, rows))
        limit == LimitOf(Types(key))
    IN  {c \in {Unreadable, Contents(schema, key, rows)} :
            IF c = Unreadable THEN keys >= limit ELSE keys <= limit}

-----------------------------------------------------------------------------
\* What a call makes of the database d.
WithTable(d) ==
    {d @@ (n :> [schema |-> schema, rows |-> <<>>, indexes |-> <<>>]) :
        n \in TableNames \ DOMAIN d, schema \in Schemas}

WithRow(d) ==
    UNION {{[d EXCEPT ![n].rows = Append(@, row)] : row \in RowsOf[d[n].schema]} :
              n \in DOMAIN d}

\* A key is some columns of the schema that is passed.  They must be columns of
\* the table, unless it has no rows.
KeysFor(t) == {key \in {Filter(schema, names) : schema \in Schemas, names \in KeySets} :
                 t.rows # <<>> => Range(key) \subseteq Range(t.schema)}

\* Contents of a new index of table t.
NewIndexes(t) == UNION {Indexed(t.schema, key, t.rows) : key \in KeysFor(t)}

\* e is d with index i of table n, which has the name of no table that exists.
WithIndex(d, e, n, i) ==
    /\ i \in DOMAIN e[n].indexes \ (DOMAIN d \cup DOMAIN d[n].indexes)
    /\ e = [d EXCEPT ![n].indexes = @ @@ (i :> e[n].indexes[i])]
    /\ e[n].indexes[i] \in NewIndexes(d[n])

Step(d, e) == \/ e \in WithTable(d)
              \/ e \in WithRow(d)
              \/ \E n \in DOMAIN d, i \in IndexNames : n \in DOMAIN e /\ WithIndex(d, e, n, i)

\* The quantifiers make TLC evaluate a db that is put in for this one only once.
SpecNext == \E d \in {db}, e \in {db'} : Step(d, e)

SpecOfCatalog == SpecInit /\ [][SpecNext]_db
=============================================================================
