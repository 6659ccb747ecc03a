------------------------------ MODULE Catalog -------------------------------
(***************************************************************************)
(* The catalog, src/src/catalog.rs: tables and indexes by name and by oid. *)
(* Every call takes the catalog as &mut or &, so a call is one step.       *)
(*                                                                         *)
(* A table is the sequence of the tuples inserted into it, which is what   *)
(* iter() returns (TableList), and the RId of a tuple is its place there.  *)
(* An index is a B+ tree of RIds, which have 8 bytes: Either::from cannot  *)
(* read a pointer then, so a tree never grows beyond the two leaves of its *)
(* first split.  It is modelled by its leaves.                             *)
(***************************************************************************)
EXTENDS BTreeNode

CONSTANTS TableNames, IndexNames, Schemas, KeySets, RowsOf, Unreadable,
          MaxRows, MaxOid   \* bounds

ASSUME CatalogAssumption ==
    /\ ~PointersReadable
    /\ {MaxRows, MaxOid} \subseteq Nat
    /\ DOMAIN RowsOf = Schemas

VARIABLES tables,           \* oid -> TableInfo
          table_names,      \* name -> oid
          next_table_oid,
          indexes,          \* oid -> IndexInfo
          index_names,      \* table -> index -> oid
          next_index_oid,
          broken            \* the keys of the tree whose insert panicked, if one did

catalog == <<tables, table_names, next_table_oid, indexes, index_names, next_index_oid>>
vars == <<catalog, broken>>

Init == /\ tables = <<>>
        /\ table_names = <<>>
        /\ next_table_oid = 0
        /\ indexes = <<>>
        /\ index_names = <<>>
        /\ next_index_oid = 0
        /\ broken = {}

Running == broken = {}

-----------------------------------------------------------------------------
\* HashMap::insert.
MapInsert(map, key, value) ==
    [k \in DOMAIN map \cup {key} |-> IF k = key THEN value ELSE map[k]]

\* A name that is taken gives None and changes nothing.
CreateTable(name, schema) ==
    /\ Running /\ next_table_oid < MaxOid
    /\ name \notin DOMAIN table_names
    /\ next_table_oid' = next_table_oid + 1
    /\ tables' = MapInsert(tables, next_table_oid,
                           [name |-> name, schema |-> schema, rows |-> <<>>])
    /\ table_names' = MapInsert(table_names, name, next_table_oid)
    /\ index_names' = MapInsert(index_names, name, <<>>)
    /\ UNCHANGED <<indexes, next_index_oid, broken>>

\* Mutant: the name is entered before the table is made.
CreateTableFailsNamed(name) ==
    /\ Running /\ next_table_oid < MaxOid
    /\ name \notin DOMAIN table_names
    /\ next_table_oid' = next_table_oid + 1
    /\ table_names' = MapInsert(table_names, name, next_table_oid)
    /\ UNCHANGED <<tables, indexes, index_names, next_index_oid, broken>>

\* Table::default fails: the oid is spent.
CreateTableFails(name) ==
    /\ Running /\ next_table_oid < MaxOid
    /\ name \notin DOMAIN table_names
    /\ next_table_oid' = next_table_oid + 1
    /\ UNCHANGED <<tables, table_names, indexes, index_names, next_index_oid, broken>>

\* get_table_by_name, and an insert into the table.
TableByName(name) == tables[table_names[name]]

TotalRows == FoldSet(LAMBDA o, acc : acc + Len(tables[o].rows), 0, DOMAIN tables)

InsertRow(name, row) ==
    /\ Running /\ TotalRows < MaxRows
    /\ name \in DOMAIN table_names
    /\ tables' = [tables EXCEPT ![table_names[name]].rows =
                     Append(@, BuildRow(Types(TableByName(name).schema), row))]
    /\ UNCHANGED <<table_names, next_table_oid, indexes, index_names, next_index_oid,
                   broken>>

-----------------------------------------------------------------------------
(***************************************************************************)
(* create_index inserts the key of every tuple into a new tree.            *)
(***************************************************************************)
NewTree == [leaves |-> <<>>, ok |-> TRUE]

\* PageBuf::from panics unless every leaf fits its page.
TreeOf(leaves) == [leaves |-> leaves, ok |-> \A i \in DOMAIN leaves : FitsPage(leaves[i])]

\* A leaf that is almost full is split, whether or not it has the key.
SplitLeaf(leaf, slot) ==
    LET lower == LowerHalf(leaf, None)
        upper == UpperHalf(leaf)
    IN  IF KeyLess(leaf.tys, slot.key, LastKey(lower))
        THEN <<ReplaceSlot(lower, slot), upper>> ELSE <<lower, ReplaceSlot(upper, slot)>>

\* The separators of the two leaves are made; they may panic.
SplitTree(leaves) ==
    [TreeOf(leaves) EXCEPT !.ok = @ /\ \A i \in DOMAIN leaves : ~SeparatorPanics(leaves[i])]

\* Mutant: a key that is in the index already is refused.
TreeInsertOnce(tree, tys, slot) ==
    CASE ~tree.ok \/ Len(tree.leaves) = 2 -> [tree EXCEPT !.ok = FALSE]
      [] tree.leaves = <<>> -> TreeOf(<<InsertSlot(NewNode("Leaf", tys), slot)>>)
      [] AlmostFull(tree.leaves[1]) -> SplitTree(SplitLeaf(tree.leaves[1], slot))
      [] OTHER -> TreeOf(<<InsertSlot(tree.leaves[1], slot)>>)

TreeInsert(tree, tys, slot) ==
    CASE ~tree.ok \/ Len(tree.leaves) = 2 -> [tree EXCEPT !.ok = FALSE]
      [] tree.leaves = <<>> -> TreeOf(<<ReplaceSlot(NewNode("Leaf", tys), slot)>>)
      [] AlmostFull(tree.leaves[1]) -> SplitTree(SplitLeaf(tree.leaves[1], slot))
      [] OTHER -> TreeOf(<<ReplaceSlot(tree.leaves[1], slot)>>)

\* The rows up to the first one that Tuple::from cannot cut to the columns of the
\* key, as they do not have to be columns of the table ("TODO: verify").
Cuttable(rows, key) ==
    LET i == SelectInSeq(rows, LAMBDA row : \E c \in Range(key) : ~Readable(c, row))
    IN  IF i = 0 THEN rows ELSE SubSeq(rows, 1, i - 1)

\* The key tuples, cut out of the table's tuples and read with the index's schema.
IndexKeys(rows, key) ==
    [r \in DOMAIN rows |-> ValuesOf(Compact(key), TupleFrom(rows[r], key))]

BuildTree(key, rows) ==
    LET keys == IndexKeys(rows, key)
        tree[r \in 0..Len(keys)] ==
            IF r = 0 THEN NewTree ELSE TreeInsert(tree[r - 1], Types(key), Slot(keys[r], r))
    IN  tree[Len(keys)]

\* The conditions under which create_index does not return None.
MayIndex(index, table) ==
    /\ index \notin DOMAIN index_names
    /\ table \in DOMAIN index_names
    /\ index \notin DOMAIN index_names[table]

EnterIndex(index, table, schema, tree) ==
    /\ next_index_oid' = next_index_oid + 1
    /\ index_names' = [index_names EXCEPT ![table] = MapInsert(@, index, next_index_oid)]
    /\ indexes' = MapInsert(indexes, next_index_oid,
                            [name |-> index, schema |-> schema, tree |-> tree])
    /\ UNCHANGED <<tables, table_names, next_table_oid>>

\* key is the sparse schema, of some columns of the schema that is passed.
CreateIndex(index, table, key) ==
    /\ Running /\ next_index_oid < MaxOid
    /\ MayIndex(index, table)
    /\ LET rows == TableByName(table).rows
           tree == BuildTree(key, rows)
       IN  /\ Cuttable(rows, key) = rows /\ tree.ok
           /\ EnterIndex(index, table, Compact(key), tree)
    /\ UNCHANGED broken

\* An insert into the tree panics; it poisons the latch of the frame it has.
CreateIndexPanics(index, table, key) ==
    /\ Running
    /\ MayIndex(index, table)
    /\ LET rows == Cuttable(TableByName(table).rows, key)
       IN  /\ ~BuildTree(key, rows).ok
           /\ broken' = {[tys |-> Types(key), keys |-> Range(IndexKeys(rows, key))]}
    /\ UNCHANGED catalog

\* A row that cannot be cut, expect("todo") on an error of the page cache, and
\* todo!() for a HashTable panic before the catalog is changed and with no latch
\* held.
CreateIndexFails(index, table) ==
    /\ Running
    /\ MayIndex(index, table)
    /\ UNCHANGED vars

Next == \/ \E name \in TableNames, schema \in Schemas : CreateTable(name, schema)
        \/ \E name \in TableNames : CreateTableFails(name)
        \/ \E name \in DOMAIN table_names : \E row \in RowsOf[TableByName(name).schema] :
              InsertRow(name, row)
        \/ \E index \in IndexNames, table \in TableNames, schema \in Schemas, names \in KeySets :
              LET key == Filter(schema, names)
              IN  CreateIndex(index, table, key) \/ CreateIndexPanics(index, table, key)
        \/ \E index \in IndexNames, table \in TableNames : CreateIndexFails(index, table)

Spec == Init /\ [][Next]_vars

-----------------------------------------------------------------------------
(***************************************************************************)
(* Properties.                                                             *)
(***************************************************************************)
(***************************************************************************)
(* The maps agree, whatever failed in between: a name leads to the table   *)
(* or index made under it, every table and every index is found by exactly *)
(* one name, and the next oids are new (catalog.rs:211, 279).              *)
(***************************************************************************)
NamesAgree ==
    /\ DOMAIN index_names = DOMAIN table_names
    /\ \A n \in DOMAIN table_names :
          table_names[n] \in DOMAIN tables /\ tables[table_names[n]].name = n
    /\ \A o \in DOMAIN tables : o < next_table_oid /\ table_names[tables[o].name] = o
    /\ \A n \in DOMAIN index_names : \A i \in DOMAIN index_names[n] :
          index_names[n][i] \in DOMAIN indexes /\ indexes[index_names[n][i]].name = i
    /\ \A o \in DOMAIN indexes :
          /\ o < next_index_oid
          /\ \E n \in DOMAIN index_names :
                /\ o \in Range(index_names[n])
                /\ \A m \in DOMAIN index_names \ {n} : o \notin Range(index_names[m])

\* The slots a leaf has when the next insert splits it.
LeafLimit(tys) ==
    IF SumSizes(tys) = 0 THEN MaxRows + 1
    ELSE (PAGE_SIZE \div 2 + SumSizes(tys) - 1) \div SumSizes(tys)

\* scan() of an index, with the types of its key.
Read(index) ==
    CASE index.tree.leaves = <<>> -> <<Types(index.schema), <<>>>>
      [] Len(index.tree.leaves) = 1 -> <<Types(index.schema), index.tree.leaves[1].values>>
      [] OTHER -> Unreadable

IndexByName(n, i) == indexes[index_names[n][i]]

Db == [n \in DOMAIN table_names |->
        [schema  |-> TableByName(n).schema,
         rows    |-> [r \in DOMAIN TableByName(n).rows |->
                         ValuesOf(TableByName(n).schema, TableByName(n).rows[r])],
         indexes |-> [i \in DOMAIN index_names[n] |-> Read(IndexByName(n, i))]]]

Abstract == INSTANCE CatalogSpec WITH db <- Db, LimitOf <- LeafLimit

(***************************************************************************)
(* The catalog implements CatalogSpec: no call loses or changes a table or *)
(* an index made before, rows read as inserted, and an index has the keys  *)
(* its table had when it was made, each with its last tuple (test of       *)
(* catalog.rs:418).                                                        *)
(***************************************************************************)
RefinesCatalogSpec == Abstract!SpecOfCatalog

(***************************************************************************)
(* create_index panics in the tree only on a table with more keys than a   *)
(* page takes, or with as many as split a leaf (btree/slot.rs:52).         *)
(***************************************************************************)
BreaksOnlyIfLarge ==
    \A b \in broken :
        \/ ~FitsPage([NewNode("Leaf", b.tys) EXCEPT !.values =
                         SetToSeq({Slot(k, 0) : k \in b.keys})])
        \/ Cardinality(b.keys) >= LeafLimit(b.tys)

(***************************************************************************)
(* An index has an entry for every tuple of its table: the comparison of   *)
(* the scan with all tuples in test_btree_index (catalog.rs:418).          *)
(***************************************************************************)
IndexHasEveryTuple ==
    \A n \in DOMAIN table_names : \A i \in DOMAIN index_names[n] :
        LET read == Read(IndexByName(n, i))
        IN  read # Unreadable /\ Len(read[2]) >= Len(TableByName(n).rows)
=============================================================================
