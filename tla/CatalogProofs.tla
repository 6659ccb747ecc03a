---------------------------- MODULE CatalogProofs -----------------------------
(***************************************************************************)
(* Proofs about Catalog: the maps from names to oids and from oids to      *)
(* tables and indexes agree, whatever calls fail in between.               *)
(***************************************************************************)
EXTENDS Catalog, TLAPS

-----------------------------------------------------------------------------
\* Oids are numbers below the next one, and every table can be found.
OidInv ==
    /\ next_table_oid \in Nat /\ next_index_oid \in Nat
    /\ DOMAIN tables \subseteq Nat /\ DOMAIN indexes \subseteq Nat
    /\ \A o \in DOMAIN tables : /\ DOMAIN tables[o] = {"name", "schema", "rows"}
                                /\ tables[o].name \in DOMAIN table_names

IInv == OidInv /\ NamesAgree

-----------------------------------------------------------------------------
LEMMA InitIInv == ASSUME Init PROVE IInv
  <1>1. DOMAIN <<>> = {}
    OBVIOUS
  <1> QED
    BY <1>1 DEF Init, IInv, OidInv, NamesAgree

LEMMA CreateTableKeeps ==
  ASSUME IInv, NEW name, NEW schema, CreateTable(name, schema)
  PROVE  IInv'
  <1> USE DEF IInv
  <1>1. PICK o \in Nat : o = next_table_oid
    BY DEF OidInv
  <1> DEFINE info == [name |-> name, schema |-> schema, rows |-> <<>>]
  <1>2. /\ next_table_oid' = o + 1 /\ tables' = MapInsert(tables, o, info)
        /\ table_names' = MapInsert(table_names, name, o)
        /\ index_names' = MapInsert(index_names, name, <<>>)
        /\ indexes' = indexes /\ next_index_oid' = next_index_oid
        /\ name \notin DOMAIN table_names /\ name \notin DOMAIN index_names
    BY <1>1 DEF CreateTable, NamesAgree
  <1>3. o \notin DOMAIN tables /\ info.name = name /\ DOMAIN info = {"name", "schema", "rows"}
    BY <1>1 DEF NamesAgree, OidInv
  <1> HIDE DEF info
  <1>4. /\ DOMAIN tables' = DOMAIN tables \cup {o} /\ tables'[o] = info
        /\ \A x \in DOMAIN tables : tables'[x] = tables[x]
    BY <1>2, <1>3 DEF MapInsert
  <1>5. /\ DOMAIN table_names' = DOMAIN table_names \cup {name} /\ table_names'[name] = o
        /\ \A x \in DOMAIN table_names : table_names'[x] = table_names[x]
    BY <1>2 DEF MapInsert
  <1>6. /\ DOMAIN index_names' = DOMAIN index_names \cup {name} /\ index_names'[name] = <<>>
        /\ \A x \in DOMAIN index_names : index_names'[x] = index_names[x]
    BY <1>2 DEF MapInsert
  <1>7. DOMAIN <<>> = {} /\ Range(<<>>) = {}
    BY DEF Range
  <1>8. OidInv'
    BY <1>1, <1>2, <1>3, <1>4, <1>5 DEF OidInv
  <1>9. DOMAIN index_names' = DOMAIN table_names'
    BY <1>5, <1>6 DEF NamesAgree
  <1>10. \A n \in DOMAIN table_names' :
            table_names'[n] \in DOMAIN tables' /\ tables'[table_names'[n]].name = n
    BY <1>3, <1>4, <1>5 DEF NamesAgree
  <1>11. ASSUME NEW x \in DOMAIN tables'
         PROVE  x < next_table_oid' /\ table_names'[tables'[x].name] = x
    <2>1. CASE x = o
      BY <1>2, <1>3, <1>4, <1>5, <2>1
    <2>2. CASE x \in DOMAIN tables
      <3>1. x \in Nat /\ x < o /\ table_names[tables[x].name] = x
            /\ tables[x].name \in DOMAIN table_names
        BY <1>1, <2>2 DEF NamesAgree, OidInv
      <3> QED
        BY <1>2, <1>4, <1>5, <2>2, <3>1
    <2> QED
      BY <1>4, <2>1, <2>2
  <1>12. \A n \in DOMAIN index_names' : \A i \in DOMAIN index_names'[n] :
            index_names'[n][i] \in DOMAIN indexes' /\ indexes'[index_names'[n][i]].name = i
    BY <1>2, <1>6, <1>7 DEF NamesAgree
  <1>13. ASSUME NEW x \in DOMAIN indexes'
         PROVE  /\ x < next_index_oid'
                /\ \E n \in DOMAIN index_names' :
                      /\ x \in Range(index_names'[n])
                      /\ \A m \in DOMAIN index_names' \ {n} : x \notin Range(index_names'[m])
    <2>1. x < next_index_oid
      BY <1>2 DEF NamesAgree
    <2>2. PICK n \in DOMAIN index_names :
              /\ x \in Range(index_names[n])
              /\ \A m \in DOMAIN index_names \ {n} : x \notin Range(index_names[m])
      BY <1>2 DEF NamesAgree
    <2>3. n \in DOMAIN index_names' /\ x \in Range(index_names'[n])
      BY <1>6, <2>2
    <2>4. ASSUME NEW m \in DOMAIN index_names' \ {n} PROVE x \notin Range(index_names'[m])
      BY <1>6, <1>7, <2>2
    <2> QED
      BY <1>2, <2>1, <2>3, <2>4
  <1> QED
    BY <1>8, <1>9, <1>10, <1>11, <1>12, <1>13 DEF NamesAgree

\* A spent oid and rows of a table are no matter of names.
LEMMA NamesStay ==
  ASSUME IInv, NEW name, CreateTableFails(name) \/ \E row : InsertRow(name, row)
  PROVE  IInv'
  <1> USE DEF IInv
  <1>1. /\ table_names' = table_names /\ indexes' = indexes /\ index_names' = index_names
        /\ next_index_oid' = next_index_oid
    BY DEF CreateTableFails, InsertRow
  <1>2. next_table_oid' \in Nat /\ next_table_oid <= next_table_oid' /\ next_table_oid \in Nat
    <2>1. next_table_oid' = next_table_oid \/ next_table_oid' = next_table_oid + 1
      BY DEF CreateTableFails, InsertRow
    <2> QED
      BY <2>1 DEF OidInv
  <1>3. DOMAIN tables' = DOMAIN tables
        /\ \A o \in DOMAIN tables : DOMAIN tables'[o] = DOMAIN tables[o]
                                    /\ tables'[o].name = tables[o].name
    <2>1. CASE CreateTableFails(name)
      BY <2>1 DEF CreateTableFails
    <2>2. ASSUME NEW row, InsertRow(name, row)
          PROVE  DOMAIN tables' = DOMAIN tables
                 /\ \A o \in DOMAIN tables : DOMAIN tables'[o] = DOMAIN tables[o]
                                             /\ tables'[o].name = tables[o].name
      <3>1. PICK rows : tables' = [tables EXCEPT ![table_names[name]].rows = rows]
        BY <2>2 DEF InsertRow
      <3> QED
        BY <3>1 DEF OidInv
    <2> QED
      BY <2>1, <2>2
  <1>4. OidInv'
    BY <1>1, <1>2, <1>3 DEF OidInv
  <1>5. \A o \in DOMAIN tables : o < next_table_oid'
    <2>1. \A o \in DOMAIN tables : o \in Nat /\ o < next_table_oid
      BY DEF OidInv, NamesAgree
    <2> QED
      BY <1>2, <2>1
  <1> QED
    BY <1>1, <1>3, <1>4, <1>5 DEF NamesAgree

LEMMA CreateIndexKeeps ==
  ASSUME IInv, NEW index, NEW table, NEW key, CreateIndex(index, table, key)
  PROVE  IInv'
  <1> USE DEF IInv
  <1>1. PICK o \in Nat : o = next_index_oid
    BY DEF OidInv
  <1>2. PICK schema, tree : EnterIndex(index, table, schema, tree)
    BY DEF CreateIndex
  <1>3. index \notin DOMAIN index_names[table] /\ table \in DOMAIN index_names
    BY DEF CreateIndex, MayIndex
  <1> DEFINE info == [name |-> index, schema |-> schema, tree |-> tree]
             own == MapInsert(index_names[table], index, o)
  <1>4. /\ next_index_oid' = o + 1 /\ indexes' = MapInsert(indexes, o, info)
        /\ index_names' = [index_names EXCEPT ![table] = own]
        /\ tables' = tables /\ table_names' = table_names /\ next_table_oid' = next_table_oid
    BY <1>1, <1>2 DEF EnterIndex
  <1>5. o \notin DOMAIN indexes /\ info.name = index
    BY <1>1 DEF NamesAgree, OidInv
  <1> HIDE DEF info
  <1>6. /\ DOMAIN indexes' = DOMAIN indexes \cup {o} /\ indexes'[o] = info
        /\ \A x \in DOMAIN indexes : indexes'[x] = indexes[x]
    BY <1>4, <1>5 DEF MapInsert
  <1>7. /\ DOMAIN own = DOMAIN index_names[table] \cup {index} /\ own[index] = o
        /\ \A i \in DOMAIN index_names[table] : own[i] = index_names[table][i]
        /\ Range(own) = Range(index_names[table]) \cup {o}
    <2>1. /\ DOMAIN own = DOMAIN index_names[table] \cup {index} /\ own[index] = o
          /\ \A i \in DOMAIN index_names[table] : own[i] = index_names[table][i]
      BY <1>3 DEF MapInsert
    <2> HIDE DEF own
    <2> QED
      BY <2>1 DEF Range
  <1> HIDE DEF own
  <1>8. /\ DOMAIN index_names' = DOMAIN index_names /\ index_names'[table] = own
        /\ \A n \in DOMAIN index_names \ {table} : index_names'[n] = index_names[n]
    BY <1>3, <1>4
  <1>9. OidInv'
    BY <1>1, <1>4, <1>6 DEF OidInv
  <1>10. /\ DOMAIN index_names' = DOMAIN table_names'
         /\ \A n \in DOMAIN table_names' :
               table_names'[n] \in DOMAIN tables' /\ tables'[table_names'[n]].name = n
         /\ \A x \in DOMAIN tables' :
               x < next_table_oid' /\ table_names'[tables'[x].name] = x
    BY <1>4, <1>8 DEF NamesAgree
  <1>11. ASSUME NEW n \in DOMAIN index_names', NEW i \in DOMAIN index_names'[n]
         PROVE  index_names'[n][i] \in DOMAIN indexes' /\ indexes'[index_names'[n][i]].name = i
    <2>1. CASE n = table /\ i = index
      BY <1>5, <1>6, <1>7, <1>8, <2>1
    <2>2. CASE ~(n = table /\ i = index)
      <3>1. n \in DOMAIN index_names /\ i \in DOMAIN index_names[n]
            /\ index_names'[n][i] = index_names[n][i]
        BY <1>7, <1>8, <2>2
      <3> QED
        BY <1>6, <3>1 DEF NamesAgree
    <2> QED
      BY <2>1, <2>2
  <1>12. \A n \in DOMAIN index_names : o \notin Range(index_names[n])
    BY <1>5 DEF NamesAgree, Range
  <1>13. ASSUME NEW x \in DOMAIN indexes'
         PROVE  /\ x < next_index_oid'
                /\ \E n \in DOMAIN index_names' :
                      /\ x \in Range(index_names'[n])
                      /\ \A m \in DOMAIN index_names' \ {n} : x \notin Range(index_names'[m])
    <2>1. CASE x = o
      <3>1. x < next_index_oid'
        BY <1>4, <2>1
      <3>2. table \in DOMAIN index_names' /\ x \in Range(index_names'[table])
        BY <1>3, <1>7, <1>8, <2>1
      <3>3. \A m \in DOMAIN index_names' \ {table} : x \notin Range(index_names'[m])
        BY <1>8, <1>12, <2>1
      <3> QED
        BY <3>1, <3>2, <3>3
    <2>2. CASE x # o
      <3>1. x \in DOMAIN indexes /\ x \in Nat /\ x < o
        BY <1>1, <1>6, <2>2 DEF NamesAgree, OidInv
      <3>2. PICK n \in DOMAIN index_names :
                /\ x \in Range(index_names[n])
                /\ \A m \in DOMAIN index_names \ {n} : x \notin Range(index_names[m])
        BY <3>1 DEF NamesAgree
      <3>3. \A m \in DOMAIN index_names :
               x \in Range(index_names'[m]) <=> x \in Range(index_names[m])
        BY <1>7, <1>8, <2>2
      <3>4. x < next_index_oid'
        BY <1>4, <3>1
      <3> QED
        BY <1>8, <3>2, <3>3, <3>4
    <2> QED
      BY <2>1, <2>2
  <1> QED
    BY <1>9, <1>10, <1>11, <1>13 DEF NamesAgree

LEMMA NextIInv == ASSUME IInv, [Next]_vars PROVE IInv'
  <1>1. ASSUME UNCHANGED catalog PROVE IInv'
    BY <1>1 DEF catalog, IInv, OidInv, NamesAgree
  <1>2. CASE UNCHANGED vars
    BY <1>1, <1>2 DEF vars
  <1>3. ASSUME NEW name \in TableNames, NEW schema \in Schemas, CreateTable(name, schema)
        PROVE  IInv'
    BY <1>3, CreateTableKeeps
  <1>4. ASSUME NEW name \in TableNames, CreateTableFails(name) PROVE IInv'
    BY <1>4, NamesStay
  <1>5. ASSUME NEW name, NEW row, InsertRow(name, row) PROVE IInv'
    BY <1>5, NamesStay
  <1>6. ASSUME NEW index, NEW table, NEW key, CreateIndex(index, table, key) PROVE IInv'
    BY <1>6, CreateIndexKeeps
  <1>7. ASSUME NEW index, NEW table, NEW key, CreateIndexPanics(index, table, key) PROVE IInv'
    BY <1>1, <1>7 DEF CreateIndexPanics
  <1>8. ASSUME NEW index, NEW table, CreateIndexFails(index, table) PROVE IInv'
    BY <1>1, <1>8 DEF CreateIndexFails, vars
  <1> QED
    BY <1>2, <1>3, <1>4, <1>5, <1>6, <1>7, <1>8 DEF Next

(***************************************************************************)
(* A name leads to the table or index created under it, every table and    *)
(* every index is found by exactly one name, and the next oids are new,    *)
(* however calls of Catalog::create_table and create_index failed before   *)
(* (catalog.rs:211, 279).                                                  *)
(***************************************************************************)
THEOREM NamesAgreeCorrect == Spec => []NamesAgree
  <1>1. Init => IInv
    BY InitIInv
  <1>2. IInv /\ [Next]_vars => IInv'
    BY NextIInv
  <1>3. IInv => NamesAgree
    BY DEF IInv
  <1> QED
    BY <1>1, <1>2, <1>3, PTL DEF Spec

=============================================================================
