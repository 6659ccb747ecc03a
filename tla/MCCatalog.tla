----------------------------- MODULE MCCatalog ------------------------------
(***************************************************************************)
(* Two tables, one with the schema of test_btree_index.  On a page of 48   *)
(* bytes two keys of an Int and a BigInt fit, which are as many as split   *)
(* the leaf, and three strings of up to two characters, but not of three.  *)
(* The first column takes the largest Int as well, which has no next().    *)
(***************************************************************************)
EXTENDS Catalog

TestSchema == SchemaFrom(<<[name |-> "col_a", ty |-> "Int"], [name |-> "col_b", ty |-> "Varchar"],
                           [name |-> "col_c", ty |-> "BigInt"]>>)
SmallSchema == SchemaFrom(<<[name |-> "col_a", ty |-> "Int"]>>)

MCSchemas == {TestSchema, SmallSchema}
MCKeySets == {{"col_b"}, {"col_a", "col_c"}}

MCRowsOf == [s \in MCSchemas |->
                IF s = TestSchema
                THEN {<<-1, <<1, 1, 1>>, 5>>, <<-1, <<>>, 4>>, <<MaxOf("Int"), <<1, 1, 0>>, 5>>}
                ELSE {<<1>>}]
=============================================================================
