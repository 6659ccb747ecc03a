---------------------------- MODULE MCTableList -----------------------------
(***************************************************************************)
(* A page has room for a header and two small tuples.                      *)
(***************************************************************************)
EXTENDS TableList

CONSTANT MaxTuples   \* bound: inserts that succeed

MCValues == 1..MaxTuples
MCPageIds == 0..3
=============================================================================
