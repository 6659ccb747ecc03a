------------------------------ MODULE MCTuple -------------------------------
(***************************************************************************)
(* Integers at both ends of their types, and strings of up to two          *)
(* characters, one of them the last one that has one byte.                 *)
(***************************************************************************)
EXTENDS TupleLife

MCColumnValues == [TinyInt |-> {-2, 1}, Bool |-> BOOLEAN, Int |-> {-1, 127},
                   BigInt |-> {-32768}, Varchar |-> {<<>>, <<1>>, <<0, 1>>, <<1, 1>>}]

MCRest == {<<>>, <<3, 1>>}
=============================================================================
