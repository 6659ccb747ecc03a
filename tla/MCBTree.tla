------------------------------ MODULE MCBTree -------------------------------
(***************************************************************************)
(* A node is split when it has three slots.                                *)
(***************************************************************************)
EXTENDS BTree

CONSTANTS MaxKey, MaxPage   \* bounds

\* Keys of one integer column, and ones up to the largest of the type.
MCTypes == <<"BigInt">>
MCKeys == {<<k>> : k \in 1..MaxKey}
MCLargestKeys == {<<MaxOf("BigInt") - k>> : k \in 0..(MaxKey - 1)}
MCIntTypes == <<"Int">>

\* Keys of two columns.
MCPairTypes == <<"Int", "BigInt">>
MCPairKeys == {<<a, b>> : a \in 1..2, b \in 1..MaxKey}

\* Keys that begin with a string; the integer behind it is the same in all.
MCStringTypes == <<"Varchar", "BigInt">>
MCStringKeys == {<<<<1, k>>, 0>> : k \in 0..(MaxKey - 1)}

MCPageIds == 0..MaxPage
=============================================================================
