---------------------------- MODULE MCHashTable -----------------------------
\* The hash table for TLC: a key is its own hash, zero bytes are the pair <<0, 0>>.
EXTENDS HashTable

CONSTANTS MaxKey, MaxPage   \* bounds

MCKeys == 0..MaxKey
MCHash(k) == k
MCZeroPair == <<0, 0>>
MCPageIds == 0..MaxPage
=============================================================================
