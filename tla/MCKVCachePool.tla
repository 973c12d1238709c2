--------------------------- MODULE MCKVCachePool ----------------------------
\* Model-checking instance of KVCachePool: two KV cache groups, with one and
\* two tokens a block, and a request whose third save is of another prompt.
EXTENDS KVCachePool

CONSTANTS l1, l2

MCBlockSizes == <<1, 2>>
MCRange(a, b) == [from |-> a, to |-> b]
MCSaveInput  == {<<MCRange(0, 2), l1>>, <<MCRange(2, 4), l1>>, <<MCRange(2, 4), l2>>}
MCLoadRange  == {MCRange(0, 2)}

=============================================================================
