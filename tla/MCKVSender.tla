----------------------------- MODULE MCKVSender -----------------------------
\* Model-checking instances of KVSender: symmetry of the transfer ids.
EXTENDS KVSender, TLC

Symmetry == Permutations(Req)

=============================================================================
