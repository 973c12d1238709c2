---------------------------- MODULE MCPDTransfer ----------------------------
\* Model-checking instances of PDTransfer: symmetry of the transfer ids.
EXTENDS PDTransfer, TLC

Symmetry == Permutations(Req)

=============================================================================
