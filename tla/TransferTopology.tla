-------------------------- MODULE TransferTopology --------------------------
(***************************************************************************)
(* Which tensor-parallel ranks of the prefill engine (P) and of the decode *)
(* engine (D) exchange KV, as _NPUTransferTopology.handshake_target_ranks  *)
(* computes it on either side from its own rank and the peer's TP size.    *)
(*                                                                         *)
(* Both engines run the same code: D asks it for the P ranks to pull from, *)
(* P asks it whether a D rank that asks for KV is one of its own.          *)
(***************************************************************************)
EXTENDS Integers

CONSTANTS PTp,      \* tensor-parallel size of the prefill engine
          DTp       \* tensor-parallel size of the decode engine

ASSUME TpAssumption == PTp \in Nat \ {0} /\ DTp \in Nat \ {0}

PRank == 0 .. PTp - 1
DRank == 0 .. DTp - 1

(***************************************************************************)
(* handshake_target_ranks raises ValueError unless one size divides the    *)
(* other.                                                                  *)
(***************************************************************************)
RatioOk(mine, other) ==
  IF mine >= other THEN mine % other = 0 ELSE other % mine = 0

TargetRanks(rank, mine, other) ==
  IF mine >= other
    THEN {rank \div (mine \div other)}
    ELSE LET ratio == other \div mine
         IN  {rank * ratio + offset : offset \in 0 .. ratio - 1}

\* The P ranks a D rank pulls from, and the D ranks a P rank serves.
SourcesOf(d) == TargetRanks(d, DTp, PTp)
ServedBy(p)  == TargetRanks(p, PTp, DTp)

=============================================================================
