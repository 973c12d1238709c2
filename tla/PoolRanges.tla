----------------------------- MODULE PoolRanges -----------------------------
(***************************************************************************)
(* Token ranges and the KV blocks that hold them, as the Store pool, the   *)
(* worker and the scheduler compute them.  A KV cache group g cuts the     *)
(* token axis into blocks of BlockSizes[g] tokens; <<g, i>> stands for the *)
(* i-th block (from 0) of a request's table in group g.                    *)
(***************************************************************************)
EXTENDS Integers, Sequences, FiniteSetsExt

CONSTANT BlockSizes   \* g |-> tokens per block of KV cache group g

ASSUME BlockSizesAssumption == BlockSizes \in Seq(Nat \ {0})

Group == DOMAIN BlockSizes

cdiv(a, b) == (a + b - 1) \div b

\* ids[cdiv(from) : cdiv(to)] of every group.
RangeBlocks(from, to) ==
  UNION {{<<g, i>> : i \in cdiv(from, BlockSizes[g]) .. cdiv(to, BlockSizes[g]) - 1} :
           g \in Group}

\* The first token of a block.
StartOf(b) == b[2] * BlockSizes[b[1]]

\* The contiguous prefix that can be used when a GET of [from, to) failed for
\* some blocks: up to the first failed block of any group.
LoadedPrefix(from, to, bad) ==
  Max({from, Min({StartOf(b) : b \in bad \cap RangeBlocks(from, to)} \cup {to})})

\* Two token ranges that overlap or touch.
Joined(a, b) == ~(b.to < a.from \/ a.to < b.from)

=============================================================================
