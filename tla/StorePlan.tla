----------------------------- MODULE StorePlan -----------------------------
(***************************************************************************)
(* Which blocks of one prompt go where when the model has several KV cache *)
(* groups: what each TP rank saves to the Store, which prefix a lookup     *)
(* finds, which blocks a load asks for, and which are left to P.           *)
(*                                                                         *)
(* Ranks save on their own, a PUT may fail for some keys, and the Store    *)
(* may evict; then one D rank looks up, loads and pulls.                   *)
(*                                                                         *)
(* vLLM's per-group cache managers are modelled by what they promise: the  *)
(* longest aligned prefix whose blocks, or whose last blocks for a sliding *)
(* window, are all present.  No drafting (use_eagle is FALSE), one PP, PCP *)
(* and DCP rank, and a request hash per block of every group.              *)
(***************************************************************************)
EXTENDS PoolRanges, FiniteSets

CONSTANTS
  Windows,   \* g |-> sliding window of g in tokens, 0 for full attention
  Lcm,       \* scheduler block size: the block size, or a common multiple if they differ
  Prompt,    \* bound: tokens of the prompt
  TPSize, NumKVHead,
  MaxLost,   \* bound: keys lost to failed PUTs and to evictions
  MaxFailed  \* bound: blocks for which a GET fails though the key is there

ASSUME PlanAssumption ==
  /\ Windows \in [Group -> Nat] /\ Lcm \in Nat \ {0} /\ Prompt \in Nat
  /\ \A g \in Group : Lcm % BlockSizes[g] = 0
  /\ \A g \in Group : (\A h \in Group : BlockSizes[h] = BlockSizes[g]) => Lcm = BlockSizes[g]
  /\ TPSize \in Nat \ {0} /\ NumKVHead \in Nat \ {0}
  /\ NumKVHead < TPSize => TPSize % NumKVHead = 0

VARIABLES
  store,  \* keys in the Store
  saved,  \* rank |-> tokens its saves have reached
  lost,   \* keys that were lost
  plan    \* of the D rank: stage, tokens, blocks

planVars == <<store, saved, lost, plan>>

Rank == 0 .. TPSize - 1
Aligned(n) == n % Lcm = 0
Floor(n) == (n \div Lcm) * Lcm
Spans == {n \in 0 .. Prompt : Aligned(n)}

-----------------------------------------------------------------------------
(* Keys. *)

\* Ranks that hold the same KV heads share keys and stripe their PUTs.
PutStep == IF NumKVHead < TPSize THEN TPSize \div NumKVHead ELSE 1
KeyRank(rank) == rank \div PutStep
KeyRanks == 0 .. (IF NumKVHead < TPSize THEN NumKVHead ELSE TPSize) - 1

\* A key is <<group, chunk, key rank>>.
KeysOf(b, ranks) == {<<b[1], b[2], k>> : k \in ranks}

-----------------------------------------------------------------------------
(* The coordinator. *)

\* Blocks a sliding window of g needs before the next token.
WindowBlocks(g) == cdiv(Windows[g] - 1, BlockSizes[g])

\* Chunks of g that a hit of n tokens populates.
Populated(g, n) ==
  LET chunks == n \div BlockSizes[g]
  IN IF Windows[g] = 0 THEN 0 .. chunks - 1
     ELSE Max({0, chunks - WindowBlocks(g)}) .. chunks - 1

\* Groups with the same spec are looked up as one; full attention first.
SpecOf(g) == <<BlockSizes[g], Windows[g]>>
AttentionGroups == {{h \in Group : SpecOf(h) = SpecOf(g)} : g \in Group}
IsFull(ag) == \A g \in ag : Windows[g] = 0
Order ==
  LET ahead(a, b) == IF IsFull(a) = IsFull(b)
                     THEN Min(a) < Min(b) ELSE IsFull(a)
  IN CHOOSE s \in [1 .. Cardinality(AttentionGroups) -> AttentionGroups] :
       \A i, j \in DOMAIN s : i < j => ahead(s[i], s[j])

\* Their manager's find_longest_cache_hit, in tokens.  `have` is a set of
\* blocks, and a hash is cached when every one of the groups has its block.
AttentionGroupHit(ag, limit, align, have) ==
  Max({n \in 0 .. limit : n % align = 0 /\ \A g \in ag :
                            /\ n % BlockSizes[g] = 0
                            /\ \A i \in Populated(g, n) : <<g, i>> \in have} \cup {0})

\* One pass over the attention groups, each within the last one's result.
Pass(limit, have) ==
  LET after[i \in 0 .. Len(Order)] ==
        IF i = 0 THEN limit ELSE AttentionGroupHit(Order[i], after[i - 1], Lcm, have)
  IN after[Len(Order)]

\* Mutant: one pass is taken to be enough.
HitLengthOnce(limit, have) == Pass(limit, have)

\* _find_hit_blocks: passes until nothing changes; one pass is enough for
\* full attention and one other spec.
HitLength(limit, have) ==
  LET simple == Len(Order) = 2 /\ IsFull(Order[1])
      converged[n \in 0 .. limit] ==
        LET m == Pass(n, have) IN IF m >= n \/ simple THEN m ELSE converged[m]
  IN IF Len(Order) = 1
     THEN AttentionGroupHit(Order[1], limit, BlockSizes[Min(Order[1])], have)
     ELSE converged[limit]

LoadMask(g, tokens) == Populated(g, tokens)

\* Chunks that some hit at a multiple of Lcm populates: the template of one
\* segment, repeated.
StoreMask(g, tokens) ==
  LET uniform == \A h \in Group : Windows[h] = 0 \/ BlockSizes[h] = Lcm
      perSegment == Lcm \div BlockSizes[g]
  IN IF uniform THEN 0 .. tokens \div BlockSizes[g] - 1
     ELSE {i \in 0 .. tokens \div BlockSizes[g] - 1 : i % perSegment \in Populated(g, Lcm)}

-----------------------------------------------------------------------------
(* The pool. *)

\* _process_tokens with the mask of _store_masks, which is relative to `from`.
RelativeMask(g, from, to) ==
  LET first == cdiv(from, BlockSizes[g])
      mask == {i - first : i \in {j \in StoreMask(g, to) : j >= first}}
  IN {i \in first .. cdiv(to, BlockSizes[g]) - 1 : i - first \in mask}

\* Mutant: stripes counted from the start of the save.
SaveKeysRelative(rank, from, to) ==
  UNION {LET phase == (rank + g - 1) % PutStep
             first == cdiv(from, BlockSizes[g])
         IN {<<g, i, KeyRank(rank)>> :
               i \in {j \in RelativeMask(g, from, to) : (j - first) % PutStep = phase}} :
           g \in Group}

\* The keys a rank PUTs for a save of [from, to).
SaveKeys(rank, from, to) ==
  UNION {LET phase == (rank + g - 1) % PutStep
         IN {<<g, i, KeyRank(rank)>> : i \in {j \in RelativeMask(g, from, to) : j % PutStep = phase}} :
           g \in Group}

\* Blocks that every rank has in the Store.
Present == {b \in {<<k[1], k[2]>> : k \in store} : KeysOf(b, KeyRanks) \subseteq store}

Lookup(tokens) == IF tokens < Lcm THEN 0 ELSE HitLength(tokens, Present)

\* The blocks a load of [from, to) asks the Store for.
LoadBlocks(from, to) ==
  {b \in RangeBlocks(from, to) : b[2] \in LoadMask(b[1], to)}

-----------------------------------------------------------------------------
(* The D rank. *)

\* Mutant: the suffix starts behind the hit, whatever the GET brought.
SuffixAfterHit(p, actual) ==
  UNION {LET bs == BlockSizes[g]
         IN {<<g, i>> : i \in cdiv(p.hit, bs) .. cdiv(Prompt, bs) - 1} : g \in Group}

\* _suffix_blocks: external_block_ids begin at the local prefix.
SuffixBlocks(p, actual) ==
  UNION {LET bs == BlockSizes[g]
             end == cdiv(Prompt, bs)
             from == p.local \div bs + cdiv(actual - p.local, bs)
             window == IF Windows[g] = 0 THEN end ELSE cdiv(Windows[g], bs) + 1
         IN {<<g, i>> : i \in Max({from, end - window}) .. end - 1} : g \in Group}

\* Blocks past the local prefix that attention reads for the next token.
Needed(p) ==
  UNION {LET bs == BlockSizes[g]
             first == IF Windows[g] = 0 THEN p.local
                      ELSE Max({p.local, Prompt - Windows[g] + 1})
         IN {<<g, i>> : i \in first \div bs .. cdiv(Prompt, bs) - 1} : g \in Group}

-----------------------------------------------------------------------------
PlanInit ==
  /\ store = {} /\ saved = [k \in Rank |-> 0] /\ lost = {}
  /\ plan = [stage |-> "none", rank |-> 0, local |-> 0, hit |-> 0, actual |-> 0,
             asked |-> {}, failed |-> {}, suffix |-> {}]

\* One save of a rank, incremental.  Some of its PUTs may fail.
Save(rank) ==
  \E to \in Spans :
    /\ to > saved[rank]
    /\ LET keys == SaveKeys(rank, saved[rank], to)
       IN \E miss \in SUBSET keys :
            /\ Cardinality(lost \cup miss) <= MaxLost
            /\ store' = store \cup (keys \ miss)
            /\ lost' = lost \cup miss
    /\ saved' = [saved EXCEPT ![rank] = to]
    /\ UNCHANGED plan

Evict ==
  \E k \in store :
    /\ Cardinality(lost \cup {k}) <= MaxLost
    /\ store' = store \ {k} /\ lost' = lost \cup {k}
    /\ UNCHANGED <<saved, plan>>

\* get_num_new_matched_tokens for a request with `local` computed tokens.
Match(rank) ==
  /\ plan.stage = "none"
  /\ \E local \in Spans :
       LET hit == Lookup(Floor(Prompt))
       IN plan' = [plan EXCEPT !.rank = rank, !.local = local, !.hit = Max({hit, local}),
                               !.actual = local,
                               !.stage = IF hit > local THEN "load" ELSE "pull"]
  /\ UNCHANGED <<store, saved, lost>>

\* _load: what the Store lost since the lookup fails, other GETs may.
Load ==
  /\ plan.stage = "load"
  /\ LET asked == LoadBlocks(plan.local, plan.hit)
         gone == {b \in asked : <<b[1], b[2], KeyRank(plan.rank)>> \notin store}
     IN \E bad \in SUBSET asked :
          /\ Cardinality(bad) <= MaxFailed
          /\ plan' = [plan EXCEPT !.stage = "pull", !.asked = asked, !.failed = gone \cup bad,
                                  !.actual = LoadedPrefix(plan.local, plan.hit, gone \cup bad)]
  /\ UNCHANGED <<store, saved, lost>>

\* _start_transfer.
Pull ==
  /\ plan.stage = "pull"
  /\ plan' = [plan EXCEPT !.stage = "done", !.suffix = SuffixBlocks(plan, plan.actual)]
  /\ UNCHANGED <<store, saved, lost>>

PlanNext == (\E rank \in Rank : Save(rank) \/ Match(rank)) \/ Evict \/ Load \/ Pull

PlanSpec == PlanInit /\ [][PlanNext]_planVars

-----------------------------------------------------------------------------
(* Properties. *)

\* A lookup finds the longest prefix that can be loaded: for every rank and
\* group the blocks that a load of it asks for are in the Store, and no
\* longer aligned prefix has that.  With two window sizes one pass over the
\* groups does not find it.
HitIsLongest ==
  \A tokens \in Spans :
    Lookup(tokens) =
      Max({n \in Spans : n <= tokens /\ \A g \in Group, k \in KeyRanks :
                           \A i \in LoadMask(g, n) : <<g, i, k>> \in store})

\* What all ranks have saved is found, at every length, if nothing of it was
\* lost: the stripes of the ranks leave no chunk out, however their saves
\* are cut, and the masks store all that a shorter hit would load.
SavedIsFound ==
  LET done == Min({saved[rank] : rank \in Rank})
  IN lost = {} => \A tokens \in Spans : tokens <= done => Lookup(tokens) = tokens

\* What D needs for its next token and does not have from the local prefix
\* or from a GET that succeeded is asked from P, in every group, wherever
\* the first failed block cuts the other groups' blocks.  The same blocks
\* are reported as load errors when the transfer fails.
SuffixCovers ==
  plan.stage = "done" => Needed(plan) \subseteq plan.suffix \cup (plan.asked \ plan.failed)
=============================================================================
