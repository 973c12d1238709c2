-------------------------- MODULE PoolRangesProofs --------------------------
(***************************************************************************)
(* What the pool, the worker and the scheduler take for granted of token   *)
(* ranges: how they nest and join, where a block begins, and how far a     *)
(* load of which some blocks failed can be used.                           *)
(***************************************************************************)
EXTENDS PoolRanges, SequenceTheorems, FiniteSetTheorems, TLAPS

-----------------------------------------------------------------------------
(* Numbers. *)

\* A set of naturals has a least element, and Min chooses it.
LEMMA LeastNat ==
  ASSUME NEW S, S \subseteq Nat, S # {}
  PROVE  Min(S) \in S /\ \A y \in S : Min(S) <= y
<1> DEFINE R     == StrictSubsetOrdering(Nat)
           Below == {1 .. x : x \in S}
<1>1. Below \subseteq FiniteSubsetsOf(Nat) /\ Below # {}
  <2>1. \A x \in S : IsFiniteSet(1 .. x) /\ 1 .. x \subseteq Nat
    BY FS_Interval
  <2> QED BY <2>1 DEF FiniteSubsetsOf
<1>2. PICK B \in Below : \A C \in Below : ~(<<C, B>> \in R)
  <2> HIDE DEF R, Below
  <2>1. IsWellFoundedOn(R, FiniteSubsetsOf(Nat))
    BY FS_StrictSubsetOrderingWellFounded DEF R
  <2> QED BY <1>1, <2>1, WFMin
<1>3. PICK x \in S : B = 1 .. x
  OBVIOUS
<1>4. ASSUME NEW y \in S
      PROVE  x <= y
  <2> SUFFICES ASSUME y < x PROVE FALSE
    OBVIOUS
  <2>1. 1 .. y \in Below /\ 1 .. y \subseteq 1 .. x /\ x \in 1 .. x /\ x \notin 1 .. y
    OBVIOUS
  <2>2. 1 .. y # 1 .. x
    BY <2>1
  <2>3. <<1 .. y, 1 .. x>> \in R
    BY <2>1, <2>2 DEF StrictSubsetOrdering
  <2> QED BY <1>2, <1>3, <2>1, <2>3
<1> QED BY <1>4 DEF Min

\* The later of two positions.
LEMMA MaxOfTwo ==
  ASSUME NEW a \in Int, NEW b \in Int
  PROVE  Max({a, b}) = IF a >= b THEN a ELSE b
BY DEF Max

\* The earlier of two positions.
LEMMA MinOfTwo ==
  ASSUME NEW a \in Int, NEW b \in Int
  PROVE  Min({a, b}) = IF a <= b THEN a ELSE b
BY DEF Min

\* Rounding up to blocks keeps the order.
LEMMA cdivMonotonic ==
  ASSUME NEW a \in Int, NEW b \in Int, NEW n \in Nat \ {0}, a <= b
  PROVE  cdiv(a, n) \in Int /\ cdiv(b, n) \in Int /\ cdiv(a, n) <= cdiv(b, n)
BY DEF cdiv

-----------------------------------------------------------------------------
(* Ranges. *)

\* A block that begins in a range begins before its end.
LEMMA cdivBelow ==
  ASSUME NEW t \in Nat, NEW n \in Nat \ {0}, NEW i \in Int, i <= cdiv(t, n) - 1
  PROVE  i * n < t
<1> DEFINE q == cdiv(t, n)
<1>1. q \in Int /\ q * n <= t + n - 1
  BY DEF cdiv
<1> HIDE DEF q
<1>2. i + 1 <= q
  BY <1>1 DEF q
<1>3. (i + 1) * n <= q * n
  BY <1>1, <1>2
<1>4. (i + 1) * n = i * n + n
  OBVIOUS
<1> QED BY <1>1, <1>3, <1>4

\* A smaller range has no other blocks.
LEMMA RangesNested ==
  ASSUME NEW a \in Int, NEW b \in Int, NEW c \in Int, NEW d \in Int, c <= a, b <= d
  PROVE  RangeBlocks(a, b) \subseteq RangeBlocks(c, d)
<1> SUFFICES ASSUME NEW g \in Group,
                    NEW i \in cdiv(a, BlockSizes[g]) .. cdiv(b, BlockSizes[g]) - 1
             PROVE  <<g, i>> \in RangeBlocks(c, d)
  BY DEF RangeBlocks
<1>1. BlockSizes[g] \in Nat \ {0}
  BY BlockSizesAssumption, ElementOfSeq, LenProperties DEF Group
<1>2. /\ cdiv(c, BlockSizes[g]) \in Int /\ cdiv(c, BlockSizes[g]) <= cdiv(a, BlockSizes[g])
      /\ cdiv(d, BlockSizes[g]) \in Int /\ cdiv(b, BlockSizes[g]) <= cdiv(d, BlockSizes[g])
      /\ cdiv(a, BlockSizes[g]) \in Int /\ cdiv(b, BlockSizes[g]) \in Int
  BY <1>1, cdivMonotonic
<1>3. i \in cdiv(c, BlockSizes[g]) .. cdiv(d, BlockSizes[g]) - 1
  BY <1>2
<1> QED BY <1>3 DEF RangeBlocks

\* Ranges that touch or overlap, and of which the second ends last, have the
\* blocks of their join.
LEMMA RangesJoin ==
  ASSUME NEW a \in Int, NEW b \in Int, NEW c \in Int, NEW d \in Int, c <= b, b <= d,
         NEW low \in {a, c}, low <= a, low <= c
  PROVE  RangeBlocks(low, d) = RangeBlocks(a, b) \cup RangeBlocks(c, d)
<1>1. low = IF a <= c THEN a ELSE c
  OBVIOUS
<1>2. RangeBlocks(a, b) \subseteq RangeBlocks(low, d) /\ RangeBlocks(c, d) \subseteq RangeBlocks(low, d)
  BY <1>1, RangesNested
<1>3. RangeBlocks(low, d) \subseteq RangeBlocks(a, b) \cup RangeBlocks(c, d)
  <2> SUFFICES ASSUME NEW g \in Group,
                      NEW i \in cdiv(low, BlockSizes[g]) .. cdiv(d, BlockSizes[g]) - 1
               PROVE  <<g, i>> \in RangeBlocks(a, b) \cup RangeBlocks(c, d)
    BY DEF RangeBlocks
  <2>1. BlockSizes[g] \in Nat \ {0}
    BY BlockSizesAssumption, ElementOfSeq, LenProperties DEF Group
  <2>2. /\ cdiv(a, BlockSizes[g]) \in Int /\ cdiv(b, BlockSizes[g]) \in Int
        /\ cdiv(c, BlockSizes[g]) \in Int /\ cdiv(d, BlockSizes[g]) \in Int
        /\ cdiv(c, BlockSizes[g]) <= cdiv(b, BlockSizes[g])
    <3>1. /\ cdiv(c, BlockSizes[g]) \in Int /\ cdiv(b, BlockSizes[g]) \in Int
          /\ cdiv(c, BlockSizes[g]) <= cdiv(b, BlockSizes[g])
      BY <2>1, cdivMonotonic
    <3>2. a <= a /\ d <= d
      OBVIOUS
    <3>3. cdiv(a, BlockSizes[g]) \in Int /\ cdiv(d, BlockSizes[g]) \in Int
      BY <2>1, <3>2, cdivMonotonic
    <3> QED BY <3>1, <3>3
  <2>3. \/ i \in cdiv(c, BlockSizes[g]) .. cdiv(d, BlockSizes[g]) - 1
        \/ i \in cdiv(a, BlockSizes[g]) .. cdiv(b, BlockSizes[g]) - 1
    BY <1>1, <2>2
  <2> QED BY <2>3 DEF RangeBlocks
<1> QED BY <1>2, <1>3

LEMMA EmptyRange ==
  ASSUME NEW a \in Int
  PROVE  RangeBlocks(a, a) = {}
<1>1. \A g \in Group : cdiv(a, BlockSizes[g]) .. cdiv(a, BlockSizes[g]) - 1 = {}
  <2> SUFFICES ASSUME NEW g \in Group
               PROVE  cdiv(a, BlockSizes[g]) .. cdiv(a, BlockSizes[g]) - 1 = {}
    OBVIOUS
  <2>1. BlockSizes[g] \in Nat \ {0}
    BY BlockSizesAssumption, ElementOfSeq, LenProperties DEF Group
  <2>2. cdiv(a, BlockSizes[g]) \in Int
    BY <2>1, cdivMonotonic
  <2> QED BY <2>2
<1> QED BY <1>1 DEF RangeBlocks

\* The prefix that can be used is not shorter than what was there before.
LEMMA LoadedPrefixAfterFrom ==
  ASSUME NEW from \in Nat, NEW to \in Nat, NEW bad
  PROVE  LoadedPrefix(from, to, bad) \in Nat /\ LoadedPrefix(from, to, bad) >= from
<1> DEFINE starts == {StartOf(b) : b \in bad \cap RangeBlocks(from, to)} \cup {to}
<1>1. starts \subseteq Nat
  <2> SUFFICES ASSUME NEW g \in Group,
                      NEW i \in cdiv(from, BlockSizes[g]) .. cdiv(to, BlockSizes[g]) - 1
               PROVE  StartOf(<<g, i>>) \in Nat
    BY DEF RangeBlocks
  <2>1. BlockSizes[g] \in Nat \ {0}
    BY BlockSizesAssumption, ElementOfSeq, LenProperties DEF Group
  <2>2. cdiv(from, BlockSizes[g]) \in Nat
    BY <2>1 DEF cdiv
  <2>3. i \in Nat
    BY <2>1, <2>2, cdivMonotonic
  <2> QED BY <2>1, <2>3 DEF StartOf
<1>2. Min(starts) \in Nat
  <2> HIDE DEF starts
  <2>1. starts # {}
    BY DEF starts
  <2> QED BY <1>1, <2>1, LeastNat
<1>3. LoadedPrefix(from, to, bad) = Max({from, Min(starts)})
  BY DEF LoadedPrefix
<1> HIDE DEF starts
<1> QED BY <1>2, <1>3, MaxOfTwo

\* The prefix ends in the range, holds no failed block, and is all of the range
\* if nothing failed.
LEMMA PrefixIsGood ==
  ASSUME NEW from \in Nat, NEW to \in Nat, from <= to, NEW bad
  PROVE  LET tokens == LoadedPrefix(from, to, bad)
         IN  /\ tokens \in Nat /\ tokens <= to
             /\ RangeBlocks(from, tokens) \subseteq RangeBlocks(from, to) \ bad
             /\ bad = {} => tokens = to
<1> DEFINE failed == bad \cap RangeBlocks(from, to)
           starts == {StartOf(b) : b \in failed} \cup {to}
           least  == Min(starts)
           tokens == LoadedPrefix(from, to, bad)
<1>1. starts \subseteq Nat
  <2> SUFFICES ASSUME NEW g \in Group,
                      NEW i \in cdiv(from, BlockSizes[g]) .. cdiv(to, BlockSizes[g]) - 1
               PROVE  StartOf(<<g, i>>) \in Nat
    BY DEF RangeBlocks
  <2>1. BlockSizes[g] \in Nat \ {0}
    BY BlockSizesAssumption, ElementOfSeq, LenProperties DEF Group
  <2>2. cdiv(from, BlockSizes[g]) \in Nat
    BY <2>1 DEF cdiv
  <2>3. i \in Nat
    BY <2>1, <2>2, cdivMonotonic
  <2> QED BY <2>1, <2>3 DEF StartOf
<1>2. least \in starts /\ \A y \in starts : least <= y
  <2> HIDE DEF starts
  <2>1. starts # {}
    BY DEF starts
  <2> QED BY <1>1, <2>1, LeastNat
<1>3. to \in starts /\ \A b \in failed : StartOf(b) \in starts
  OBVIOUS
<1>4. tokens = Max({from, least})
  BY DEF LoadedPrefix
<1>5. bad = {} => least = to
  <2> SUFFICES ASSUME bad = {} PROVE least = to
    OBVIOUS
  <2>1. starts = {to}
    OBVIOUS
  <2> HIDE DEF starts
  <2> QED BY <1>2, <2>1
<1> HIDE DEF starts, tokens, failed
<1>6. least \in Nat /\ least <= to /\ \A b \in failed : least <= StartOf(b)
  BY <1>1, <1>2, <1>3
<1> HIDE DEF least
<1>7. tokens = IF from >= least THEN from ELSE least
  BY <1>4, <1>6, MaxOfTwo
<1>8. tokens \in Nat /\ tokens <= to /\ (bad = {} => tokens = to)
  BY <1>5, <1>6, <1>7
<1>9. RangeBlocks(from, tokens) \subseteq RangeBlocks(from, to)
  BY <1>8, RangesNested
<1>10. RangeBlocks(from, tokens) \cap bad = {}
  <2>1. CASE from >= least
    BY <1>7, <2>1, EmptyRange
  <2>2. CASE ~(from >= least)
    <3> SUFFICES ASSUME NEW g \in Group,
                        NEW i \in cdiv(from, BlockSizes[g]) .. cdiv(tokens, BlockSizes[g]) - 1,
                        <<g, i>> \in bad
                 PROVE  FALSE
      BY DEF RangeBlocks
    <3>1. BlockSizes[g] \in Nat \ {0}
      BY BlockSizesAssumption, ElementOfSeq, LenProperties DEF Group
    <3>2. /\ cdiv(from, BlockSizes[g]) \in Int /\ cdiv(tokens, BlockSizes[g]) \in Int
      <4>1. from \in Int /\ tokens \in Int /\ from <= from /\ tokens <= tokens
        BY <1>8
      <4> HIDE DEF tokens, failed, starts, least
      <4>2. cdiv(from, BlockSizes[g]) \in Int
        BY <3>1, <4>1, cdivMonotonic
      <4>3. cdiv(tokens, BlockSizes[g]) \in Int
        BY <3>1, <4>1, cdivMonotonic
      <4> QED BY <4>2, <4>3
    <3>3. i \in Int /\ i <= cdiv(tokens, BlockSizes[g]) - 1
      BY <3>2
    <3>4. i * BlockSizes[g] < tokens
      BY <1>8, <3>1, <3>3, cdivBelow
    <3>5. <<g, i>> \in RangeBlocks(from, tokens)
      BY DEF RangeBlocks
    <3>6. <<g, i>> \in failed
      BY <1>9, <3>5 DEF failed
    <3>7. least <= StartOf(<<g, i>>) /\ StartOf(<<g, i>>) = i * BlockSizes[g]
      BY <1>6, <3>6 DEF StartOf
    <3> QED BY <1>6, <1>7, <2>2, <3>1, <3>3, <3>4, <3>7
  <2> QED BY <2>1, <2>2
<1> QED BY <1>8, <1>9, <1>10 DEF tokens

=============================================================================
