-------------------------- MODULE StorePlanProofs --------------------------
(***************************************************************************)
(* Proofs about StorePlan, for any KV cache groups and windows, any ranks, *)
(* any prompt, and any keys and blocks lost.                               *)
(*                                                                         *)
(* The recursive functions of the coordinator, the sorted attention groups *)
(* and the convergence of its passes are dealt with by the least number    *)
(* principle for sets (LeastNat): the set of the counterexamples has a     *)
(* least element, which the next smaller case refutes.                     *)
(***************************************************************************)
EXTENDS StorePlan, PoolRangesProofs

-----------------------------------------------------------------------------
(* Quotients and remainders. *)

LEMMA DivMod ==
  ASSUME NEW a \in Int, NEW b \in Nat \ {0}
  PROVE  /\ a \div b \in Int /\ a % b \in 0 .. b - 1
         /\ a = b * (a \div b) + (a % b)
OBVIOUS

\* The quotient and the remainder of a division are unique.
LEMMA Quotient ==
  ASSUME NEW b \in Nat \ {0}, NEW q \in Int, NEW r \in 0 .. b - 1
  PROVE  (b * q + r) \div b = q /\ (b * q + r) % b = r
<1> DEFINE a == b * q + r
           p == a \div b
           s == a % b
<1>1. a \in Int /\ p \in Int /\ s \in 0 .. b - 1 /\ b * p + s = b * q + r
  BY DivMod
<1> HIDE DEF a, p, s
<1>2. p = q
  <2>1. b * (p - q) = r - s
    BY <1>1
  <2>2. ~(p - q >= 1)
    <3>1. SUFFICES ASSUME p - q >= 1 PROVE FALSE
      OBVIOUS
    <3>2. b * (p - q) >= b
      BY <1>1, <3>1
    <3> QED BY <2>1, <3>2, <1>1
  <2>3. ~(p - q <= -1)
    <3>1. SUFFICES ASSUME p - q <= -1 PROVE FALSE
      OBVIOUS
    <3>2. b * (p - q) <= -b
      BY <1>1, <3>1
    <3> QED BY <2>1, <3>2, <1>1
  <2> QED BY <2>2, <2>3, <1>1
<1>3. s = r
  BY <1>1, <1>2
<1> QED BY <1>2, <1>3 DEF a, p, s

LEMMA QuotientExact ==
  ASSUME NEW b \in Nat \ {0}, NEW q \in Int
  PROVE  (b * q) \div b = q /\ (b * q) % b = 0
<1>1. 0 \in 0 .. b - 1
  OBVIOUS
<1>2. b * q \in Int /\ b * q + 0 = b * q
  OBVIOUS
<1> QED BY <1>1, <1>2, Quotient

\* A multiple of a multiple.
LEMMA Multiple ==
  ASSUME NEW n \in Int, NEW m \in Nat \ {0}, NEW b \in Nat \ {0}, n % m = 0, m % b = 0
  PROVE  n % b = 0 /\ n \div b = (n \div m) * (m \div b)
<1> DEFINE p == n \div m
           k == m \div b
           t == p * k
<1>1. n = m * p /\ p \in Int
  BY DivMod
<1>2. m = b * k /\ k \in Int
  BY DivMod
<1> HIDE DEF p, k
<1>3. n = (b * k) * p
  BY <1>1, <1>2
<1>4. (b * k) * p = b * t /\ t \in Int
  BY <1>1, <1>2
<1> HIDE DEF t
<1>5. (b * t) % b = 0 /\ (b * t) \div b = t
  BY <1>4, QuotientExact
<1>6. n % b = 0 /\ n \div b = t
  BY <1>3, <1>4, <1>5
<1> QED BY <1>6 DEF p, k, t

\* The order of multiples is the order of their quotients.
LEMMA MultipleLess ==
  ASSUME NEW b \in Nat \ {0}, NEW p \in Int, NEW q \in Int
  PROVE  p < q <=> b * p < b * q
<1>1. ASSUME NEW i \in Int, NEW j \in Int, i < j PROVE b * i < b * j
  <2>1. b * (j - i) >= b
    BY <1>1
  <2> QED BY <2>1
<1>2. ASSUME b * p < b * q, ~(p < q) PROVE FALSE
  <2>1. q < p \/ q = p
    BY <1>2
  <2>2. CASE q < p
    BY <1>1, <1>2, <2>2
  <2>3. CASE q = p
    BY <1>2, <2>3
  <2> QED BY <2>1, <2>2, <2>3
<1> QED BY <1>1, <1>2

LEMMA QuotientsOrdered ==
  ASSUME NEW a \in Int, NEW c \in Int, NEW b \in Nat \ {0}, a <= c
  PROVE  a \div b <= c \div b
<1> DEFINE p == a \div b
           q == c \div b
<1>1. p \in Int /\ b * p <= a
  BY DivMod
<1>2. q \in Int /\ c < b * q + b
  BY DivMod
<1> HIDE DEF p, q
<1>3. b * p < b * (q + 1)
  BY <1>1, <1>2
<1>4. p < q + 1
  BY <1>1, <1>2, <1>3, MultipleLess
<1>5. p <= q
  BY <1>1, <1>2, <1>4
<1> QED BY <1>5 DEF p, q

\* cdiv counts the multiples below a number.
LEMMA cdivCounts ==
  ASSUME NEW a \in Int, NEW b \in Nat \ {0}
  PROVE  /\ cdiv(a, b) \in Int
         /\ \A i \in Int : i < cdiv(a, b) <=> b * i < a
<1> DEFINE c == a + b - 1
           q == c \div b
           r == c % b
<1>1. c \in Int /\ q \in Int /\ r \in 0 .. b - 1 /\ c = b * q + r
  BY DivMod
<1>2. cdiv(a, b) = q
  BY DEF cdiv
<1>3. a = b * q + r - (b - 1)
  BY <1>1
<1> HIDE DEF c, q, r
<1>4. ASSUME NEW i \in Int PROVE i < q <=> b * i < a
  <2>1. CASE i < q
    <3>1. b * i + b <= b * q
      <4>1. b * (q - i) >= b
        BY <1>1, <2>1
      <4> QED BY <1>1, <4>1
    <3> QED BY <1>1, <1>3, <2>1, <3>1
  <2>2. CASE ~(i < q)
    <3>1. b * i >= b * q
      BY <1>1, <2>2, MultipleLess
    <3> QED BY <1>1, <1>3, <2>2, <3>1
  <2> QED BY <2>1, <2>2
<1> QED BY <1>1, <1>2, <1>4

LEMMA cdivExact ==
  ASSUME NEW a \in Int, NEW b \in Nat \ {0}, a % b = 0
  PROVE  cdiv(a, b) = a \div b
<1> DEFINE q == a \div b
<1>1. q \in Int /\ a = b * q
  BY DivMod
<1> HIDE DEF q
<1>2. b - 1 \in 0 .. b - 1
  OBVIOUS
<1>3. (b * q + (b - 1)) \div b = q
  BY <1>1, <1>2, Quotient
<1>4. a + b - 1 = b * q + (b - 1)
  BY <1>1
<1>5. cdiv(a, b) = q
  BY <1>3, <1>4 DEF cdiv
<1> QED BY <1>5 DEF q

-----------------------------------------------------------------------------
(* The attention groups and their order. *)

LEMMA GroupType ==
  /\ IsFiniteSet(Group) /\ Group \subseteq Nat \ {0} /\ \A g \in Group : g <= Len(BlockSizes)
  /\ Len(BlockSizes) \in Nat
  /\ \A g \in Group : BlockSizes[g] \in Nat \ {0} /\ Lcm % BlockSizes[g] = 0 /\ Windows[g] \in Nat
  /\ Lcm \in Nat \ {0} /\ Prompt \in Nat
<1>1. Len(BlockSizes) \in Nat /\ Group = 1 .. Len(BlockSizes)
      /\ BlockSizes \in [1 .. Len(BlockSizes) -> Nat \ {0}]
  BY BlockSizesAssumption, LenProperties DEF Group
<1>2. IsFiniteSet(Group)
  BY <1>1, FS_Interval
<1> QED BY <1>1, <1>2, PlanAssumption

\* Any finite set can be put into the order of distinct numbers.
LEMMA Sorted ==
  ASSUME NEW T, IsFiniteSet(T), NEW key \in [T -> Nat],
         \A a, b \in T : key[a] = key[b] => a = b
  PROVE  \E s \in [1 .. Cardinality(T) -> T] :
           \A i, j \in 1 .. Cardinality(T) : i < j => key[s[i]] < key[s[j]]
<1> DEFINE Enum(U) == \E s \in [1 .. Cardinality(U) -> U] :
                        \A i, j \in 1 .. Cardinality(U) : i < j => key[s[i]] < key[s[j]]
           Bad     == {Cardinality(U) : U \in {V \in SUBSET T : ~Enum(V)}}
<1>1. \A U \in SUBSET T : IsFiniteSet(U) /\ Cardinality(U) \in Nat
  BY FS_Subset, FS_CardinalityType
<1>2. Bad \subseteq Nat
  BY <1>1
<1>3. SUFFICES ASSUME Bad # {} PROVE FALSE
  <2>1. Bad = {} => Enum(T)
    OBVIOUS
  <2> QED BY <2>1
<1> DEFINE n == Min(Bad)
<1>4. n \in Bad /\ \A m \in Bad : n <= m
  <2> HIDE DEF Bad
  <2> QED BY <1>2, <1>3, LeastNat
<1>5. PICK U \in SUBSET T : n = Cardinality(U) /\ ~Enum(U)
  BY <1>4
<1>6. \A V \in SUBSET T : Cardinality(V) < n => Enum(V)
  <2> SUFFICES ASSUME NEW V \in SUBSET T, Cardinality(V) < n, ~Enum(V) PROVE FALSE
    OBVIOUS
  <2>1. Cardinality(V) \in Bad
    OBVIOUS
  <2>2. n <= Cardinality(V)
    BY <1>4, <2>1
  <2>3. n \in Nat /\ Cardinality(V) \in Nat
    BY <1>1, <1>5
  <2> HIDE DEF n
  <2> QED BY <2>2, <2>3
<1> HIDE DEF n, Bad
<1>7. IsFiniteSet(U) /\ n \in Nat
  BY <1>1, <1>5
<1>8. U # {}
  <2> SUFFICES ASSUME U = {} PROVE Enum(U)
    BY <1>5
  <2>1. Cardinality(U) = 0
    BY FS_EmptySet
  <2>2. 1 .. Cardinality(U) = {}
    BY <2>1
  <2>3. [x \in {} |-> x] \in [1 .. Cardinality(U) -> U]
    BY <2>2
  <2> QED BY <2>2, <2>3
<1> DEFINE keys == {key[u] : u \in U}
<1>9. PICK u \in U : \A v \in U : key[u] <= key[v]
  <2>1. keys \subseteq Nat /\ keys # {}
    <3>1. \A v \in U : key[v] \in Nat
      OBVIOUS
    <3> QED BY <1>8, <3>1
  <2>2. Min(keys) \in keys /\ \A k \in keys : Min(keys) <= k
    <3> HIDE DEF keys
    <3> QED BY <2>1, LeastNat
  <2>3. PICK u \in U : key[u] = Min(keys)
    BY <2>2
  <2>4. \A v \in U : key[v] \in keys
    OBVIOUS
  <2>5. \A v \in U : key[u] <= key[v]
    <3> HIDE DEF keys
    <3> QED BY <2>2, <2>3, <2>4
  <2> QED BY <2>5
<1> DEFINE rest == U \ {u}
<1>10. rest \in SUBSET T /\ Cardinality(rest) = n - 1
  BY <1>5, <1>7, FS_RemoveElement
<1>11. Enum(rest)
  <2> HIDE DEF rest, Enum
  <2> QED BY <1>6, <1>7, <1>10
<1>12. PICK s \in [1 .. n - 1 -> rest] :
         \A i, j \in 1 .. n - 1 : i < j => key[s[i]] < key[s[j]]
  BY <1>10, <1>11
<1> DEFINE t == [i \in 1 .. n |-> IF i = 1 THEN u ELSE s[i - 1]]
<1>13. t \in [1 .. n -> U]
  BY <1>7
<1>14. \A i, j \in 1 .. n : i < j => key[t[i]] < key[t[j]]
  <2> SUFFICES ASSUME NEW i \in 1 .. n, NEW j \in 1 .. n, i < j
               PROVE  key[t[i]] < key[t[j]]
    OBVIOUS
  <2>1. j - 1 \in 1 .. n - 1 /\ t[j] = s[j - 1] /\ s[j - 1] \in rest
    BY <1>7
  <2>2. CASE i = 1
    <3>1. t[i] = u /\ t[j] \in U /\ t[j] # u
      BY <2>1, <2>2
    <3>2. key[u] <= key[t[j]] /\ key[u] # key[t[j]]
      BY <1>9, <3>1
    <3>3. key[u] \in Nat /\ key[t[j]] \in Nat
      BY <3>1
    <3> QED BY <3>1, <3>2, <3>3
  <2>3. CASE i # 1
    <3>1. i - 1 \in 1 .. n - 1 /\ t[i] = s[i - 1] /\ i - 1 < j - 1
      BY <1>7, <2>3
    <3> QED BY <1>12, <2>1, <3>1
  <2> QED BY <2>2, <2>3
<1>15. Enum(U)
  <2> HIDE DEF t
  <2> QED BY <1>5, <1>13, <1>14
<1> QED BY <1>5, <1>15

\* Every attention group is in the order, at its place and at no other.
LEMMA OrderCovers ==
  /\ Len(Order) \in Nat /\ Order \in [1 .. Len(Order) -> AttentionGroups]
  /\ \A ag \in AttentionGroups : \E i \in 1 .. Len(Order) : Order[i] = ag
<1> DEFINE AG  == AttentionGroups
           N   == Cardinality(AG)
           key == [ag \in AG |-> IF IsFull(ag) THEN Min(ag) ELSE Len(BlockSizes) + Min(ag)]
           ahead(a, b) == IF IsFull(a) = IsFull(b) THEN Min(a) < Min(b) ELSE IsFull(a)
<1>1. IsFiniteSet(AG)
  <2>1. AG \subseteq SUBSET Group
    BY DEF AttentionGroups
  <2> QED BY <2>1, GroupType, FS_SUBSET, FS_Subset
<1>2. \A ag \in AG : Min(ag) \in ag /\ ag \subseteq Group
  <2> SUFFICES ASSUME NEW ag \in AG PROVE Min(ag) \in ag /\ ag \subseteq Group
    OBVIOUS
  <2>1. ag \subseteq Group /\ ag # {}
    BY DEF AttentionGroups
  <2> QED BY <2>1, GroupType, LeastNat
<1>3. \A ag \in AG : Min(ag) \in Nat \ {0} /\ Min(ag) <= Len(BlockSizes)
  BY <1>2, GroupType
<1>4. key \in [AG -> Nat]
  BY <1>3, GroupType
<1>5. \A a, b \in AG : key[a] < key[b] <=> ahead(a, b)
  BY <1>3, GroupType DEF IsFull
<1>6. \A a, b \in AG : key[a] = key[b] => a = b
  <2> SUFFICES ASSUME NEW a \in AG, NEW b \in AG, key[a] = key[b] PROVE a = b
    OBVIOUS
  <2>1. Min(a) = Min(b)
    BY <1>3, GroupType
  <2>2. Min(a) \in a /\ Min(a) \in b
    BY <1>2, <2>1
  <2> QED BY <2>2 DEF AttentionGroups
<1>7. N \in Nat
  BY <1>1, FS_CardinalityType
<1> HIDE DEF key
<1>8. \E s \in [1 .. N -> AG] : \A i, j \in 1 .. N : i < j => key[s[i]] < key[s[j]]
  BY <1>1, <1>4, <1>6, Sorted
<1>9. \E s \in [1 .. N -> AG] : \A i, j \in DOMAIN s : i < j => ahead(s[i], s[j])
  <2>1. PICK s \in [1 .. N -> AG] : \A i, j \in 1 .. N : i < j => key[s[i]] < key[s[j]]
    BY <1>8
  <2>2. \A i, j \in 1 .. N : i < j => ahead(s[i], s[j])
    BY <1>5, <2>1
  <2> QED BY <2>2
<1>10. Order \in [1 .. N -> AG] /\ \A i, j \in DOMAIN Order : i < j => ahead(Order[i], Order[j])
  BY <1>9 DEF Order
<1> HIDE DEF ahead
<1>11. Len(Order) = N
  BY <1>7, <1>10, IsASeq
<1>12. Order \in Injection(1 .. N, AG)
  <2>1. \A i, j \in 1 .. N : i < j => Order[i] # Order[j]
    <3> SUFFICES ASSUME NEW i \in 1 .. N, NEW j \in 1 .. N, i < j, Order[i] = Order[j]
                 PROVE  FALSE
      OBVIOUS
    <3>1. Order[i] \in AG /\ Order[j] \in AG /\ ahead(Order[i], Order[j])
      BY <1>10
    <3>2. key[Order[i]] < key[Order[j]]
      BY <1>5, <3>1
    <3>3. key[Order[i]] \in Nat
      BY <1>4, <3>1
    <3> QED BY <3>2, <3>3
  <2>2. \A i, j \in 1 .. N : Order[i] = Order[j] => i = j
    BY <1>7, <2>1
  <2> QED BY <1>10, <2>2 DEF Injection, IsInjective
<1>13. Order \in Surjection(1 .. N, AG)
  <2>1. Cardinality(1 .. N) = N
    BY <1>7, FS_Interval
  <2> QED BY <1>1, <1>12, <2>1, FS_Injection
<1> QED BY <1>7, <1>10, <1>11, <1>13 DEF Surjection

\* Every group is in an attention group of its spec.
LEMMA GroupsSplit ==
  /\ \A g \in Group : \E ag \in AttentionGroups : g \in ag
  /\ \A ag \in AttentionGroups : /\ ag \subseteq Group /\ ag # {}
                                 /\ \A g, h \in ag : SpecOf(g) = SpecOf(h)
<1>1. ASSUME NEW g \in Group PROVE \E ag \in AttentionGroups : g \in ag
  <2> DEFINE ag == {h \in Group : SpecOf(h) = SpecOf(g)}
  <2>1. ag \in AttentionGroups /\ g \in ag
    BY DEF AttentionGroups
  <2> QED BY <2>1
<1>2. ASSUME NEW ag \in AttentionGroups
      PROVE  ag \subseteq Group /\ ag # {} /\ \A g, h \in ag : SpecOf(g) = SpecOf(h)
  <2>1. PICK g \in Group : ag = {h \in Group : SpecOf(h) = SpecOf(g)}
    BY DEF AttentionGroups
  <2>2. g \in ag
    BY <2>1
  <2> QED BY <2>1, <2>2
<1> QED BY <1>1, <1>2

-----------------------------------------------------------------------------
(* Induction and recursive functions over an interval. *)

LEMMA StrongInduction ==
  ASSUME NEW N \in Nat, NEW S, \A i \in 0 .. N : 0 .. i - 1 \subseteq S => i \in S
  PROVE  0 .. N \subseteq S
<1> DEFINE Bad == (0 .. N) \ S
<1>1. SUFFICES ASSUME Bad # {} PROVE FALSE
  OBVIOUS
<1>2. Min(Bad) \in Bad /\ \A m \in Bad : Min(Bad) <= m
  <2>1. Bad \subseteq Nat
    OBVIOUS
  <2> HIDE DEF Bad
  <2> QED BY <1>1, <2>1, LeastNat
<1>3. PICK n \in Bad : \A m \in Bad : n <= m
  BY <1>2
<1>4. ASSUME NEW m \in 0 .. n - 1 PROVE m \in S
  <2> SUFFICES ASSUME m \notin S PROVE FALSE
    OBVIOUS
  <2>1. m \in Bad
    OBVIOUS
  <2> QED BY <1>3, <2>1
<1> QED BY <1>4

LEMMA Induction ==
  ASSUME NEW N \in Nat, NEW S, 0 \in S, \A i \in 1 .. N : i - 1 \in S => i \in S
  PROVE  0 .. N \subseteq S
<1>1. ASSUME NEW i \in 0 .. N, 0 .. i - 1 \subseteq S PROVE i \in S
  <2>1. CASE i = 0
    BY <2>1
  <2>2. CASE i # 0
    <3>1. i \in 1 .. N /\ i - 1 \in 0 .. i - 1
      BY <2>2
    <3> QED BY <1>1, <3>1
  <2> QED BY <2>1, <2>2
<1> QED BY <1>1, StrongInduction

\* A function of which each value is made from the one before.
Steps(N, V) == [1 .. N -> [V -> V]]
Chain(f, N, V, v, step) ==
  /\ f \in [0 .. N -> V]
  /\ \A i \in 0 .. N : f[i] = IF i = 0 THEN v ELSE step[i][f[i - 1]]

LEMMA ChainExists ==
  ASSUME NEW N \in Nat, NEW V, NEW v \in V, NEW step \in Steps(N, V)
  PROVE  \E f : Chain(f, N, V, v, step)
<1> USE DEF Steps, Chain
<1> DEFINE Upto(k) == \E f \in [0 .. k -> V] :
                        \A i \in 0 .. k : f[i] = IF i = 0 THEN v ELSE step[i][f[i - 1]]
           S == {k \in 0 .. N : Upto(k)}
<1>1. 0 \in S
  <2> DEFINE f == [i \in 0 .. 0 |-> v]
  <2>1. f \in [0 .. 0 -> V] /\ \A i \in 0 .. 0 : f[i] = IF i = 0 THEN v ELSE step[i][f[i - 1]]
    OBVIOUS
  <2>2. Upto(0)
    <3> HIDE DEF f
    <3> QED BY <2>1
  <2> QED BY <2>2
<1>2. ASSUME NEW k \in 1 .. N, k - 1 \in S PROVE k \in S
  <2>1. PICK f \in [0 .. k - 1 -> V] :
          \A i \in 0 .. k - 1 : f[i] = IF i = 0 THEN v ELSE step[i][f[i - 1]]
    BY <1>2
  <2> DEFINE h == [i \in 0 .. k |-> IF i < k THEN f[i] ELSE step[k][f[k - 1]]]
  <2>2. k - 1 \in 0 .. k - 1 /\ f[k - 1] \in V
    OBVIOUS
  <2>3. h \in [0 .. k -> V]
    <3>1. step[k][f[k - 1]] \in V
      BY <2>2
    <3> QED BY <3>1
  <2>4. \A i \in 0 .. k : h[i] = IF i = 0 THEN v ELSE step[i][h[i - 1]]
    <3> SUFFICES ASSUME NEW i \in 0 .. k
                 PROVE  h[i] = IF i = 0 THEN v ELSE step[i][h[i - 1]]
      OBVIOUS
    <3>1. CASE i = k
      BY <2>2, <3>1
    <3>2. CASE i # k
      BY <2>1, <3>2
    <3> QED BY <3>1, <3>2
  <2>5. Upto(k)
    <3> HIDE DEF h
    <3> QED BY <2>3, <2>4
  <2> HIDE DEF Upto
  <2> QED BY <2>5
<1> HIDE DEF S
<1>3. N \in S
  <2>1. 0 .. N \subseteq S
    BY <1>1, <1>2, Induction
  <2> QED BY <2>1
<1> QED BY <1>3 DEF S

\* A function that goes down until it may stop.
Downward(N, stop) == {down \in [0 .. N -> Nat] : \A n \in 0 .. N : n \notin stop => down[n] < n}
Descent(f, N, stop, down) == f = [n \in 0 .. N |-> IF n \in stop THEN down[n] ELSE f[down[n]]]

LEMMA DescentExists ==
  ASSUME NEW N \in Nat, NEW stop, NEW down \in Downward(N, stop)
  PROVE  \E f : Descent(f, N, stop, down)
<1> USE DEF Downward, Descent
<1> DEFINE Upto(k) == \E f \in [0 .. k -> Nat] :
                        \A n \in 0 .. k : f[n] = IF n \in stop THEN down[n] ELSE f[down[n]]
           S == {k \in 0 .. N : Upto(k)}
<1>1. 0 \in S
  <2> DEFINE f == [n \in 0 .. 0 |-> down[0]]
  <2>1. 0 \in stop
    OBVIOUS
  <2>2. f \in [0 .. 0 -> Nat] /\ \A n \in 0 .. 0 : f[n] = IF n \in stop THEN down[n] ELSE f[down[n]]
    BY <2>1
  <2>3. Upto(0)
    <3> HIDE DEF f
    <3> QED BY <2>2
  <2> QED BY <2>3
<1>2. ASSUME NEW k \in 1 .. N, k - 1 \in S PROVE k \in S
  <2>1. PICK f \in [0 .. k - 1 -> Nat] :
          \A n \in 0 .. k - 1 : f[n] = IF n \in stop THEN down[n] ELSE f[down[n]]
    BY <1>2
  <2> DEFINE h == [n \in 0 .. k |-> IF n < k THEN f[n]
                                    ELSE IF k \in stop THEN down[k] ELSE f[down[k]]]
  <2>2. k \notin stop => down[k] \in 0 .. k - 1 /\ f[down[k]] \in Nat
    OBVIOUS
  <2>3. h \in [0 .. k -> Nat]
    BY <2>2
  <2>4. \A n \in 0 .. k : h[n] = IF n \in stop THEN down[n] ELSE h[down[n]]
    <3> SUFFICES ASSUME NEW n \in 0 .. k
                 PROVE  h[n] = IF n \in stop THEN down[n] ELSE h[down[n]]
      OBVIOUS
    <3>1. CASE n = k
      BY <2>2, <3>1
    <3>2. CASE n # k
      <4>1. n \in 0 .. k - 1 /\ (n \notin stop => down[n] \in 0 .. k - 1)
        BY <3>2
      <4> QED BY <2>1, <4>1
    <3> QED BY <3>1, <3>2
  <2>5. Upto(k)
    <3> HIDE DEF h
    <3> QED BY <2>3, <2>4
  <2> HIDE DEF Upto
  <2> QED BY <2>5
<1> HIDE DEF S
<1>3. N \in S
  <2>1. 0 .. N \subseteq S
    BY <1>1, <1>2, Induction
  <2> QED BY <2>1
<1>4. PICK f \in [0 .. N -> Nat] :
        \A n \in 0 .. N : f[n] = IF n \in stop THEN down[n] ELSE f[down[n]]
  BY <1>3 DEF S
<1>5. f = [n \in 0 .. N |-> IF n \in stop THEN down[n] ELSE f[down[n]]]
  BY <1>4
<1> QED BY <1>5

-----------------------------------------------------------------------------
(* What a lookup finds. *)

\* Max of bounded naturals is one of them and the greatest.
LEMMA MaxIsGreatest ==
  ASSUME NEW n \in Nat, NEW S, S \subseteq 0 .. n, S # {}
  PROVE  Max(S) \in S /\ \A y \in S : y <= Max(S)
<1> DEFINE T == {n - x : x \in S}
<1>1. T \subseteq Nat /\ T # {}
  <2>1. \A x \in S : n - x \in Nat
    OBVIOUS
  <2> QED BY <2>1
<1>2. Min(T) \in T /\ \A y \in T : Min(T) <= y
  <2> HIDE DEF T
  <2> QED BY <1>1, LeastNat
<1>3. PICK x \in S : Min(T) = n - x
  BY <1>2
<1>4. ASSUME NEW y \in S PROVE y <= x
  <2>1. n - y \in T
    OBVIOUS
  <2>2. n - x <= n - y
    BY <1>2, <1>3, <2>1
  <2> QED BY <2>2
<1> QED BY <1>4 DEF Max

LEMMA PopulatedChunks ==
  ASSUME NEW g \in Group, NEW n \in Nat
  PROVE  /\ WindowBlocks(g) \in Int
         /\ Populated(g, n) = {i \in Nat : /\ i < n \div BlockSizes[g]
                                           /\ Windows[g] # 0 => i >= (n \div BlockSizes[g]) - WindowBlocks(g)}
<1> DEFINE c == n \div BlockSizes[g]
           w == WindowBlocks(g)
<1>1. c \in Nat /\ w \in Int /\ Windows[g] \in Nat
  <2>1. BlockSizes[g] \in Nat \ {0} /\ Windows[g] \in Nat
    BY GroupType
  <2>2. w \in Int
    BY <2>1, cdivCounts DEF WindowBlocks
  <2> QED BY <2>1, <2>2
<1>2. Populated(g, n) = IF Windows[g] = 0 THEN 0 .. c - 1 ELSE Max({0, c - w}) .. c - 1
  BY DEF Populated
<1> HIDE DEF c, w
<1>3. Max({0, c - w}) = IF 0 >= c - w THEN 0 ELSE c - w
  BY <1>1, MaxOfTwo
<1>4. Populated(g, n) = {i \in Nat : i < c /\ (Windows[g] # 0 => i >= c - w)}
  BY <1>1, <1>2, <1>3
<1> QED BY <1>1, <1>4 DEF c, w

Cached(groups, n, have) == \A g \in groups : \A i \in Populated(g, n) : <<g, i>> \in have

\* A hit of n tokens can be loaded.
Loadable(n, have) == Aligned(n) /\ Cached(Group, n, have)

LEMMA NothingLoadable ==
  ASSUME NEW have
  PROVE  Loadable(0, have) /\ \A g \in Group : 0 % BlockSizes[g] = 0
<1>1. 0 % Lcm = 0
  BY GroupType
<1>2. ASSUME NEW g \in Group PROVE 0 % BlockSizes[g] = 0 /\ Populated(g, 0) = {}
  <2>1. BlockSizes[g] \in Nat \ {0}
    BY GroupType
  <2>2. 0 % BlockSizes[g] = 0 /\ 0 \div BlockSizes[g] = 0
    BY <2>1
  <2> QED BY <2>2, PopulatedChunks
<1> QED BY <1>1, <1>2 DEF Loadable, Cached, Aligned

\* A manager finds the longest of its prefixes.
LEMMA AttentionGroupLongest ==
  ASSUME NEW ag \in AttentionGroups, NEW limit \in Nat, NEW align \in Nat \ {0}, NEW have
  PROVE  LET hit == AttentionGroupHit(ag, limit, align, have)
         IN  /\ hit \in 0 .. limit /\ hit % align = 0 /\ Cached(ag, hit, have)
             /\ \A g \in ag : hit % BlockSizes[g] = 0
             /\ \A n \in 0 .. limit :
                  n % align = 0 /\ (\A g \in ag : n % BlockSizes[g] = 0) /\ Cached(ag, n, have)
                    => n <= hit
<1> DEFINE hit == AttentionGroupHit(ag, limit, align, have)
           S == {n \in 0 .. limit : n % align = 0 /\ \A g \in ag :
                                      /\ n % BlockSizes[g] = 0
                                      /\ \A i \in Populated(g, n) : <<g, i>> \in have}
<1>1. ag \subseteq Group
  BY GroupsSplit
<1>2. 0 \in S
  <2>1. 0 % align = 0
    OBVIOUS
  <2>2. \A g \in ag : 0 % BlockSizes[g] = 0 /\ \A i \in Populated(g, 0) : <<g, i>> \in have
    BY <1>1, NothingLoadable DEF Loadable, Cached
  <2> QED BY <2>1, <2>2
<1>3. hit = Max(S \cup {0}) /\ S \cup {0} = S
  BY <1>2 DEF AttentionGroupHit
<1>4. hit \in S /\ \A n \in S : n <= hit
  <2>1. S \subseteq 0 .. limit /\ S # {}
    BY <1>2
  <2> HIDE DEF S, hit
  <2> QED BY <1>3, <2>1, MaxIsGreatest
<1> HIDE DEF hit
<1>5. \A n \in 0 .. limit :
        n % align = 0 /\ (\A g \in ag : n % BlockSizes[g] = 0) /\ Cached(ag, n, have) => n \in S
  BY DEF Cached
<1>6. hit \in 0 .. limit /\ hit % align = 0 /\ Cached(ag, hit, have)
      /\ \A g \in ag : hit % BlockSizes[g] = 0
  BY <1>4 DEF Cached
<1> HIDE DEF S
<1> QED BY <1>4, <1>5, <1>6 DEF hit

\* A pass is a chain of the groups' hits.
LEMMA PassSteps ==
  ASSUME NEW limit \in Nat, NEW have
  PROVE  \E after \in [0 .. Len(Order) -> 0 .. limit] :
           /\ after[0] = limit
           /\ \A i \in 1 .. Len(Order) :
                after[i] = AttentionGroupHit(Order[i], after[i - 1], Lcm, have)
           /\ Pass(limit, have) = after[Len(Order)]
<1> DEFINE N == Len(Order)
           hit(i, n) == AttentionGroupHit(Order[i], n, Lcm, have)
           A == CHOOSE after : after = [i \in 0 .. Len(Order) |->
                  IF i = 0 THEN limit
                  ELSE AttentionGroupHit(Order[i], after[i - 1], Lcm, have)]
           step == [i \in 1 .. N |-> [n \in 0 .. limit |-> hit(i, n)]]
<1>1. Pass(limit, have) = A[Len(Order)]
  BY DEF Pass
<1>2. N \in Nat /\ \A i \in 1 .. N : Order[i] \in AttentionGroups
  BY OrderCovers
<1>3. \A i \in 1 .. N : \A n \in 0 .. limit : hit(i, n) \in 0 .. n /\ hit(i, n) \in 0 .. limit
  <2> SUFFICES ASSUME NEW i \in 1 .. N, NEW n \in 0 .. limit
               PROVE  hit(i, n) \in 0 .. n /\ hit(i, n) \in 0 .. limit
    OBVIOUS
  <2>1. hit(i, n) \in 0 .. n
    BY <1>2, GroupType, AttentionGroupLongest
  <2> HIDE DEF hit
  <2> QED BY <2>1
<1> HIDE DEF hit, N
<1>4. step \in [1 .. N -> [0 .. limit -> 0 .. limit]]
  BY <1>3
<1>5. limit \in 0 .. limit
  OBVIOUS
<1>6. PICK f \in [0 .. N -> 0 .. limit] :
        \A i \in 0 .. N : f[i] = IF i = 0 THEN limit ELSE step[i][f[i - 1]]
  <2> DEFINE V == 0 .. limit
  <2>1. N \in Nat /\ limit \in V /\ step \in Steps(N, V)
    BY <1>2, <1>4, <1>5 DEF Steps
  <2> HIDE DEF step, V
  <2>2. \E f : Chain(f, N, V, limit, step)
    BY <2>1, ChainExists
  <2> QED BY <2>2 DEF V, Chain
<1>7. \A i \in 0 .. N : f[i] = IF i = 0 THEN limit ELSE hit(i, f[i - 1])
  <2> SUFFICES ASSUME NEW i \in 0 .. N, i # 0 PROVE f[i] = hit(i, f[i - 1])
    BY <1>6
  <2>1. i \in 1 .. N /\ f[i - 1] \in 0 .. limit
    BY <1>2
  <2>2. step[i][f[i - 1]] = hit(i, f[i - 1])
    BY <2>1
  <2> QED BY <1>6, <2>2
<1>8. f = [i \in 0 .. Len(Order) |-> IF i = 0 THEN limit
                                     ELSE AttentionGroupHit(Order[i], f[i - 1], Lcm, have)]
  BY <1>7 DEF hit, N
<1>9. A = [i \in 0 .. Len(Order) |-> IF i = 0 THEN limit
                                     ELSE AttentionGroupHit(Order[i], A[i - 1], Lcm, have)]
  BY <1>8
<1> HIDE DEF A
<1>10. A = [i \in 0 .. N |-> IF i = 0 THEN limit ELSE hit(i, A[i - 1])]
  BY <1>9 DEF hit, N
<1>11. \A i \in 0 .. N : A[i] \in 0 .. limit
  <2> DEFINE S == {i \in 0 .. N : A[i] \in 0 .. limit}
  <2>1. 0 \in S
    BY <1>2, <1>10
  <2>2. ASSUME NEW i \in 1 .. N, i - 1 \in S PROVE i \in S
    <3>1. i \in 0 .. N /\ i # 0 /\ A[i - 1] \in 0 .. limit
      BY <1>2, <2>2
    <3>2. A[i] = hit(i, A[i - 1])
      BY <1>10, <3>1
    <3> QED BY <1>3, <3>1, <3>2
  <2>3. 0 .. N \subseteq S
    <3> HIDE DEF S
    <3> QED BY <1>2, <2>1, <2>2, Induction
  <2> QED BY <2>3
<1>12. A \in [0 .. N -> 0 .. limit] /\ A[0] = limit /\ \A i \in 1 .. N : A[i] = hit(i, A[i - 1])
  BY <1>2, <1>10, <1>11
<1> QED BY <1>1, <1>12 DEF hit, N

\* A pass loses no hit, and finds one if it shortens nothing, or if the first
\* of two attention groups is full attention.
LEMMA PassHits ==
  ASSUME NEW limit \in Nat, NEW have
  PROVE  LET hit == Pass(limit, have)
         IN  /\ hit \in 0 .. limit
             /\ Aligned(limit) => Aligned(hit)
             /\ \A n \in 0 .. limit : Loadable(n, have) => n <= hit
             /\ Aligned(limit) /\ hit = limit => Loadable(hit, have)
             /\ Len(Order) = 2 /\ IsFull(Order[1]) => Loadable(hit, have)
<1> DEFINE N   == Len(Order)
           hit == Pass(limit, have)
<1>1. N \in Nat /\ \A i \in 1 .. N : Order[i] \in AttentionGroups
  BY OrderCovers
<1>2. PICK after \in [0 .. N -> 0 .. limit] :
        /\ after[0] = limit /\ hit = after[N]
        /\ \A i \in 1 .. N : after[i] = AttentionGroupHit(Order[i], after[i - 1], Lcm, have)
  BY PassSteps
<1> HIDE DEF N, hit
<1>3. ASSUME NEW i \in 1 .. N
      PROVE  /\ after[i - 1] \in 0 .. limit
             /\ after[i] \in 0 .. after[i - 1] /\ Aligned(after[i])
             /\ Cached(Order[i], after[i], have)
             /\ \A n \in 0 .. after[i - 1] : Loadable(n, have) => n <= after[i]
  <2>1. Order[i] \in AttentionGroups /\ Order[i] \subseteq Group
    BY <1>1, GroupsSplit
  <2>2. after[i - 1] \in 0 .. limit /\ after[i - 1] \in Nat
    BY <1>1
  <2>3. after[i] = AttentionGroupHit(Order[i], after[i - 1], Lcm, have)
    BY <1>2
  <2>4. /\ after[i] \in 0 .. after[i - 1] /\ after[i] % Lcm = 0
        /\ Cached(Order[i], after[i], have)
        /\ \A n \in 0 .. after[i - 1] :
             n % Lcm = 0 /\ (\A g \in Order[i] : n % BlockSizes[g] = 0) /\ Cached(Order[i], n, have)
               => n <= after[i]
    BY <2>1, <2>2, <2>3, GroupType, AttentionGroupLongest
  <2>5. ASSUME NEW n \in 0 .. after[i - 1], Loadable(n, have)
        PROVE  n <= after[i]
    <3>1. n % Lcm = 0 /\ Cached(Order[i], n, have)
      BY <2>1, <2>5 DEF Loadable, Aligned, Cached
    <3>2. ASSUME NEW g \in Order[i] PROVE n % BlockSizes[g] = 0
      <4>1. BlockSizes[g] \in Nat \ {0} /\ Lcm % BlockSizes[g] = 0 /\ Lcm \in Nat \ {0}
        BY <2>1, GroupType
      <4>2. n \in Int
        BY <2>2
      <4> QED BY <3>1, <4>1, <4>2, Multiple
    <3> QED BY <2>4, <3>1, <3>2
  <2> QED BY <2>2, <2>4, <2>5 DEF Aligned
<1>4. \A i \in 0 .. N : \A n \in 0 .. limit : Loadable(n, have) => n <= after[i]
  <2> DEFINE S == {i \in 0 .. N : \A n \in 0 .. limit : Loadable(n, have) => n <= after[i]}
  <2>1. 0 \in S
    BY <1>1, <1>2
  <2>2. ASSUME NEW i \in 1 .. N, i - 1 \in S PROVE i \in S
    <3>1. i \in 0 .. N
      BY <1>1
    <3>2. ASSUME NEW n \in 0 .. limit, Loadable(n, have) PROVE n <= after[i]
      <4>1. n \in 0 .. after[i - 1]
        BY <1>3, <2>2, <3>2
      <4> QED BY <1>3, <3>2, <4>1
    <3> QED BY <3>1, <3>2
  <2> HIDE DEF S
  <2>3. 0 .. N \subseteq S
    BY <1>1, <2>1, <2>2, Induction
  <2> QED BY <2>3 DEF S
<1>5. \A i \in 0 .. N : \A j \in 0 .. i : after[i] <= after[j]
  <2> DEFINE S == {i \in 0 .. N : \A j \in 0 .. i : after[i] <= after[j]}
  <2>1. 0 \in S
    BY <1>1, <1>2
  <2>2. ASSUME NEW i \in 1 .. N, i - 1 \in S PROVE i \in S
    <3>1. i \in 0 .. N /\ after[i] <= after[i - 1] /\ after[i] \in Int /\ after[i - 1] \in Int
      BY <1>1, <1>3
    <3>2. ASSUME NEW j \in 0 .. i PROVE after[i] <= after[j]
      <4>1. CASE j = i
        BY <3>1, <4>1
      <4>2. CASE j # i
        <5>1. j \in 0 .. i - 1 /\ j \in 0 .. N
          BY <1>1, <4>2
        <5>2. after[i - 1] <= after[j] /\ after[j] \in Int
          BY <2>2, <5>1
        <5> QED BY <3>1, <5>2
      <4> QED BY <4>1, <4>2
    <3> QED BY <3>1, <3>2
  <2> HIDE DEF S
  <2>3. 0 .. N \subseteq S
    BY <1>1, <2>1, <2>2, Induction
  <2> QED BY <2>3 DEF S
<1>6. N \in 0 .. N /\ hit \in 0 .. limit
  BY <1>1, <1>2
<1>7. ASSUME Aligned(limit) PROVE Aligned(hit)
  <2>1. CASE N = 0
    BY <1>2, <1>7, <2>1
  <2>2. CASE N # 0
    BY <1>1, <1>2, <1>3, <2>2
  <2> QED BY <2>1, <2>2
<1>8. ASSUME Aligned(limit), hit = limit PROVE Loadable(hit, have)
  <2>1. ASSUME NEW g \in Group PROVE \A i \in Populated(g, limit) : <<g, i>> \in have
    <3>1. PICK ag \in AttentionGroups : g \in ag
      BY GroupsSplit
    <3>2. PICK i \in 1 .. N : Order[i] = ag
      BY OrderCovers DEF N
    <3>3. i \in 0 .. N /\ after[N] <= after[i] /\ after[i] \in 0 .. limit
      BY <1>1, <1>5, <1>6
    <3>4. after[i] = limit
      BY <1>2, <1>8, <3>3
    <3> QED BY <1>3, <3>1, <3>2, <3>4 DEF Cached
  <2> QED BY <1>8, <2>1 DEF Loadable, Cached
<1>9. ASSUME N = 2, IsFull(Order[1]) PROVE Loadable(hit, have)
  <2>1. 1 \in 1 .. N /\ 2 \in 1 .. N /\ 2 - 1 = 1 /\ hit = after[2]
    BY <1>2, <1>9
  <2>2. /\ Cached(Order[1], after[1], have) /\ Cached(Order[2], hit, have)
        /\ Aligned(hit) /\ hit <= after[1] /\ after[1] \in Nat /\ hit \in Nat
    <3>1. after[1] \in Nat /\ hit \in Nat
      BY <1>6, <1>9, <2>1
    <3> QED BY <1>3, <2>1, <3>1
  <2>3. ASSUME NEW g \in Group PROVE \A c \in Populated(g, hit) : <<g, c>> \in have
    <3>1. PICK ag \in AttentionGroups : g \in ag
      BY GroupsSplit
    <3>2. PICK i \in 1 .. N : Order[i] = ag
      BY OrderCovers DEF N
    <3>3. i = 1 \/ i = 2
      BY <1>9
    <3>4. CASE i = 2
      BY <2>2, <3>1, <3>2, <3>4 DEF Cached
    <3>5. CASE i = 1
      <4>1. Windows[g] = 0
        BY <1>9, <3>1, <3>2, <3>5 DEF IsFull
      <4>2. /\ Populated(g, hit) = {c \in Nat : c < hit \div BlockSizes[g]}
            /\ Populated(g, after[1]) = {c \in Nat : c < after[1] \div BlockSizes[g]}
        BY <2>2, <4>1, PopulatedChunks
      <4>3. /\ hit \div BlockSizes[g] \in Int /\ after[1] \div BlockSizes[g] \in Int
            /\ hit \div BlockSizes[g] <= after[1] \div BlockSizes[g]
        <5>1. BlockSizes[g] \in Nat \ {0} /\ hit \in Int /\ after[1] \in Int
          BY <2>2, GroupType
        <5> QED BY <2>2, <5>1, DivMod, QuotientsOrdered
      <4>4. Populated(g, hit) \subseteq Populated(g, after[1])
        BY <4>2, <4>3
      <4> QED BY <2>2, <3>1, <3>2, <3>5, <4>4 DEF Cached
    <3> QED BY <3>3, <3>4, <3>5
  <2> QED BY <2>2, <2>3 DEF Loadable, Cached
<1> QED BY <1>2, <1>4, <1>6, <1>7, <1>8, <1>9 DEF N, hit

\* n is the longest hit within a limit.
Longest(n, limit, have) ==
  n \in 0 .. limit /\ Loadable(n, have) /\ \A m \in 0 .. limit : Loadable(m, have) => m <= n

\* The passes end at the longest hit.
LEMMA HitLengthLongest ==
  ASSUME NEW limit \in Nat, Aligned(limit), NEW have
  PROVE  Longest(HitLength(limit, have), limit, have)
<1>1. CASE Len(Order) = 1
  <2> DEFINE ag == Order[1]
             b  == BlockSizes[Min(ag)]
  <2>1. ag \in AttentionGroups /\ \A x \in AttentionGroups : x = ag
    <3>1. 1 \in 1 .. Len(Order) /\ \A i \in 1 .. Len(Order) : i = 1
      BY <1>1
    <3> QED BY <3>1, OrderCovers
  <2>2. ag = Group /\ \A g, h \in Group : SpecOf(g) = SpecOf(h)
    <3>1. ag \subseteq Group /\ \A g, h \in ag : SpecOf(g) = SpecOf(h)
      BY <2>1, GroupsSplit
    <3>2. \A g \in Group : g \in ag
      BY <2>1, GroupsSplit
    <3>3. ag = Group
      BY <3>1, <3>2
    <3> HIDE DEF ag
    <3> QED BY <3>1, <3>3
  <2>3. Min(ag) \in Group
    <3>1. ag \subseteq Nat /\ ag # {}
      BY <2>1, <2>2, GroupType, GroupsSplit
    <3> QED BY <2>2, <3>1, LeastNat
  <2>4. b \in Nat \ {0} /\ \A g \in Group : BlockSizes[g] = b
    BY <2>2, <2>3, GroupType DEF SpecOf
  <2>5. Lcm = b
    BY <2>3, <2>4, PlanAssumption
  <2>6. HitLength(limit, have) = AttentionGroupHit(ag, limit, b, have)
    BY <1>1 DEF HitLength
  <2> HIDE DEF ag, b
  <2> DEFINE hit == AttentionGroupHit(ag, limit, b, have)
  <2>7. /\ hit \in 0 .. limit /\ hit % b = 0 /\ Cached(ag, hit, have)
        /\ \A n \in 0 .. limit :
             n % b = 0 /\ (\A g \in ag : n % BlockSizes[g] = 0) /\ Cached(ag, n, have) => n <= hit
    BY <2>1, <2>4, AttentionGroupLongest
  <2> HIDE DEF hit
  <2>8. \A n \in 0 .. limit : Loadable(n, have) => n <= hit
    BY <2>2, <2>4, <2>5, <2>7 DEF Loadable, Aligned
  <2>9. Loadable(hit, have)
    BY <2>2, <2>5, <2>7 DEF Loadable, Aligned
  <2> QED BY <2>6, <2>7, <2>8, <2>9 DEF Longest, hit
<1>2. CASE Len(Order) # 1
  <2> DEFINE simple == Len(Order) = 2 /\ IsFull(Order[1])
             C == CHOOSE converged : converged = [n \in 0 .. limit |->
                    LET m == Pass(n, have) IN IF m >= n \/ simple THEN m ELSE converged[m]]
             down == [n \in 0 .. limit |-> Pass(n, have)]
             stop == {n \in 0 .. limit : Pass(n, have) >= n \/ simple}
  <2>1. HitLength(limit, have) = C[limit]
    BY <1>2 DEF HitLength
  <2> HIDE DEF simple
  <2>2. \A n \in 0 .. limit : Pass(n, have) \in 0 .. n /\ Pass(n, have) \in Nat
    BY PassHits
  <2>3. down \in Downward(limit, stop)
    BY <2>2 DEF Downward
  <2>4. \E f : Descent(f, limit, stop, down)
    <3> HIDE DEF stop, down
    <3> QED BY <2>3, DescentExists
  <2>5. PICK f : f = [n \in 0 .. limit |-> IF n \in stop THEN down[n] ELSE f[down[n]]]
    BY <2>4 DEF Descent
  <2>6. f = [n \in 0 .. limit |->
               LET m == Pass(n, have) IN IF m >= n \/ simple THEN m ELSE f[m]]
    BY <2>5
  <2>7. C = [n \in 0 .. limit |->
               LET m == Pass(n, have) IN IF m >= n \/ simple THEN m ELSE C[m]]
    BY <2>6
  <2> HIDE DEF C
  <2> DEFINE S == {n \in 0 .. limit : Aligned(n) => Longest(C[n], n, have)}
  <2>8. ASSUME NEW n \in 0 .. limit, 0 .. n - 1 \subseteq S PROVE n \in S
    <3> SUFFICES ASSUME Aligned(n) PROVE Longest(C[n], n, have)
      OBVIOUS
    <3> DEFINE m == Pass(n, have)
    <3>1. n \in Nat /\ C[n] = IF m >= n \/ simple THEN m ELSE C[m]
      BY <2>7
    <3>2. /\ m \in 0 .. n /\ Aligned(m)
          /\ \A k \in 0 .. n : Loadable(k, have) => k <= m
          /\ m = n => Loadable(m, have)
          /\ simple => Loadable(m, have)
      BY <3>1, PassHits DEF simple
    <3> HIDE DEF m
    <3>3. CASE m >= n \/ simple
      <4>1. Loadable(m, have)
        BY <3>1, <3>2, <3>3
      <4> QED BY <3>1, <3>2, <3>3, <4>1 DEF Longest
    <3>4. CASE ~(m >= n \/ simple)
      <4>1. m \in 0 .. n - 1 /\ m \in S
        BY <2>8, <3>1, <3>2, <3>4
      <4>2. Longest(C[m], m, have)
        BY <3>2, <4>1
      <4>3. C[n] = C[m]
        BY <3>1, <3>4
      <4>4. \A k \in 0 .. n : Loadable(k, have) => k \in 0 .. m
        BY <3>2
      <4> QED BY <3>1, <3>2, <4>2, <4>3, <4>4 DEF Longest
    <3> QED BY <3>3, <3>4
  <2>9. limit \in S
    <3>1. 0 .. limit \subseteq S
      <4> HIDE DEF S
      <4> QED BY <2>8, StrongInduction
    <3> HIDE DEF S
    <3> QED BY <3>1
  <2> QED BY <2>1, <2>9
<1> QED BY <1>1, <1>2

-----------------------------------------------------------------------------
(* A lookup. *)

LEMMA KeyRanksType ==
  /\ PutStep \in Nat \ {0} /\ KeyRanks \subseteq Nat /\ 0 \in KeyRanks
BY PlanAssumption DEF PutStep, KeyRanks

\* A block is present when every key of it is in the Store.
LEMMA PresentBlocks ==
  \A g, i : <<g, i>> \in Present <=> \A k \in KeyRanks : <<g, i, k>> \in store
<1> SUFFICES ASSUME NEW g, NEW i
             PROVE  <<g, i>> \in Present <=> \A k \in KeyRanks : <<g, i, k>> \in store
  OBVIOUS
<1>1. KeysOf(<<g, i>>, KeyRanks) = {<<g, i, k>> : k \in KeyRanks}
  BY DEF KeysOf
<1>2. ASSUME \A k \in KeyRanks : <<g, i, k>> \in store
      PROVE  <<g, i>> \in {<<k[1], k[2]>> : k \in store}
  <2> DEFINE key == <<g, i, 0>>
  <2>1. key \in store /\ key[1] = g /\ key[2] = i
    BY <1>2, KeyRanksType
  <2> QED BY <2>1
<1> QED BY <1>1, <1>2 DEF Present

LEMMA LookupLongest ==
  ASSUME NEW tokens \in Spans
  PROVE  Longest(Lookup(tokens), tokens, Present)
<1>1. tokens \in Nat /\ tokens % Lcm = 0 /\ Lcm \in Nat \ {0}
  BY GroupType DEF Spans, Aligned
<1>2. CASE tokens < Lcm
  <2>1. tokens = 0
    BY <1>1, <1>2
  <2>2. Lookup(tokens) = 0
    BY <1>2 DEF Lookup
  <2> QED BY <2>1, <2>2, NothingLoadable DEF Longest
<1>3. CASE ~(tokens < Lcm)
  BY <1>1, <1>3, HitLengthLongest DEF Lookup, Aligned
<1> QED BY <1>2, <1>3

\* A lookup finds the longest prefix that can be loaded, however many window
\* sizes there are and whatever the Store has lost.
LEMMA LongestHit == HitIsLongest
<1> SUFFICES ASSUME NEW tokens \in Spans
             PROVE  Lookup(tokens) =
                      Max({n \in Spans : n <= tokens /\ \A g \in Group, k \in KeyRanks :
                             \A i \in LoadMask(g, n) : <<g, i, k>> \in store})
  BY DEF HitIsLongest
<1> DEFINE S   == {n \in Spans : n <= tokens /\ \A g \in Group, k \in KeyRanks :
                     \A i \in LoadMask(g, n) : <<g, i, k>> \in store}
           hit == Lookup(tokens)
<1>1. tokens \in 0 .. Prompt /\ Spans \subseteq 0 .. Prompt /\ Prompt \in Nat
  BY GroupType DEF Spans
<1>2. Longest(hit, tokens, Present)
  BY LookupLongest
<1>3. \A n : Cached(Group, n, Present)
               <=> \A g \in Group, k \in KeyRanks : \A i \in LoadMask(g, n) : <<g, i, k>> \in store
  BY PresentBlocks DEF Cached, LoadMask
<1>4. S = {n \in 0 .. tokens : Loadable(n, Present)}
  BY <1>1, <1>3 DEF Loadable, Spans
<1> HIDE DEF S, hit
<1>5. hit \in S /\ \A n \in S : n <= hit
  BY <1>2, <1>4 DEF Longest
<1>6. S \subseteq 0 .. tokens
  BY <1>4
<1>7. Max(S) \in S /\ \A n \in S : n <= Max(S)
  <2>1. tokens \in Nat /\ S # {}
    BY <1>1, <1>5
  <2> QED BY <1>6, <2>1, MaxIsGreatest
<1>8. hit = Max(S)
  <2>1. hit <= Max(S) /\ Max(S) <= hit
    BY <1>5, <1>7
  <2>2. hit \in 0 .. tokens /\ Max(S) \in 0 .. tokens
    BY <1>5, <1>6, <1>7
  <2> QED BY <2>1, <2>2
<1> QED BY <1>8 DEF S, hit

\* Whatever was saved, lost or evicted, a lookup finds the longest prefix that
\* a load can bring to every rank.
THEOREM LookupFindsLongest == PlanSpec => []HitIsLongest
BY LongestHit, PTL

-----------------------------------------------------------------------------
(* The plan of the D rank. *)

\* Where a D rank got its prefix from: P is asked for all that is not there
\* locally, or for what is left behind a load.
Loaded(p) == \/ /\ p.asked = {} /\ p.failed = {} /\ p.actual = p.local
             \/ /\ p.asked = LoadBlocks(p.local, p.hit)
                /\ p.actual = LoadedPrefix(p.local, p.hit, p.failed)

PlanInv ==
  /\ plan \in [stage : {"none", "load", "pull", "done"}, rank : Rank,
               local : Spans, hit : Spans, actual : Nat,
               asked : SUBSET (Group \X Int), failed : SUBSET (Group \X Int),
               suffix : SUBSET (Group \X Int)]
  /\ plan.local <= plan.hit
  /\ plan.stage \in {"pull", "done"} => Loaded(plan)
  /\ plan.stage \in {"none", "load"} => plan.asked = {} /\ plan.failed = {}
  /\ plan.stage = "done" => plan.suffix = SuffixBlocks(plan, plan.actual)

LEMMA FloorInSpans == Floor(Prompt) \in Spans
<1> DEFINE q == Prompt \div Lcm
           r == Prompt % Lcm
<1>1. Prompt \in Nat /\ Lcm \in Nat \ {0}
  BY GroupType
<1>2. q \in Int /\ r \in 0 .. Lcm - 1 /\ Prompt = Lcm * q + r
  BY <1>1, DivMod
<1>3. q \in Nat
  BY <1>1
<1>4. Floor(Prompt) = q * Lcm
  BY DEF Floor
<1> HIDE DEF q, r
<1>5. q * Lcm = Lcm * q /\ Lcm * q \in Nat /\ Lcm * q <= Prompt
  BY <1>1, <1>2, <1>3
<1>6. (Lcm * q) % Lcm = 0
  BY <1>1, <1>2, QuotientExact
<1> QED BY <1>1, <1>4, <1>5, <1>6 DEF Spans, Aligned

\* Membership in the unions over the groups.
NeededFrom(p, g) == (IF Windows[g] = 0 THEN p.local
                     ELSE Max({p.local, Prompt - Windows[g] + 1})) \div BlockSizes[g]

LEMMA NeededIn ==
  ASSUME NEW p, NEW x
  PROVE  x \in Needed(p) <=> \E g \in Group :
           \E i \in NeededFrom(p, g) .. cdiv(Prompt, BlockSizes[g]) - 1 : x = <<g, i>>
<1>1. Needed(p) = UNION {{<<g, i>> : i \in NeededFrom(p, g) .. cdiv(Prompt, BlockSizes[g]) - 1} :
                           g \in Group}
  BY DEF Needed, NeededFrom
<1> QED BY <1>1

SuffixFrom(p, actual, g) ==
  LET end == cdiv(Prompt, BlockSizes[g])
  IN Max({(p.local \div BlockSizes[g]) + cdiv(actual - p.local, BlockSizes[g]),
          end - (IF Windows[g] = 0 THEN end ELSE cdiv(Windows[g], BlockSizes[g]) + 1)})

LEMMA SuffixIn ==
  ASSUME NEW p, NEW actual, NEW x
  PROVE  x \in SuffixBlocks(p, actual) <=> \E g \in Group :
           \E i \in SuffixFrom(p, actual, g) .. cdiv(Prompt, BlockSizes[g]) - 1 : x = <<g, i>>
<1>1. SuffixBlocks(p, actual) =
        UNION {{<<g, i>> : i \in SuffixFrom(p, actual, g) .. cdiv(Prompt, BlockSizes[g]) - 1} :
                 g \in Group}
  BY DEF SuffixBlocks, SuffixFrom
<1> QED BY <1>1

\* What P is not asked for is what was loaded.  In each group the blocks that
\* are needed and lie before the suffix begin before the end of the loaded
\* prefix, and no window cuts them off: the window of a load of `hit` tokens
\* reaches back at least as far as that of the prompt.
LEMMA SuffixAndLoad ==
  ASSUME NEW p, NEW g \in Group, NEW i \in Nat,
         p.local \in Spans, p.hit \in Spans, p.actual \in Nat, p.local <= p.actual,
         <<g, i>> \in Needed(p), <<g, i>> \notin SuffixBlocks(p, p.actual)
  PROVE  /\ <<g, i>> \in RangeBlocks(p.local, p.actual)
         /\ p.actual <= p.hit => i \in LoadMask(g, p.hit)
<1> DEFINE b    == BlockSizes[g]
           W    == Windows[g]
           l    == p.local \div b
           end  == cdiv(Prompt, b)
           back == cdiv(W, b)
           skip == cdiv(p.actual - p.local, b)
           low  == IF W = 0 THEN p.local ELSE Max({p.local, Prompt - W + 1})
           first == low \div b
           window == IF W = 0 THEN end ELSE back + 1
           top  == Max({l + skip, end - window})
<1>1. b \in Nat \ {0} /\ W \in Nat /\ Lcm % b = 0 /\ Lcm \in Nat \ {0} /\ Prompt \in Nat
  BY GroupType
<1>8. i \in first .. end - 1
  <2>1. first = NeededFrom(p, g)
    BY DEF NeededFrom
  <2> HIDE DEF first, end
  <2>2. PICK h \in Group : \E j \in NeededFrom(p, h) .. cdiv(Prompt, BlockSizes[h]) - 1 :
                             <<g, i>> = <<h, j>>
    BY NeededIn
  <2>3. h = g /\ i \in NeededFrom(p, h) .. cdiv(Prompt, BlockSizes[h]) - 1
    BY <2>2
  <2> QED BY <2>1, <2>3 DEF end
<1>9. i \notin top .. end - 1
  BY SuffixIn DEF SuffixFrom
<1> HIDE DEF b, W, l, end, back, skip, low, first
<1>2. p.local \in Nat /\ p.local % Lcm = 0 /\ p.hit \in Nat /\ p.hit % Lcm = 0 /\ p.hit <= Prompt
  BY <1>1 DEF Spans, Aligned
<1>3. p.local % b = 0 /\ p.hit % b = 0 /\ p.local \in Int /\ p.hit \in Int /\ p.actual \in Int
  <2>1. p.local \in Int /\ p.hit \in Int /\ p.actual \in Int
    BY <1>2
  <2>2. p.local % b = 0
    BY <1>1, <1>2, <2>1, Multiple
  <2>3. p.hit % b = 0
    BY <1>1, <1>2, <2>1, Multiple
  <2> QED BY <2>1, <2>2, <2>3
<1>4. l \in Int /\ p.local = b * l /\ cdiv(p.local, b) = l
  <2>1. p.local = b * l + (p.local % b) /\ l \in Int
    BY <1>1, <1>3, DivMod DEF l
  <2>2. cdiv(p.local, b) = l
    BY <1>1, <1>3, cdivExact DEF l
  <2> QED BY <1>1, <1>3, <2>1, <2>2
<1>5. /\ end \in Int /\ \A j \in Int : j < end <=> b * j < Prompt
      /\ back \in Int /\ \A j \in Int : j < back <=> b * j < W
      /\ skip \in Int /\ \A j \in Int : j < skip <=> b * j < p.actual - p.local
  <2>1. p.actual - p.local \in Int /\ Prompt \in Int /\ W \in Int
    BY <1>1, <1>2
  <2>2. end \in Int /\ \A j \in Int : j < end <=> b * j < Prompt
    BY <1>1, <2>1, cdivCounts DEF end
  <2>3. back \in Int /\ \A j \in Int : j < back <=> b * j < W
    BY <1>1, <2>1, cdivCounts DEF back
  <2>4. skip \in Int /\ \A j \in Int : j < skip <=> b * j < p.actual - p.local
    BY <1>1, <2>1, cdivCounts DEF skip
  <2> QED BY <2>2, <2>3, <2>4
<1>6. low \in Int /\ low >= p.local /\ (W # 0 => low >= Prompt - W + 1)
  BY <1>1, <1>2, MaxOfTwo DEF low
<1>7. first \in Int /\ low < b * first + b /\ b * first <= low
  BY <1>1, <1>6, DivMod DEF first
<1>10. window \in Int
  BY <1>1, <1>5
<1>11. top = IF l + skip >= end - window THEN l + skip ELSE end - window
  <2> HIDE DEF window
  <2> QED BY <1>4, <1>5, <1>10, MaxOfTwo
<1> HIDE DEF top
<1>12. i < top
  BY <1>4, <1>5, <1>7, <1>8, <1>9, <1>10, <1>11
<1>13. low < b * i + b /\ b * i \in Int
  <2>1. first <= i
    BY <1>5, <1>7, <1>8
  <2>2. b * first <= b * i
    BY <1>1, <1>7, <2>1
  <2>3. b * first \in Int /\ b * i \in Int
    BY <1>1, <1>7
  <2> QED BY <1>1, <1>6, <1>7, <2>2, <2>3
<1>14. i >= l
  <2>1. b * l < b * (i + 1)
    BY <1>1, <1>2, <1>4, <1>6, <1>13
  <2>2. l < i + 1
    BY <1>1, <1>4, <2>1, MultipleLess
  <2> QED BY <1>4, <2>2
<1>15. ~(i < end - window)
  <2> SUFFICES ASSUME i < end - window PROVE FALSE
    OBVIOUS
  <2>1. CASE W = 0
    BY <1>5, <2>1
  <2>2. CASE W # 0
    <3>1. i + back + 1 < end
      BY <1>5, <2>2
    <3>2. b * (i + back + 1) < Prompt
      BY <1>5, <3>1
    <3>3. ~(b * back < W)
      BY <1>5
    <3>4. b * (i + back + 1) = b * i + b * back + b
      BY <1>1, <1>5
    <3>5. b * back \in Int
      BY <1>1, <1>5
    <3> QED BY <1>1, <1>6, <1>13, <2>2, <3>2, <3>3, <3>4, <3>5
  <2> QED BY <2>1, <2>2
<1>16. i < l + skip
  BY <1>4, <1>5, <1>10, <1>11, <1>12, <1>15
<1>17. b * i < p.actual
  <2>1. b * (i - l) < p.actual - p.local
    BY <1>4, <1>5, <1>16
  <2>2. b * (i - l) = b * i - b * l
    BY <1>1, <1>4
  <2> QED BY <1>1, <1>2, <1>4, <1>13, <2>1, <2>2
<1>18. <<g, i>> \in RangeBlocks(p.local, p.actual)
  <2>1. cdiv(p.actual, b) \in Int /\ i < cdiv(p.actual, b)
    <3>1. i \in Int
      OBVIOUS
    <3> QED BY <1>1, <1>3, <1>17, <3>1, cdivCounts
  <2>2. i \in cdiv(p.local, b) .. cdiv(p.actual, b) - 1
    BY <1>4, <1>14, <2>1
  <2> QED BY <2>2 DEF RangeBlocks, b
<1>19. ASSUME p.actual <= p.hit PROVE i \in LoadMask(g, p.hit)
  <2> DEFINE h == p.hit \div b
             w == WindowBlocks(g)
  <2>1. h \in Int /\ p.hit = b * h
    <3>1. p.hit = b * h + (p.hit % b) /\ h \in Int
      BY <1>1, <1>3, DivMod
    <3> HIDE DEF h
    <3> QED BY <1>1, <1>3, <3>1
  <2>2. w \in Int /\ \A j \in Int : j < w <=> b * j < W - 1
    <3>1. w = cdiv(W - 1, b)
      BY DEF WindowBlocks, b, W
    <3>2. W - 1 \in Int
      BY <1>1
    <3> HIDE DEF w
    <3> QED BY <1>1, <3>1, <3>2, cdivCounts
  <2>3. Populated(g, p.hit) = {j \in Nat : j < h /\ (W # 0 => j >= h - w)}
    BY <1>2, PopulatedChunks DEF b, W
  <2> HIDE DEF h, w
  <2>4. i < h
    <3>1. b * i < b * h
      BY <1>2, <1>13, <1>17, <1>19, <2>1
    <3> QED BY <1>1, <2>1, <3>1, MultipleLess
  <2>5. ASSUME W # 0 PROVE i >= h - w
    <3> SUFFICES ASSUME i < h - w PROVE FALSE
      BY <2>1, <2>2
    <3>1. i + w + 1 <= h
      BY <2>1, <2>2
    <3>2. b * (i + w + 1) <= b * h
      BY <1>1, <2>1, <2>2, <3>1
    <3>3. b * (i + w + 1) = b * i + b * w + b
      BY <1>1, <2>2
    <3>4. ~(b * w < W - 1)
      BY <2>2
    <3>5. b * w \in Int
      BY <1>1, <2>2
    <3> QED BY <1>1, <1>2, <1>6, <1>13, <2>1, <2>5, <3>2, <3>3, <3>4, <3>5
  <2> QED BY <2>3, <2>4, <2>5 DEF LoadMask
<1> QED BY <1>18, <1>19

LEMMA NeededBlocks ==
  ASSUME NEW p, p.local \in Spans
  PROVE  Needed(p) \subseteq Group \X Nat
<1> SUFFICES ASSUME NEW g \in Group,
                    NEW i \in NeededFrom(p, g) .. cdiv(Prompt, BlockSizes[g]) - 1
             PROVE  <<g, i>> \in Group \X Nat
  BY NeededIn
<1> DEFINE low == IF Windows[g] = 0 THEN p.local ELSE Max({p.local, Prompt - Windows[g] + 1})
<1>1. BlockSizes[g] \in Nat \ {0} /\ Windows[g] \in Nat /\ Prompt \in Nat /\ p.local \in Nat
  BY GroupType DEF Spans
<1>2. low \in Nat
  BY <1>1, MaxOfTwo
<1>3. NeededFrom(p, g) \in Nat
  <2>1. NeededFrom(p, g) = low \div BlockSizes[g]
    BY DEF NeededFrom
  <2> HIDE DEF low
  <2> QED BY <1>1, <1>2, <2>1
<1>4. cdiv(Prompt, BlockSizes[g]) \in Int
  BY <1>1, cdivCounts
<1> QED BY <1>3, <1>4

\* The blocks of a load and of a pull are blocks of the groups.
LEMMA PlannedBlocks ==
  ASSUME NEW p, p.local \in Spans, p.hit \in Spans, NEW actual \in Nat
  PROVE  /\ LoadBlocks(p.local, p.hit) \subseteq Group \X Int
         /\ SuffixBlocks(p, actual) \subseteq Group \X Int
<1>1. p.local \in Int /\ p.hit \in Int /\ Prompt \in Int
  BY GroupType DEF Spans
<1>2. ASSUME NEW g \in Group
      PROVE  /\ cdiv(p.local, BlockSizes[g]) \in Int /\ cdiv(p.hit, BlockSizes[g]) \in Int
             /\ cdiv(Prompt, BlockSizes[g]) \in Int /\ SuffixFrom(p, actual, g) \in Int
  <2> DEFINE b == BlockSizes[g]
             l == p.local \div b
             end == cdiv(Prompt, b)
             back == cdiv(Windows[g], b)
             skip == cdiv(actual - p.local, b)
  <2>1. b \in Nat \ {0} /\ Windows[g] \in Int
    BY GroupType
  <2>2. l \in Int /\ actual - p.local \in Int
    BY <1>1, <2>1
  <2>3. end \in Int /\ back \in Int /\ skip \in Int /\ cdiv(p.local, b) \in Int /\ cdiv(p.hit, b) \in Int
    <3> HIDE DEF b
    <3> QED BY <1>1, <2>1, <2>2, cdivCounts
  <2>4. SuffixFrom(p, actual, g) =
          Max({l + skip, end - (IF Windows[g] = 0 THEN end ELSE back + 1)})
    BY DEF SuffixFrom
  <2> HIDE DEF l, skip, end, back
  <2>5. SuffixFrom(p, actual, g) \in Int
    <3>1. l + skip \in Int /\ end - (IF Windows[g] = 0 THEN end ELSE back + 1) \in Int
      BY <2>2, <2>3
    <3> QED BY <2>4, <3>1, MaxOfTwo
  <2> QED BY <2>3, <2>5 DEF end
<1>3. LoadBlocks(p.local, p.hit) \subseteq Group \X Int
  <2>1. RangeBlocks(p.local, p.hit) \subseteq Group \X Int
    BY <1>2 DEF RangeBlocks
  <2> QED BY <2>1 DEF LoadBlocks
<1>4. SuffixBlocks(p, actual) \subseteq Group \X Int
  BY <1>2, SuffixIn
<1> QED BY <1>3, <1>4

LEMMA PlanStart == PlanInit => PlanInv
<1> SUFFICES ASSUME PlanInit PROVE PlanInv
  OBVIOUS
<1>1. 0 \in Spans /\ 0 \in Rank
  BY GroupType, PlanAssumption DEF Spans, Aligned, Rank
<1> QED BY <1>1 DEF PlanInit, PlanInv, Loaded

LEMMA PlanMatch ==
  ASSUME PlanInv, NEW rank \in Rank, Match(rank)
  PROVE  PlanInv'
<1> DEFINE found == Lookup(Floor(Prompt))
<1>1. PICK local \in Spans :
        plan' = [plan EXCEPT !.rank = rank, !.local = local, !.hit = Max({found, local}),
                             !.actual = local,
                             !.stage = IF found > local THEN "load" ELSE "pull"]
  BY DEF Match
<1>2. found \in Spans /\ local \in Nat
  <2>1. Floor(Prompt) \in Spans /\ Prompt \in Nat
    BY FloorInSpans, GroupType
  <2>2. Longest(found, Floor(Prompt), Present)
    BY <2>1, LookupLongest
  <2> HIDE DEF found
  <2> QED BY <2>1, <2>2 DEF Longest, Loadable, Spans
<1> HIDE DEF found
<1>3. found \in Nat
  BY <1>2 DEF Spans
<1>4. Max({found, local}) = IF found >= local THEN found ELSE local
  BY <1>2, <1>3, MaxOfTwo
<1> DEFINE hit == Max({found, local})
<1>5. hit \in Spans /\ local <= hit
  BY <1>2, <1>3, <1>4
<1> HIDE DEF hit
<1>6. plan.asked = {} /\ plan.failed = {}
  BY DEF Match, PlanInv, Loaded
<1> QED BY <1>1, <1>2, <1>5, <1>6 DEF PlanInv, Loaded, hit

LEMMA PlanLoad ==
  ASSUME PlanInv, Load
  PROVE  PlanInv'
<1> DEFINE asked == LoadBlocks(plan.local, plan.hit)
           gone  == {b \in asked : <<b[1], b[2], KeyRank(plan.rank)>> \notin store}
<1>1. PICK bad \in SUBSET asked :
        plan' = [plan EXCEPT !.stage = "pull", !.asked = asked, !.failed = gone \cup bad,
                             !.actual = LoadedPrefix(plan.local, plan.hit, gone \cup bad)]
  BY DEF Load
<1>2. asked \subseteq Group \X Int
  BY PlannedBlocks DEF PlanInv
<1>3. gone \cup bad \subseteq Group \X Int
  BY <1>2
<1> DEFINE failed == gone \cup bad
           actual == LoadedPrefix(plan.local, plan.hit, failed)
<1> HIDE DEF failed
<1>4. actual \in Nat
  <2>1. plan.local \in Nat /\ plan.hit \in Nat
    BY GroupType DEF PlanInv, Spans
  <2> QED BY <2>1, LoadedPrefixAfterFrom
<1> HIDE DEF actual, asked
<1>5. plan' = [plan EXCEPT !.stage = "pull", !.asked = asked, !.failed = failed, !.actual = actual]
  BY <1>1 DEF failed, actual
<1>6. /\ plan'.asked = LoadBlocks(plan'.local, plan'.hit)
      /\ plan'.actual = LoadedPrefix(plan'.local, plan'.hit, plan'.failed)
  BY <1>5 DEF PlanInv, asked, actual
<1> QED BY <1>2, <1>3, <1>4, <1>5, <1>6 DEF PlanInv, Loaded, failed

LEMMA PlanPull ==
  ASSUME PlanInv, Pull
  PROVE  PlanInv'
<1> DEFINE suffix == SuffixBlocks(plan, plan.actual)
<1>1. plan' = [plan EXCEPT !.stage = "done", !.suffix = suffix]
  BY DEF Pull
<1>2. suffix \subseteq Group \X Int
  BY PlannedBlocks DEF PlanInv
<1>3. plan' = [plan EXCEPT !.stage = "done", !.suffix = suffix] => SuffixBlocks(plan', plan'.actual) = suffix
  <2> SUFFICES ASSUME plan' = [plan EXCEPT !.stage = "done", !.suffix = suffix]
               PROVE  SuffixBlocks(plan', plan'.actual) = suffix
    OBVIOUS
  <2>1. plan'.local = plan.local /\ plan'.actual = plan.actual
    BY DEF PlanInv
  <2> QED BY <2>1 DEF SuffixBlocks
<1> HIDE DEF suffix
<1> QED BY <1>1, <1>2, <1>3 DEF PlanInv, Loaded, Pull

LEMMA PlanNextKeeps == PlanInv /\ [PlanNext]_planVars => PlanInv'
<1> SUFFICES ASSUME PlanInv, [PlanNext]_planVars PROVE PlanInv'
  OBVIOUS
<1>1. ASSUME UNCHANGED plan PROVE PlanInv'
  BY <1>1 DEF PlanInv, Loaded
<1>2. ASSUME NEW rank \in Rank, Save(rank) PROVE PlanInv'
  BY <1>1, <1>2 DEF Save
<1>3. ASSUME NEW rank \in Rank, Match(rank) PROVE PlanInv'
  BY <1>3, PlanMatch
<1>4. CASE Evict
  BY <1>1, <1>4 DEF Evict
<1>5. CASE Load
  BY <1>5, PlanLoad
<1>6. CASE Pull
  BY <1>6, PlanPull
<1>7. CASE UNCHANGED planVars
  BY <1>1, <1>7 DEF planVars
<1> QED BY <1>2, <1>3, <1>4, <1>5, <1>6, <1>7 DEF PlanNext

\* The plan of the D rank, from the lookup to the pull.
THEOREM PlanInductive == PlanSpec => []PlanInv
BY PlanStart, PlanNextKeeps, PTL DEF PlanSpec

\* What the next token needs and neither the local prefix nor a GET provided
\* is asked from P.
THEOREM SuffixIsEnough == PlanSpec => []SuffixCovers
<1>1. PlanInv => SuffixCovers
  <2> SUFFICES ASSUME PlanInv, plan.stage = "done", NEW x \in Needed(plan),
                      x \notin plan.suffix
               PROVE  x \in plan.asked \ plan.failed
    BY DEF SuffixCovers
  <2>1. /\ plan.local \in Spans /\ plan.hit \in Spans /\ plan.actual \in Nat
        /\ plan.local \in Nat /\ plan.hit \in Nat /\ plan.local <= plan.hit
        /\ Loaded(plan) /\ plan.suffix = SuffixBlocks(plan, plan.actual)
    BY DEF PlanInv, Spans
  <2>2. PICK g \in Group, i \in Nat : x = <<g, i>>
    BY <2>1, NeededBlocks
  <2>3. CASE plan.asked = {} /\ plan.failed = {} /\ plan.actual = plan.local
    <3>1. <<g, i>> \in RangeBlocks(plan.local, plan.actual)
      BY <2>1, <2>2, <2>3, SuffixAndLoad
    <3>2. RangeBlocks(plan.local, plan.actual) = {}
      <4>1. plan.local \in Int
        BY <2>1
      <4> QED BY <2>3, <4>1, EmptyRange
    <3> QED BY <3>1, <3>2
  <2>4. CASE /\ plan.asked = LoadBlocks(plan.local, plan.hit)
             /\ plan.actual = LoadedPrefix(plan.local, plan.hit, plan.failed)
    <3>1. /\ plan.actual <= plan.hit
          /\ RangeBlocks(plan.local, plan.actual) \subseteq RangeBlocks(plan.local, plan.hit) \ plan.failed
      BY <2>1, <2>4, PrefixIsGood
    <3>2. plan.local <= plan.actual
      BY <2>1, <2>4, LoadedPrefixAfterFrom
    <3>3. <<g, i>> \in RangeBlocks(plan.local, plan.actual) /\ i \in LoadMask(g, plan.hit)
      BY <2>1, <2>2, <3>1, <3>2, SuffixAndLoad
    <3> QED BY <2>2, <2>4, <3>1, <3>3 DEF LoadBlocks
  <2> QED BY <2>1, <2>3, <2>4 DEF Loaded
<1> QED BY <1>1, PlanInductive, PTL

-----------------------------------------------------------------------------
(* What the ranks save. *)

\* Whether a chunk is stored does not depend on the length of a save.
Stored(g, i) ==
  \/ \A h \in Group : Windows[h] = 0 \/ BlockSizes[h] = Lcm
  \/ i % (Lcm \div BlockSizes[g]) \in Populated(g, Lcm)

Striped(rank, g, i) == i % PutStep = (rank + g - 1) % PutStep

LEMMA ChunksOf ==
  ASSUME NEW g \in Group, NEW n \in Spans
  PROVE  /\ n \div BlockSizes[g] \in Nat /\ n \in Nat
         /\ cdiv(n, BlockSizes[g]) = n \div BlockSizes[g]
         /\ n \div BlockSizes[g] = (n \div Lcm) * (Lcm \div BlockSizes[g])
         /\ Lcm \div BlockSizes[g] \in Nat \ {0} /\ n \div Lcm \in Nat
<1> DEFINE b == BlockSizes[g]
<1>1. b \in Nat \ {0} /\ Lcm % b = 0 /\ Lcm \in Nat \ {0} /\ Lcm \in Int
  BY GroupType
<1>2. n \in Nat /\ n \in Int /\ n % Lcm = 0
  BY <1>1 DEF Spans, Aligned
<1> HIDE DEF b
<1>3. n % b = 0 /\ n \div b = (n \div Lcm) * (Lcm \div b)
  BY <1>1, <1>2, Multiple
<1>4. cdiv(n, b) = n \div b
  BY <1>1, <1>2, <1>3, cdivExact
<1>5. n \div b \in Nat /\ n \div Lcm \in Nat
  BY <1>1, <1>2
<1>6. Lcm \div b \in Nat \ {0}
  <2>1. Lcm = b * (Lcm \div b) + (Lcm % b) /\ Lcm \div b \in Int
    BY <1>1, DivMod
  <2>2. Lcm \div b # 0
    <3> SUFFICES ASSUME Lcm \div b = 0 PROVE FALSE
      OBVIOUS
    <3> QED BY <1>1, <2>1
  <2> QED BY <1>1, <2>1, <2>2
<1> QED BY <1>2, <1>3, <1>4, <1>5, <1>6 DEF b

\* The chunks that a save puts are the stored ones of its range.
LEMMA RelativeMaskIs ==
  ASSUME NEW g \in Group, NEW from \in Spans, NEW to \in Spans
  PROVE  RelativeMask(g, from, to) =
           {i \in (from \div BlockSizes[g]) .. (to \div BlockSizes[g]) - 1 : Stored(g, i)}
<1> DEFINE b     == BlockSizes[g]
           first == from \div b
           last  == to \div b
           mask  == {i - first : i \in {j \in StoreMask(g, to) : j >= first}}
<1>1. first \in Nat /\ last \in Nat /\ cdiv(from, b) = first /\ cdiv(to, b) = last
  BY ChunksOf
<1>2. StoreMask(g, to) = {i \in 0 .. last - 1 : Stored(g, i)}
  BY DEF StoreMask, Stored
<1>3. RelativeMask(g, from, to) = {i \in first .. last - 1 : i - first \in mask}
  BY <1>1 DEF RelativeMask
<1> HIDE DEF first, last
<1>4. ASSUME NEW i \in first .. last - 1
      PROVE  i - first \in mask <=> Stored(g, i)
  <2>1. i \in 0 .. last - 1 /\ i >= first /\ i \in Int
    BY <1>1
  <2>2. ASSUME Stored(g, i) PROVE i - first \in mask
    BY <1>2, <2>1, <2>2
  <2>3. ASSUME i - first \in mask PROVE Stored(g, i)
    <3>1. PICK j \in 0 .. last - 1 : Stored(g, j) /\ i - first = j - first
      BY <1>2, <2>3
    <3>2. i = j
      BY <1>1, <2>1, <3>1
    <3> QED BY <3>1, <3>2
  <2> QED BY <2>2, <2>3
<1> HIDE DEF mask
<1> QED BY <1>3, <1>4 DEF first, last

LEMMA SaveKeysAre ==
  ASSUME NEW rank \in Rank, NEW from \in Spans, NEW to \in Spans, NEW x
  PROVE  x \in SaveKeys(rank, from, to) <=>
           \E g \in Group :
             \E i \in (from \div BlockSizes[g]) .. (to \div BlockSizes[g]) - 1 :
               Stored(g, i) /\ Striped(rank, g, i) /\ x = <<g, i, KeyRank(rank)>>
<1> DEFINE chunks(g) == {i \in (from \div BlockSizes[g]) .. (to \div BlockSizes[g]) - 1 : Stored(g, i)}
<1>1. \A g \in Group : RelativeMask(g, from, to) = chunks(g)
  BY RelativeMaskIs
<1>2. SaveKeys(rank, from, to) =
        UNION {{<<g, i, KeyRank(rank)>> : i \in {j \in RelativeMask(g, from, to) : Striped(rank, g, j)}} :
                 g \in Group}
  BY DEF SaveKeys, Striped
<1>3. x \in SaveKeys(rank, from, to) <=>
        \E g \in Group : \E i \in RelativeMask(g, from, to) :
          Striped(rank, g, i) /\ x = <<g, i, KeyRank(rank)>>
  BY <1>2
<1> QED BY <1>1, <1>3

\* Two saves put what one would have put.
LEMMA SavesJoin ==
  ASSUME NEW rank \in Rank, NEW from \in Spans, NEW to \in Spans
  PROVE  SaveKeys(rank, 0, to) \subseteq SaveKeys(rank, 0, from) \cup SaveKeys(rank, from, to)
<1>1. 0 \in Spans
  BY GroupType DEF Spans, Aligned
<1> SUFFICES ASSUME NEW x \in SaveKeys(rank, 0, to), x \notin SaveKeys(rank, from, to)
             PROVE  x \in SaveKeys(rank, 0, from)
  OBVIOUS
<1>2. PICK g \in Group :
        \E i \in (0 \div BlockSizes[g]) .. (to \div BlockSizes[g]) - 1 :
          Stored(g, i) /\ Striped(rank, g, i) /\ x = <<g, i, KeyRank(rank)>>
  BY <1>1, SaveKeysAre
<1>3. PICK i \in (0 \div BlockSizes[g]) .. (to \div BlockSizes[g]) - 1 :
        Stored(g, i) /\ Striped(rank, g, i) /\ x = <<g, i, KeyRank(rank)>>
  BY <1>2
<1>4. /\ 0 \div BlockSizes[g] \in Nat /\ to \div BlockSizes[g] \in Nat
      /\ from \div BlockSizes[g] \in Nat
  BY <1>1, ChunksOf
<1>5. i \notin (from \div BlockSizes[g]) .. (to \div BlockSizes[g]) - 1
  BY <1>3, SaveKeysAre
<1>6. i \in (0 \div BlockSizes[g]) .. (from \div BlockSizes[g]) - 1
  BY <1>4, <1>5
<1> QED BY <1>1, <1>3, <1>6, SaveKeysAre

\* The template stores all that a hit of any length loads.
LEMMA MaskCovers ==
  ASSUME NEW g \in Group, NEW n \in Spans, NEW i \in Populated(g, n)
  PROVE  Stored(g, i)
<1> DEFINE per == Lcm \div BlockSizes[g]
           c   == n \div BlockSizes[g]
           m   == n \div Lcm
           w   == WindowBlocks(g)
           s   == i \div per
           t   == i % per
<1>1. n \in Nat /\ c \in Nat /\ per \in Nat \ {0} /\ m \in Nat /\ c = m * per
  BY ChunksOf
<1>2. i \in Nat /\ i < c /\ (Windows[g] # 0 => i >= c - w) /\ w \in Int
  BY <1>1, PopulatedChunks
<1>3. Populated(g, Lcm) = {j \in Nat : j < per /\ (Windows[g] # 0 => j >= per - w)}
  BY GroupType, PopulatedChunks
<1> HIDE DEF per, c, m, w
<1>4. s \in Int /\ t \in 0 .. per - 1 /\ i = per * s + t
  BY <1>1, <1>2, DivMod
<1> HIDE DEF s, t
<1>5. per * s < per * m
  BY <1>1, <1>2, <1>4
<1>6. s <= m - 1
  <2>1. s < m
    BY <1>1, <1>4, <1>5, MultipleLess
  <2> QED BY <1>1, <1>4, <2>1
<1>7. per * s <= c - per
  <2>1. per * s <= per * (m - 1)
    BY <1>1, <1>4, <1>6
  <2>2. per * (m - 1) = m * per - per
    BY <1>1
  <2> QED BY <1>1, <2>1, <2>2
<1>8. Windows[g] # 0 => t >= per - w
  <2>1. per * s \in Int
    BY <1>1, <1>4
  <2> QED BY <1>1, <1>2, <1>4, <1>7, <2>1
<1>9. t \in Populated(g, Lcm)
  BY <1>1, <1>3, <1>4, <1>8
<1> QED BY <1>9 DEF Stored, per, t

\* Each chunk has a rank that puts it for each key rank.
LEMMA StripesCover ==
  ASSUME NEW g \in Group, NEW i \in Nat, NEW k \in KeyRanks
  PROVE  \E rank \in Rank : KeyRank(rank) = k /\ Striped(rank, g, i)
<1> DEFINE P == PutStep
           d == i - (g - 1)
           q == d \div P
           r == d % P
           u == i \div P
           v == i % P
           rank == P * k + r
<1>1. P \in Nat \ {0} /\ k \in Nat /\ g \in Nat
  BY KeyRanksType, GroupType
<1>2. d \in Int
  BY <1>1
<1>3. q \in Int /\ r \in 0 .. P - 1 /\ d = P * q + r
  <2> HIDE DEF d, P
  <2> QED BY <1>1, <1>2, DivMod
<1>4. u \in Int /\ v \in 0 .. P - 1 /\ i = P * u + v
  <2> HIDE DEF P
  <2> QED BY <1>1, DivMod
<1>5. P * k + P <= TPSize
  <2>1. CASE NumKVHead < TPSize
    <3>1. P = TPSize \div NumKVHead /\ k <= NumKVHead - 1 /\ TPSize % NumKVHead = 0
      BY <2>1, PlanAssumption DEF PutStep, KeyRanks
    <3>2. TPSize = NumKVHead * P
      <4>1. TPSize = NumKVHead * (TPSize \div NumKVHead) + (TPSize % NumKVHead)
        BY PlanAssumption, DivMod
      <4> QED BY <3>1, <4>1, PlanAssumption
    <3> HIDE DEF P
    <3>3. P * (k + 1) <= P * NumKVHead
      BY <1>1, <3>1, PlanAssumption
    <3>4. P * (k + 1) = P * k + P /\ P * NumKVHead = NumKVHead * P
      BY <1>1, PlanAssumption
    <3> QED BY <3>2, <3>3, <3>4
  <2>2. CASE ~(NumKVHead < TPSize)
    BY <1>1, <2>2, PlanAssumption DEF PutStep, KeyRanks
  <2> QED BY <2>1, <2>2
<1> HIDE DEF P, q, r, u, v
<1>6. rank \in Rank
  <2>1. P * k \in Nat
    BY <1>1
  <2> QED BY <1>1, <1>3, <1>5, <2>1, PlanAssumption DEF Rank
<1>7. KeyRank(rank) = k
  <2>1. (P * k + r) \div P = k
    <3>1. k \in Int
      BY <1>1
    <3> QED BY <1>1, <1>3, <3>1, Quotient
  <2> QED BY <2>1 DEF KeyRank, P
<1>8. Striped(rank, g, i)
  <2> DEFINE z == u + k - q
  <2>1. z \in Int /\ rank + g - 1 = P * z + v
    <3>1. rank + g - 1 = P * k + i - P * q
      <4>1. P * k \in Int /\ P * q \in Int
        BY <1>1, <1>3
      <4> QED BY <1>1, <1>3, <4>1
    <3>2. P * z = P * u + P * k - P * q
      BY <1>1, <1>3, <1>4
    <3>3. P * k \in Int /\ P * q \in Int /\ P * u \in Int
      BY <1>1, <1>3, <1>4
    <3> QED BY <1>1, <1>3, <1>4, <3>1, <3>2, <3>3
  <2> HIDE DEF z
  <2>2. (P * z + v) % P = v
    BY <1>1, <1>4, <2>1, Quotient
  <2> QED BY <2>1, <2>2 DEF Striped, P, v
<1> QED BY <1>6, <1>7, <1>8

\* What a rank saved is in the Store as long as nothing was lost.
SavedInv ==
  /\ saved \in [Rank -> Spans]
  /\ lost = {} => \A rank \in Rank : SaveKeys(rank, 0, saved[rank]) \subseteq store

LEMMA SavedNext == SavedInv /\ [PlanNext]_planVars => SavedInv'
<1> SUFFICES ASSUME SavedInv, [PlanNext]_planVars PROVE SavedInv'
  OBVIOUS
<1>1. ASSUME UNCHANGED <<store, saved, lost>> PROVE SavedInv'
  BY <1>1 DEF SavedInv
<1>2. ASSUME NEW rank \in Rank, Save(rank) PROVE SavedInv'
  <2>1. PICK to \in Spans :
          \E miss \in SUBSET SaveKeys(rank, saved[rank], to) :
            /\ store' = store \cup (SaveKeys(rank, saved[rank], to) \ miss)
            /\ lost' = lost \cup miss
            /\ saved' = [saved EXCEPT ![rank] = to]
    BY <1>2 DEF Save
  <2>2. PICK miss \in SUBSET SaveKeys(rank, saved[rank], to) :
          /\ store' = store \cup (SaveKeys(rank, saved[rank], to) \ miss)
          /\ lost' = lost \cup miss
          /\ saved' = [saved EXCEPT ![rank] = to]
    BY <2>1
  <2>3. saved' \in [Rank -> Spans]
    BY <2>2 DEF SavedInv
  <2>4. ASSUME lost' = {}, NEW other \in Rank
        PROVE  SaveKeys(other, 0, saved'[other]) \subseteq store'
    <3>1. lost = {} /\ miss = {}
      BY <2>2, <2>4
    <3>2. SaveKeys(other, 0, saved[other]) \subseteq store'
      BY <2>2, <2>4, <3>1 DEF SavedInv
    <3>3. CASE other = rank
      <4>1. saved[rank] \in Spans /\ saved'[rank] = to
        BY <2>2 DEF SavedInv
      <4>2. SaveKeys(rank, 0, to) \subseteq SaveKeys(rank, 0, saved[rank]) \cup SaveKeys(rank, saved[rank], to)
        BY <4>1, SavesJoin
      <4> QED BY <2>2, <3>1, <3>2, <3>3, <4>1, <4>2
    <3>4. CASE other # rank
      <4>1. saved'[other] = saved[other]
        BY <2>2, <2>4, <3>4 DEF SavedInv
      <4> QED BY <3>2, <4>1
    <3> QED BY <3>3, <3>4
  <2> QED BY <2>3, <2>4 DEF SavedInv
<1>3. ASSUME NEW rank \in Rank, Match(rank) PROVE SavedInv'
  BY <1>1, <1>3 DEF Match
<1>4. CASE Evict
  BY <1>4 DEF Evict, SavedInv
<1>5. CASE Load
  BY <1>1, <1>5 DEF Load
<1>6. CASE Pull
  BY <1>1, <1>6 DEF Pull
<1>7. CASE UNCHANGED planVars
  BY <1>1, <1>7 DEF planVars
<1> QED BY <1>2, <1>3, <1>4, <1>5, <1>6, <1>7 DEF PlanNext

\* While nothing was lost, the Store has all that the saves of a rank, however
\* they are cut, had to put.
THEOREM SavedInductive == PlanSpec => []SavedInv
<1>1. PlanInit => SavedInv
  <2> SUFFICES ASSUME PlanInit, NEW rank \in Rank PROVE SaveKeys(rank, 0, 0) = {}
    BY GroupType DEF PlanInit, SavedInv, Spans, Aligned
  <2>1. 0 \in Spans
    BY GroupType DEF Spans, Aligned
  <2>2. \A g \in Group : (0 \div BlockSizes[g]) .. (0 \div BlockSizes[g]) - 1 = {}
    BY <2>1, ChunksOf
  <2> QED BY <2>1, <2>2, SaveKeysAre
<1> QED BY <1>1, SavedNext, PTL DEF PlanSpec

\* What every rank has saved, in however many saves, is found at every length
\* as long as nothing of it was lost.
THEOREM SavedHitsAreFound == PlanSpec => []SavedIsFound
<1>1. SavedInv => SavedIsFound
  <2> DEFINE done == Min({saved[rank] : rank \in Rank})
  <2> SUFFICES ASSUME SavedInv, lost = {}, NEW tokens \in Spans, tokens <= done
               PROVE  Lookup(tokens) = tokens
    BY DEF SavedIsFound
  <2>1. tokens \in Nat /\ Spans \subseteq Nat
    BY DEF Spans
  <2>2. \A rank \in Rank : saved[rank] \in Nat /\ tokens <= saved[rank]
    <3> DEFINE T == {saved[rank] : rank \in Rank}
    <3>1. T \subseteq Nat /\ T # {}
      <4>1. \A rank \in Rank : saved[rank] \in Nat
        BY <2>1 DEF SavedInv
      <4>2. 0 \in Rank
        BY PlanAssumption DEF Rank
      <4> QED BY <4>1, <4>2
    <3>2. \A rank \in Rank : saved[rank] \in T
      OBVIOUS
    <3>3. done = Min(T)
      OBVIOUS
    <3> HIDE DEF T, done
    <3>4. done \in T /\ \A x \in T : done <= x
      BY <3>1, <3>3, LeastNat
    <3> SUFFICES ASSUME NEW rank \in Rank PROVE saved[rank] \in Nat /\ tokens <= saved[rank]
      OBVIOUS
    <3>5. saved[rank] \in Nat /\ done \in Nat /\ done <= saved[rank]
      BY <3>1, <3>2, <3>4
    <3> QED BY <2>1, <3>5
  <2>3. ASSUME NEW g \in Group, NEW i \in Populated(g, tokens), NEW k \in KeyRanks
        PROVE  <<g, i, k>> \in store
    <3>1. /\ i \in Nat /\ i < tokens \div BlockSizes[g]
      BY <2>1, PopulatedChunks
    <3>2. PICK rank \in Rank : KeyRank(rank) = k /\ Striped(rank, g, i)
      BY <3>1, StripesCover
    <3>3. saved[rank] \in Spans /\ tokens <= saved[rank] /\ 0 \in Spans
      BY <2>2, GroupType DEF SavedInv, Spans, Aligned
    <3>4. /\ tokens \div BlockSizes[g] <= saved[rank] \div BlockSizes[g]
          /\ tokens \div BlockSizes[g] \in Nat /\ saved[rank] \div BlockSizes[g] \in Nat
          /\ 0 \div BlockSizes[g] = 0
      <4>1. BlockSizes[g] \in Nat \ {0} /\ tokens \in Int /\ saved[rank] \in Int
        BY <2>1, <2>2, GroupType
      <4>2. tokens \div BlockSizes[g] <= saved[rank] \div BlockSizes[g]
        BY <3>3, <4>1, QuotientsOrdered
      <4> QED BY <3>3, <4>1, <4>2, ChunksOf
    <3>5. i \in (0 \div BlockSizes[g]) .. (saved[rank] \div BlockSizes[g]) - 1
      BY <3>1, <3>4
    <3>6. Stored(g, i)
      BY MaskCovers
    <3>7. <<g, i, k>> \in SaveKeys(rank, 0, saved[rank])
      BY <3>2, <3>3, <3>5, <3>6, SaveKeysAre
    <3> QED BY <3>7 DEF SavedInv
  <2>4. Loadable(tokens, Present)
    BY <2>3, PresentBlocks DEF Loadable, Cached, Spans
  <2>5. Longest(Lookup(tokens), tokens, Present)
    BY LookupLongest
  <2>6. tokens \in 0 .. tokens
    BY <2>1
  <2> QED BY <2>1, <2>4, <2>5, <2>6 DEF Longest
<1> QED BY <1>1, SavedInductive, PTL

=============================================================================
