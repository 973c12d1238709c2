-------------------------- MODULE PDTransferProofs --------------------------
(***************************************************************************)
(* Proofs about PDTransfer, for every size of the two engines, any set of  *)
(* requests and any bounds, lossy peers and failing bootstraps included.   *)
(*                                                                         *)
(* The invariant PDInv ties the three places where a receive is known: the *)
(* D rank's books (events, futures, results, counts), the pull tasks with  *)
(* the requests they still wait for, and the sender tasks with the answers *)
(* they have given and those they owe.                                     *)
(***************************************************************************)
EXTENDS PDTransfer, KVAnswersProofs

\* A batch that a D rank has asked, or is about to ask, P ranks for.
Asked(d, b) == \/ discovery[d][b] # "none"
               \/ \E m \in Msg : m.d = d /\ m.batch = b /\ pull[m].stage # "none"

\* A request that some task of the D rank still has to bring to an end.
Awaited(d, r) == \/ \E b \in Batch : r \in b /\ discovery[d][b] # "none"
                 \/ Owing(d, r) # {}

\* The blocks of a receive are open as long as it is in _recv_events, and
\* closed once it is retired.
TargetsKnown ==
  \A d \in DRank, r \in Req :
    /\ target[d][r] = "open" <=> r \in events[d]
    /\ target[d][r] = "closed" <=> r \in retired[d]

\* A request is received in one batch, and never again.
OneAttempt ==
  /\ \A d \in DRank, b, c \in Batch : Asked(d, b) /\ Asked(d, c) /\ b \cap c # {} => b = c
  /\ \A d \in DRank, b \in Batch : Asked(d, b) => \A r \in b : target[d][r] # "unused"

\* No P rank is asked before the discovery of the engine is over.
DiscoveryFirst ==
  \A m \in Msg : discovery[m.d][m.batch] # "none" => pull[m].stage = "none"

\* While a task has work to do for a request there is no result, the blocks
\* are open, and a fence still waits, unless D has failed as a whole.
AwaitedOpen ==
  \A d \in DRank, r \in Req : Awaited(d, r) =>
    /\ target[d][r] = "open" /\ r \notin finished[d]
    /\ future[d][r] = "pending" \/ fatal[d]

\* Results and fences are about open receives.
ResultsOpen ==
  \A d \in DRank : \A r \in finished[d] \cup fenced[d] : target[d][r] = "open"

\* receive_kv starts the pulls from all the paired P ranks at once.
PulledTogether ==
  \A m \in Msg : pull[m].stage # "none" =>
    /\ RatioOk(DTp, PTp) /\ m.p \in SourcesOf(m.d)
    /\ \A p \in SourcesOf(m.d) : pull[[m EXCEPT !.p = p]].stage # "none"

\* Each stage of a pull task, with what its P rank has said and has to say.
PullShape ==
  \A m \in Msg :
    /\ pull[m].remaining \subseteq m.batch
    /\ pull[m].stage \in {"none", "start"} => m \notin posted
    /\ pull[m].stage \in {"none", "closed"} => pull[m].remaining = {}
    /\ pull[m].stage = "closed" /\ m \in posted => task[m].stage = "done"
    /\ pull[m].stage = "lost" => fatal[m.d]
    /\ pull[m].stage = "start" => pull[m].remaining = m.batch
    /\ pull[m].stage \in {"open", "lost"} =>
         m \in posted /\ Fit(m, pull[m].remaining, replies[m], task[m], served)
    /\ m \notin posted => replies[m] = <<>>

\* Of an open receive a P rank has failed, or owes, or written its part.
ResultsTrue ==
  \A m \in Msg : \A r \in m.batch :
    pull[m].stage # "none" /\ target[m.d][r] = "open" =>
      \/ r \in failed[m.d] \/ r \in pull[m].remaining
      \/ <<m.d, m.p, r>> \in served

\* Success is reported only of what was pulled.
FinishedPulled ==
  \A d \in DRank : \A r \in finished[d] \ failed[d] :
    \E m \in Msg : m.d = d /\ r \in m.batch /\ pull[m].stage # "none"

PDInv == /\ IInv /\ ReceiverTypeOK /\ GoneInv /\ TargetsKnown /\ OneAttempt /\ DiscoveryFirst
         /\ AwaitedOpen /\ ResultsOpen /\ PulledTogether /\ PullShape
         /\ ResultsTrue /\ FinishedPulled /\ CountExact

-----------------------------------------------------------------------------
(***************************************************************************)
(* The rank pairing.  Both sides compute it on their own; when one TP size *)
(* divides the other they agree, whichever is the larger.                  *)
(***************************************************************************)
LEMMA ExactQuotient ==
  ASSUME NEW a \in Nat \ {0}, NEW b \in Nat \ {0}, a % b = 0, a >= b
  PROVE  a = b * (a \div b) /\ a \div b \in Nat \ {0}
OBVIOUS

\* A quotient is where the multiples of the divisor enclose the number.
LEMMA QuotientIs ==
  ASSUME NEW x \in Nat, NEW k \in Nat \ {0}, NEW y \in Nat
  PROVE  x \div k = y <=> y * k <= x /\ x < y * k + k
OBVIOUS

\* Block y of n blocks of length k ends within them.
LEMMA ProductFits ==
  ASSUME NEW y \in Nat, NEW n \in Nat, NEW k \in Nat, y < n
  PROVE  y * k \in Nat /\ n * k \in Nat /\ y * k + k <= n * k
OBVIOUS

\* Rank y of the small engine is paired with the k ranks from y * k on.
LEMMA PairsAre ==
  ASSUME NEW big \in Nat \ {0}, NEW small \in Nat \ {0}, big >= small, big % small = 0,
         NEW x \in 0 .. big - 1, NEW y \in 0 .. small - 1
  PROVE  LET k == big \div small IN
           /\ TargetRanks(x, big, small) \subseteq 0 .. small - 1
           /\ y \in TargetRanks(x, big, small) <=> y * k <= x /\ x < y * k + k
           /\ small < big =>
                /\ TargetRanks(y, small, big) \subseteq 0 .. big - 1
                /\ x \in TargetRanks(y, small, big) <=> y * k <= x /\ x < y * k + k
<1> DEFINE k == big \div small
<1>1. big = small * k /\ k \in Nat \ {0}
  BY ExactQuotient
<1>2. TargetRanks(x, big, small) = {x \div k}
  BY DEF TargetRanks
<1>3. small < big => TargetRanks(y, small, big) = {y * k + i : i \in 0 .. k - 1}
  <2>1. small < big => ~(small >= big)
    OBVIOUS
  <2> QED BY <2>1, Zenon DEF TargetRanks
<1> HIDE DEF k
<1>4. x \div k \in 0 .. small - 1
  <2>1. PICK z \in Nat : z = x \div k
    BY <1>1
  <2>2. z * k <= x
    BY <1>1, <2>1, QuotientIs
  <2>3. CASE small <= z
    <3>1. small * k <= z * k
      BY <1>1, <2>1, <2>3
    <3> QED BY <1>1, <2>2, <3>1
  <2> QED BY <2>1, <2>3
<1>5. y \in {x \div k} <=> y * k <= x /\ x < y * k + k
  BY <1>1, QuotientIs
<1>6. y * k \in Nat /\ y * k + k <= big
  BY <1>1, ProductFits
<1>7. {y * k + i : i \in 0 .. k - 1} \subseteq 0 .. big - 1
  BY <1>1, <1>6
<1>8. x \in {y * k + i : i \in 0 .. k - 1} <=> y * k <= x /\ x < y * k + k
  <2>1. ASSUME y * k <= x, x < y * k + k
        PROVE  x - y * k \in 0 .. k - 1 /\ x = y * k + (x - y * k)
    BY <1>1, <1>6, <2>1
  <2>2. ASSUME NEW i \in 0 .. k - 1, x = y * k + i
        PROVE  y * k <= x /\ x < y * k + k
    BY <1>1, <1>6, <2>2
  <2> QED BY <2>1, <2>2
<1> QED BY <1>2, <1>3, <1>4, <1>5, <1>7, <1>8 DEF k

\* D asks exactly the P ranks that will serve it.
LEMMA PairingAgrees ==
  ASSUME RatioOk(DTp, PTp), NEW d \in DRank, NEW p \in PRank
  PROVE  RatioOk(PTp, DTp) /\ (p \in SourcesOf(d) <=> d \in ServedBy(p))
<1> USE TpAssumption DEF DRank, PRank, SourcesOf, ServedBy, RatioOk
<1>1. CASE PTp = DTp
  <2>1. p \in SourcesOf(d) <=> p * (DTp \div PTp) <= d /\ d < p * (DTp \div PTp) + DTp \div PTp
    BY <1>1, PairsAre
  <2>2. d \in ServedBy(p) <=> d * (PTp \div DTp) <= p /\ p < d * (PTp \div DTp) + PTp \div DTp
    BY <1>1, PairsAre
  <2>3. DTp \div PTp = 1 /\ PTp \div DTp = 1
    BY <1>1
  <2> QED BY <1>1, <2>1, <2>2, <2>3
<1>2. CASE PTp < DTp
  <2>1. /\ DTp \in Nat \ {0} /\ PTp \in Nat \ {0} /\ d \in 0 .. DTp - 1 /\ p \in 0 .. PTp - 1
        /\ DTp >= PTp /\ DTp % PTp = 0
    BY <1>2
  <2>2. /\ p \in TargetRanks(d, DTp, PTp) <=> p * (DTp \div PTp) <= d /\ d < p * (DTp \div PTp) + DTp \div PTp
        /\ d \in TargetRanks(p, PTp, DTp) <=> p * (DTp \div PTp) <= d /\ d < p * (DTp \div PTp) + DTp \div PTp
    BY <1>2, <2>1, PairsAre
  <2> QED BY <1>2, <2>1, <2>2
<1>3. CASE DTp < PTp
  <2>1. /\ DTp \in Nat \ {0} /\ PTp \in Nat \ {0} /\ d \in 0 .. DTp - 1 /\ p \in 0 .. PTp - 1
        /\ PTp >= DTp /\ PTp % DTp = 0
    BY <1>3
  <2>2. /\ d \in TargetRanks(p, PTp, DTp) <=> d * (PTp \div DTp) <= p /\ p < d * (PTp \div DTp) + PTp \div DTp
        /\ p \in TargetRanks(d, DTp, PTp) <=> d * (PTp \div DTp) <= p /\ p < d * (PTp \div DTp) + PTp \div DTp
    BY <1>3, <2>1, PairsAre
  <2> QED BY <1>3, <2>1, <2>2
<1> QED BY <1>1, <1>2, <1>3

\* There are finitely many of them, at most one per P rank.
LEMMA SourcesCounted ==
  ASSUME RatioOk(DTp, PTp), NEW d \in DRank
  PROVE  /\ SourcesOf(d) \subseteq PRank /\ IsFiniteSet(SourcesOf(d))
         /\ Cardinality(SourcesOf(d)) \in 0 .. PTp
<1>1. SourcesOf(d) \subseteq PRank
  <2> USE TpAssumption DEF DRank, PRank, SourcesOf, RatioOk
  <2>1. CASE PTp <= DTp
    <3>1. 0 \in 0 .. PTp - 1
      OBVIOUS
    <3> QED BY <2>1, <3>1, PairsAre
  <2>2. CASE DTp < PTp
    <3>1. 0 \in 0 .. PTp - 1
      OBVIOUS
    <3> QED BY <2>2, <3>1, PairsAre
  <2> QED BY <2>1, <2>2
<1>2. IsFiniteSet(PRank) /\ Cardinality(PRank) = PTp
  <2>1. 0 <= PTp - 1 /\ 0 \in Int /\ PTp - 1 \in Int /\ (PTp - 1) - 0 + 1 = PTp
    BY TpAssumption
  <2> QED BY <2>1, FS_Interval DEF PRank
<1> QED BY <1>1, <1>2, FS_Subset, FS_CardinalityType

-----------------------------------------------------------------------------
\* A step of some P rank.
LEMMA SenderKeeps == PDInv /\ SenderNext /\ UNCHANGED receiverVars => PDInv'
<1> SUFFICES ASSUME PDInv, SenderNext, UNCHANGED receiverVars
             PROVE  PDInv'
  OBVIOUS
<1> USE DEF receiverVars, discVars, resultVars
<1>1. IInv'
  BY NextIInv DEF PDInv, Next
<1>2. (ReceiverTypeOK /\ TargetsKnown /\ OneAttempt /\ DiscoveryFirst)'
  <2>1. (ReceiverTypeOK /\ TargetsKnown /\ DiscoveryFirst)'
    BY DEF PDInv, ReceiverTypeOK, TargetsKnown, DiscoveryFirst
  <2>2. OneAttempt'
    <3>1. \A d \in DRank, b \in Batch : Asked(d, b)' = Asked(d, b)
      BY DEF Asked
    <3>2. UNCHANGED target
      OBVIOUS
    <3> QED BY <3>1, <3>2, Zenon DEF PDInv, OneAttempt
  <2> QED BY <2>1, <2>2
<1>3. (AwaitedOpen /\ ResultsOpen /\ PulledTogether /\ FinishedPulled /\ CountExact)'
  BY DEF PDInv, AwaitedOpen, Awaited, Owing, ResultsOpen, PulledTogether, FinishedPulled, CountExact
<1>4. ASSUME NEW m \in Msg, TaskStep(m)
      PROVE  (GoneInv /\ PullShape /\ ResultsTrue)'
  <2>1. Speaks(m) /\ IInv /\ PullShape /\ ResultsTrue
    BY <1>4, TaskSpeaks DEF PDInv
  <2>2. GoneInv'
    BY <2>1, SpeaksGone DEF PDInv
  <2>3. ResultsTrue'
    BY <2>1 DEF ResultsTrue, Speaks
  <2>4. ASSUME NEW n \in Msg
        PROVE  /\ pull[n].stage = "closed" /\ n \in posted => task'[n].stage = "done"
               /\ n \notin posted => replies'[n] = <<>>
    BY <2>1, SpeaksReplies DEF PullShape, Speaks
  <2>5. ASSUME NEW n \in Msg, pull[n].stage \in {"open", "lost"}
        PROVE  Fit(n, pull[n].remaining, replies'[n], task'[n], served')
    BY <2>1, <2>5, SpeaksFits DEF PullShape
  <2>6. UNCHANGED posted
    BY <2>1 DEF Speaks
  <2>7. PullShape'
    BY <2>1, <2>4, <2>5, <2>6 DEF PullShape
  <2> QED BY <2>2, <2>3, <2>7
<1>5. ASSUME Hushed
      PROVE  (GoneInv /\ PullShape /\ ResultsTrue)'
  BY <1>5 DEF PDInv, GoneInv, PullShape, ResultsTrue, Hushed, wireVars
<1> QED BY <1>1, <1>2, <1>3, <1>4, <1>5, OwnerHushed DEF PDInv, SenderNext

-----------------------------------------------------------------------------
\* What the invariant says of one D rank.

\* An asked batch that shares a request with another one is the same.
LEMMA OneBatch ==
  ASSUME OneAttempt, NEW d \in DRank, NEW b \in Batch, NEW c \in Batch,
         Asked(d, b), Asked(d, c), NEW r \in b \cap c
  PROVE  b = c
BY DEF OneAttempt

\* A task that still owes a request is one of an asked batch.
LEMMA OwingAsked ==
  ASSUME ReceiverTypeOK, PullShape, NEW d \in DRank, NEW r \in Req, NEW m \in Owing(d, r)
  PROVE  /\ m \in Msg /\ m.d = d /\ r \in m.batch /\ m.batch \in Batch
         /\ pull[m].stage \in {"start", "open", "lost"} /\ Asked(d, m.batch)
<1>1. m \in Msg /\ m.d = d /\ r \in pull[m].remaining /\ m.batch \in Batch
  BY DEF Owing, Msg
<1>2. r \in m.batch /\ pull[m].stage \notin {"none", "closed"}
  BY <1>1 DEF PullShape
<1>3. pull[m].stage \in {"none", "start", "open", "closed", "lost"}
  BY <1>1 DEF ReceiverTypeOK, Pull
<1> QED BY <1>1, <1>2, <1>3 DEF Asked

\* While a batch is being discovered nobody else waits for its requests.
LEMMA DiscoveryAlone ==
  ASSUME ReceiverTypeOK, PullShape, OneAttempt, DiscoveryFirst,
         NEW d \in DRank, NEW b \in Batch, discovery[d][b] # "none"
  PROVE  /\ \A m \in Msg : m.d = d /\ m.batch = b => pull[m].stage = "none"
         /\ \A r \in b : Owing(d, r) = {}
         /\ \A c \in Batch : discovery[d][c] # "none" /\ c \cap b # {} => c = b
<1>1. Asked(d, b)
  BY DEF Asked
<1>2. \A m \in Msg : m.d = d /\ m.batch = b => pull[m].stage = "none"
  BY DEF DiscoveryFirst
<1>3. ASSUME NEW r \in b, NEW m \in Owing(d, r)
      PROVE  FALSE
  <2>1. r \in Req
    BY DEF Batch
  <2>2. /\ m \in Msg /\ m.d = d /\ r \in m.batch /\ m.batch \in Batch
        /\ pull[m].stage # "none" /\ Asked(d, m.batch)
    BY <2>1, <1>3, OwingAsked
  <2>3. m.batch = b
    BY <1>1, <2>2, OneBatch
  <2> QED BY <1>2, <2>2, <2>3
<1>4. ASSUME NEW c \in Batch, discovery[d][c] # "none", c \cap b # {}
      PROVE  c = b
  BY <1>1, <1>4, OneBatch DEF Asked
<1> QED BY <1>2, <1>3, <1>4

\* A batch none of whose requests has been received yet.
LEMMA UnusedBatch ==
  ASSUME ReceiverTypeOK, PullShape, OneAttempt, AwaitedOpen, ResultsOpen,
         NEW d \in DRank, NEW b \in Batch, NEW r \in b, target[d][r] = "unused"
  PROVE  /\ \A c \in Batch : r \in c => ~Asked(d, c)
         /\ discovery[d][b] = "none"
         /\ \A m \in Msg : m.d = d /\ r \in m.batch => pull[m].stage = "none"
         /\ ~Awaited(d, r) /\ Owing(d, r) = {} /\ r \notin finished[d] \cup fenced[d]
<1>1. r \in Req
  BY DEF Batch
<1>2. \A c \in Batch : r \in c => ~Asked(d, c)
  BY DEF OneAttempt
<1>3. ~Awaited(d, r)
  BY <1>1 DEF AwaitedOpen
<1>4. \A m \in Msg : m.d = d /\ r \in m.batch => pull[m].stage = "none"
  BY <1>2 DEF Asked, Msg
<1> QED BY <1>1, <1>2, <1>3, <1>4 DEF Asked, Awaited, ResultsOpen

\* The tasks that owe a request are finitely many, and counted.
LEMMA OwingCounted ==
  ASSUME PDInv, NEW d \in DRank, NEW r \in Req
  PROVE  /\ count[d][r] = Cardinality(Owing(d, r)) /\ count[d][r] \in 0 .. PTp
         /\ IsFiniteSet(Owing(d, r))
<1>1. count[d][r] = Cardinality(Owing(d, r)) /\ count[d][r] \in 0 .. PTp
  BY DEF PDInv, CountExact, ReceiverTypeOK
<1>2. IsFiniteSet(Owing(d, r))
  <2>1. CASE Owing(d, r) = {}
    BY <2>1, FS_EmptySet
  <2>2. CASE Owing(d, r) # {}
    <3>1. PICK m \in Owing(d, r) : TRUE
      BY <2>2
    <3> DEFINE f == [n \in Owing(d, r) |-> n.p]
    <3>2. \A n \in Owing(d, r) : n \in Msg /\ n.d = d /\ n.batch = m.batch
      BY <3>1, OwingAsked, OneBatch DEF PDInv
    <3>3. \A x, y \in Owing(d, r) : x.p = y.p => x = y
      BY <3>2 DEF Msg
    <3>4. IsFiniteSet(PRank)
      <4>1. 0 \in Int /\ PTp - 1 \in Int
        BY TpAssumption
      <4> QED BY <4>1, FS_Interval DEF PRank
    <3>5. f \in Injection(Owing(d, r), PRank)
      BY <3>2, <3>3 DEF Injection, IsInjective, Msg
    <3> QED BY <3>4, <3>5, FS_Injection
  <2> QED BY <2>1, <2>2
<1> QED BY <1>1, <1>2

-----------------------------------------------------------------------------
(***************************************************************************)
(* Steps of a D rank.  Each part of PDInv outlives a step that changes     *)
(* nothing it reads, or changes it in a direction that does not matter.    *)
(***************************************************************************)
LEMMA WireKept ==
  ASSUME PDInv, UNCHANGED <<wireVars, senderVars>>
  PROVE  IInv' /\ GoneInv'
<1>1. IInv'
  <2>1. UNCHANGED vars
    BY DEF vars
  <2> QED BY <2>1, NextIInv DEF PDInv
<1>2. GoneInv'
  BY DEF PDInv, GoneInv, senderVars
<1> QED BY <1>1, <1>2

\* Nobody begins to ask, or to pull, and no target becomes unused.
NoNewAsk ==
  /\ \A m \in Msg : pull[m].stage = "none" <=> pull'[m].stage = "none"
  /\ \A d \in DRank, b \in Batch : discovery[d][b] = "none" => discovery'[d][b] = "none"
  /\ \A d \in DRank, r \in Req : target[d][r] # "unused" => target'[d][r] # "unused"

\* The parts about who asks whom.
LEMMA AskFrame ==
  ASSUME PDInv, NoNewAsk
  PROVE  (OneAttempt /\ DiscoveryFirst /\ PulledTogether)'
<1>1. \A d \in DRank, b \in Batch : Asked(d, b)' => Asked(d, b)
  BY DEF NoNewAsk, Asked
<1>2. OneAttempt'
  <2>1. ASSUME NEW d \in DRank, NEW b \in Batch, NEW c \in Batch,
               Asked(d, b)', Asked(d, c)', b \cap c # {}
        PROVE  b = c
    BY <1>1, <2>1 DEF PDInv, OneAttempt
  <2>2. ASSUME NEW d \in DRank, NEW b \in Batch, Asked(d, b)', NEW r \in b
        PROVE  target'[d][r] # "unused"
    <3>1. r \in Req /\ target[d][r] # "unused"
      BY <1>1, <2>2 DEF PDInv, OneAttempt, Batch
    <3> QED BY <3>1 DEF NoNewAsk
  <2> QED BY <2>1, <2>2, Zenon DEF OneAttempt
<1>3. DiscoveryFirst'
  <2>1. \A m \in Msg : m.d \in DRank /\ m.batch \in Batch
    BY DEF Msg
  <2> QED BY <2>1 DEF PDInv, DiscoveryFirst, NoNewAsk
<1>4. PulledTogether'
  <2> SUFFICES ASSUME NEW m \in Msg, pull'[m].stage # "none"
               PROVE  /\ RatioOk(DTp, PTp) /\ m.p \in SourcesOf(m.d)
                      /\ \A p \in SourcesOf(m.d) : pull'[[m EXCEPT !.p = p]].stage # "none"
    BY DEF PulledTogether
  <2>1. /\ RatioOk(DTp, PTp) /\ m.p \in SourcesOf(m.d)
        /\ \A p \in SourcesOf(m.d) : pull[[m EXCEPT !.p = p]].stage # "none"
    BY DEF PDInv, PulledTogether, NoNewAsk
  <2>2. \A p \in SourcesOf(m.d) : [m EXCEPT !.p = p] \in Msg
    BY <2>1, SourcesCounted DEF Msg
  <2> QED BY <2>1, <2>2 DEF NoNewAsk
<1> QED BY <1>2, <1>3, <1>4

\* The other parts, each with the variables it reads.
LEMMA OtherFrames ==
  ASSUME PDInv
  PROVE  /\ UNCHANGED <<target, events, retired>> => TargetsKnown'
         /\ UNCHANGED <<discovery, pull, target, finished, future, fatal>> => AwaitedOpen'
         /\ UNCHANGED <<target, finished, fenced>> => ResultsOpen'
         /\ UNCHANGED <<wireVars, senderVars, pull, fatal>> => PullShape'
         /\ UNCHANGED <<senderVars, pull, target, failed>> => ResultsTrue'
         /\ UNCHANGED <<pull, finished, failed>> => FinishedPulled'
         /\ UNCHANGED <<count, pull>> => CountExact'
<1> USE DEF PDInv
<1>1. UNCHANGED <<target, events, retired>> => TargetsKnown'
  BY DEF TargetsKnown
<1>2. UNCHANGED <<discovery, pull, target, finished, future, fatal>> => AwaitedOpen'
  BY DEF AwaitedOpen, Awaited, Owing
<1>3. UNCHANGED <<target, finished, fenced>> => ResultsOpen'
  BY DEF ResultsOpen
<1>4. UNCHANGED <<wireVars, senderVars, pull, fatal>> => PullShape'
  BY DEF PullShape, wireVars, senderVars
<1>5. UNCHANGED <<senderVars, pull, target, failed>> => ResultsTrue'
  BY DEF ResultsTrue, senderVars
<1>6. UNCHANGED <<pull, finished, failed>> => FinishedPulled'
  BY DEF FinishedPulled
<1>7. UNCHANGED <<count, pull>> => CountExact'
  BY DEF CountExact, Owing
<1> QED BY <1>1, <1>2, <1>3, <1>4, <1>5, <1>6, <1>7

\* take_errors() only empties _invalid.
LEMMA TakeErrorsKeeps ==
  ASSUME PDInv, NEW d \in DRank, TakeErrors(d), UNCHANGED senderVars
  PROVE  PDInv'
<1>1. UNCHANGED <<wireVars, discVars, pull, events, future, count, finished,
                  failed, retired, fatal, fenced, target>>
  BY DEF TakeErrors
<1>2. ReceiverTypeOK'
  BY <1>1 DEF TakeErrors, PDInv, ReceiverTypeOK, discVars
<1>3. NoNewAsk
  BY <1>1 DEF NoNewAsk, discVars
<1> QED BY <1>1, <1>2, <1>3, WireKept, AskFrame, OtherFrames DEF PDInv, discVars

\* preempt() begins to wait for an open receive.
LEMMA FenceKeeps ==
  ASSUME PDInv, NEW d \in DRank, NEW r \in Req, Fence(d, r), UNCHANGED senderVars
  PROVE  PDInv'
<1>1. /\ UNCHANGED <<wireVars, discVars, pull, resultVars, fatal, target>>
      /\ target[d][r] = "open" /\ fenced' = [fenced EXCEPT ![d] = {r}]
  BY DEF Fence
<1>2. ReceiverTypeOK'
  BY <1>1 DEF PDInv, ReceiverTypeOK, discVars, resultVars
<1>3. NoNewAsk
  BY <1>1 DEF NoNewAsk, discVars
<1>4. ResultsOpen'
  BY <1>1 DEF PDInv, ResultsOpen, ReceiverTypeOK, resultVars
<1> QED BY <1>1, <1>2, <1>3, <1>4, WireKept, AskFrame, OtherFrames
        DEF PDInv, discVars, resultVars

\* A query starts, or the task waits for the one under way.
LEMMA DiscoverKeeps ==
  ASSUME PDInv, NEW d \in DRank, NEW b \in Batch, Discover(d, b), UNCHANGED senderVars
  PROVE  PDInv'
<1>1. /\ UNCHANGED <<wireVars, known, pull, resultVars, fatal, fenced, target>>
      /\ discovery[d][b] = "new"
      /\ discovery' = [discovery EXCEPT ![d][b] = IF querying[d] THEN "wait" ELSE "query"]
      /\ querying' = [querying EXCEPT ![d] = TRUE]
  BY DEF Discover
<1>2. ReceiverTypeOK'
  BY <1>1 DEF PDInv, ReceiverTypeOK, resultVars
<1>3. \A x \in DRank, c \in Batch : discovery[x][c] = "none" <=> discovery'[x][c] = "none"
  BY <1>1 DEF PDInv, ReceiverTypeOK
<1>4. NoNewAsk
  BY <1>1, <1>3 DEF NoNewAsk
<1>5. AwaitedOpen'
  <2>1. \A x \in DRank, r \in Req : Awaited(x, r)' => Awaited(x, r)
    BY <1>1, <1>3 DEF Awaited, Owing
  <2> QED BY <1>1, <2>1 DEF PDInv, AwaitedOpen, resultVars
<1> QED BY <1>1, <1>2, <1>4, <1>5, WireKept, AskFrame, OtherFrames DEF PDInv, resultVars

\* D gives a P rank up.
LEMMA PeerLostKeeps ==
  ASSUME PDInv, NEW m \in Msg, PeerLost(m), UNCHANGED senderVars
  PROVE  PDInv'
<1>1. /\ pull[m].stage = "open"
      /\ pull' = [pull EXCEPT ![m].stage = "lost"]
      /\ fatal' = [fatal EXCEPT ![m.d] = TRUE]
      /\ future' = [future EXCEPT ![m.d] = [r \in Req |->
           IF @[r] = "pending" THEN "done" ELSE @[r]]]
      /\ UNCHANGED <<wireVars, discVars, events, count, finished, failed, invalid,
                     retired, fenced, target>>
  BY DEF PeerLost, Lose
<1>2. m.d \in DRank /\ ReceiverTypeOK
  BY DEF PDInv, Msg
<1>3. \A n \in Msg : /\ pull'[n].remaining = pull[n].remaining
                     /\ pull'[n].stage = IF n = m THEN "lost" ELSE pull[n].stage
  BY <1>1, <1>2 DEF ReceiverTypeOK, Pull
<1>4. \A d \in DRank : /\ fatal'[d] <=> fatal[d] \/ d = m.d
                       /\ d # m.d => future'[d] = future[d]
  BY <1>1, <1>2 DEF ReceiverTypeOK
<1>5. ReceiverTypeOK'
  <2>1. pull' \in [Msg -> Pull]
    <3>1. [pull[m] EXCEPT !.stage = "lost"] \in Pull
      <4>1. pull[m] \in Pull
        BY <1>2 DEF ReceiverTypeOK
      <4> QED BY <4>1 DEF Pull
    <3> QED BY <1>1, <1>2, <3>1 DEF ReceiverTypeOK
  <2>2. future' \in [DRank -> [Req -> {"none", "pending", "done"}]]
    BY <1>1, <1>2 DEF ReceiverTypeOK
  <2>3. fatal' \in [DRank -> BOOLEAN]
    BY <1>1, <1>2 DEF ReceiverTypeOK
  <2> QED BY <1>1, <1>2, <2>1, <2>2, <2>3 DEF ReceiverTypeOK, discVars
<1>6. \A d \in DRank, r \in Req : Owing(d, r)' = Owing(d, r)
  BY <1>3 DEF Owing
<1>7. NoNewAsk
  BY <1>1, <1>3 DEF NoNewAsk, discVars
<1>8. AwaitedOpen'
  <2>1. \A d \in DRank, r \in Req : Awaited(d, r)' => Awaited(d, r)
    BY <1>1, <1>6 DEF Awaited, discVars
  <2> QED BY <1>1, <1>4, <2>1 DEF PDInv, AwaitedOpen
<1>9. PullShape'
  <2>1. UNCHANGED <<posted, replies, task, served>> /\ PullShape
    BY <1>1 DEF PDInv, wireVars, senderVars
  <2>2. \A n \in Msg : n # m => pull'[n].stage = pull[n].stage
    BY <1>3
  <2>3. \A n \in Msg : pull'[n].stage = "lost" => fatal'[n.d]
    BY <1>3, <1>4, <2>1 DEF PullShape, Msg
  <2>4. pull'[m].stage = "lost"
    BY <1>3
  <2>5. \A n \in Msg : pull'[n].remaining = pull[n].remaining
    BY <1>3
  <2>6. \A n \in Msg : pull'[n].stage \in {"open", "lost"} => pull[n].stage \in {"open", "lost"}
    BY <1>1, <2>2
  <2>7. ASSUME NEW n \in Msg
        PROVE  /\ pull'[n].remaining \subseteq n.batch
               /\ pull'[n].stage \in {"none", "start"} => n \notin posted
               /\ pull'[n].stage \in {"none", "closed"} => pull'[n].remaining = {}
               /\ pull'[n].stage = "closed" /\ n \in posted => task[n].stage = "done"
               /\ pull'[n].stage = "start" => pull'[n].remaining = n.batch
               /\ n \notin posted => replies[n] = <<>>
    BY <2>1, <2>2, <2>4, <2>5 DEF PullShape
  <2>8. ASSUME NEW n \in Msg, pull'[n].stage \in {"open", "lost"}
        PROVE  n \in posted /\ Fit(n, pull'[n].remaining, replies[n], task[n], served)
    BY <2>1, <2>5, <2>6, <2>8 DEF PullShape
  <2> QED BY <2>1, <2>3, <2>7, <2>8 DEF PullShape
<1>10. ResultsTrue' /\ FinishedPulled'
  BY <1>1, <1>3 DEF PDInv, ResultsTrue, FinishedPulled, senderVars
<1>11. CountExact'
  BY <1>1, <1>6 DEF PDInv, CountExact
<1> QED BY <1>1, <1>5, <1>7, <1>8, <1>9, <1>10, <1>11, WireKept, AskFrame, OtherFrames DEF PDInv

\* D takes the targets of S back: collected by poll(), or fenced.
Collects(d, S) ==
  /\ UNCHANGED <<wireVars, senderVars, discVars, pull, count, fatal>>
  /\ Close(d, S) /\ Forget(d, S)
  /\ events' = [events EXCEPT ![d] = @ \ S]
  /\ retired' = [retired EXCEPT ![d] = @ \cup S]
  /\ finished' = [finished EXCEPT ![d] = @ \ S]
  /\ failed' = [failed EXCEPT ![d] = @ \ S]
  /\ fenced' = [fenced EXCEPT ![d] = {}]

\* Receives that nobody awaits are collected, and their blocks closed.
LEMMA CollectKeeps ==
  ASSUME PDInv, NEW d \in DRank, NEW S \in SUBSET Req, Collects(d, S),
         \A r \in S : target[d][r] = "open" /\ ~Awaited(d, r),
         invalid' \in [DRank -> SUBSET Req]
  PROVE  PDInv'
<1>1. ReceiverTypeOK
  BY DEF PDInv
<1>2. \A x \in DRank, r \in Req :
        /\ target'[x][r] = IF x = d /\ r \in S THEN "closed" ELSE target[x][r]
        /\ future'[x][r] = IF x = d /\ r \in S THEN "none" ELSE future[x][r]
        /\ r \in events'[x] <=> r \in events[x] /\ ~(x = d /\ r \in S)
        /\ r \in retired'[x] <=> r \in retired[x] \/ (x = d /\ r \in S)
        /\ r \in finished'[x] <=> r \in finished[x] /\ ~(x = d /\ r \in S)
        /\ r \in failed'[x] <=> r \in failed[x] /\ ~(x = d /\ r \in S)
        /\ fenced'[x] \subseteq fenced[x] /\ fenced'[d] = {}
  <2>1. \A x \in DRank, r \in Req :
          /\ target'[x][r] = IF x = d /\ r \in S THEN "closed" ELSE target[x][r]
          /\ future'[x][r] = IF x = d /\ r \in S THEN "none" ELSE future[x][r]
    BY <1>1 DEF ReceiverTypeOK, Collects, Close, Forget
  <2>2. \A x \in DRank, r \in Req :
          /\ r \in events'[x] <=> r \in events[x] /\ ~(x = d /\ r \in S)
          /\ r \in retired'[x] <=> r \in retired[x] \/ (x = d /\ r \in S)
    BY <1>1 DEF ReceiverTypeOK, Collects
  <2>3. \A x \in DRank, r \in Req :
          /\ r \in finished'[x] <=> r \in finished[x] /\ ~(x = d /\ r \in S)
          /\ r \in failed'[x] <=> r \in failed[x] /\ ~(x = d /\ r \in S)
          /\ fenced'[x] \subseteq fenced[x] /\ fenced'[d] = {}
    BY <1>1 DEF ReceiverTypeOK, Collects
  <2> QED BY <2>1, <2>2, <2>3
<1>3. UNCHANGED <<wireVars, senderVars, known, querying, discovery, pull, count, fatal>>
  BY DEF Collects, discVars
<1>4. ReceiverTypeOK'
  <2>1. /\ events' \in [DRank -> SUBSET Req] /\ retired' \in [DRank -> SUBSET Req]
        /\ finished' \in [DRank -> SUBSET Req] /\ failed' \in [DRank -> SUBSET Req]
        /\ fenced' \in [DRank -> SUBSET Req]
    BY <1>1 DEF ReceiverTypeOK, Collects
  <2>2. target' \in [DRank -> [Req -> {"unused", "open", "closed"}]]
    BY <1>1 DEF ReceiverTypeOK, Collects, Close
  <2>3. future' \in [DRank -> [Req -> {"none", "pending", "done"}]]
    BY <1>1 DEF ReceiverTypeOK, Collects, Forget
  <2> QED BY <1>1, <1>3, <2>1, <2>2, <2>3 DEF ReceiverTypeOK
<1>5. NoNewAsk
  BY <1>2, <1>3 DEF NoNewAsk
<1>6. TargetsKnown'
  BY <1>2 DEF PDInv, TargetsKnown
<1>7. AwaitedOpen'
  <2>1. \A x \in DRank, r \in Req : Awaited(x, r)' => Awaited(x, r)
    BY <1>3 DEF Awaited, Owing
  <2> SUFFICES ASSUME NEW x \in DRank, NEW r \in Req, Awaited(x, r)'
               PROVE  /\ target'[x][r] = "open" /\ r \notin finished'[x]
                      /\ future'[x][r] = "pending" \/ fatal'[x]
    BY Zenon DEF AwaitedOpen
  <2>2. ~(x = d /\ r \in S)
    BY <2>1
  <2> QED BY <1>2, <1>3, <2>1, <2>2 DEF PDInv, AwaitedOpen
<1>8. ResultsOpen'
  <2> SUFFICES ASSUME NEW x \in DRank, NEW r \in finished'[x] \cup fenced'[x]
               PROVE  target'[x][r] = "open"
    BY DEF ResultsOpen
  <2>1. r \in Req
    BY <1>4 DEF ReceiverTypeOK
  <2>2. target[x][r] = "open" /\ ~(x = d /\ r \in S)
    BY <1>2, <2>1 DEF PDInv, ResultsOpen
  <2> QED BY <1>2, <2>1, <2>2
<1>9. ResultsTrue'
  <2> SUFFICES ASSUME NEW m \in Msg, NEW r \in m.batch, pull[m].stage # "none",
                      target'[m.d][r] = "open"
               PROVE  \/ r \in failed'[m.d] \/ r \in pull[m].remaining
                      \/ <<m.d, m.p, r>> \in served
    BY <1>3 DEF ResultsTrue, senderVars
  <2>1. m.d \in DRank /\ r \in Req
    BY DEF Msg, Batch
  <2> QED BY <1>2, <2>1 DEF PDInv, ResultsTrue
<1>10. FinishedPulled'
  <2> SUFFICES ASSUME NEW x \in DRank, NEW r \in finished'[x] \ failed'[x]
               PROVE  \E m \in Msg : m.d = x /\ r \in m.batch /\ pull[m].stage # "none"
    BY <1>3 DEF FinishedPulled
  <2>1. r \in Req
    BY <1>4 DEF ReceiverTypeOK
  <2> QED BY <1>2, <2>1 DEF PDInv, FinishedPulled
<1> QED BY <1>3, <1>4, <1>5, <1>6, <1>7, <1>8, <1>9, <1>10, WireKept, AskFrame, OtherFrames
        DEF PDInv

\* poll() collects what is finished.
LEMMA PollRecvKeeps ==
  ASSUME PDInv, NEW d \in DRank, PollRecv(d), UNCHANGED senderVars
  PROVE  PDInv'
<1>1. ReceiverTypeOK
  BY DEF PDInv
<1> DEFINE S == finished[d]
<1>2. S \in SUBSET Req
  BY <1>1 DEF ReceiverTypeOK
<1>3. Collects(d, S)
  <2>1. finished' = [finished EXCEPT ![d] = @ \ S]
    <3>1. S \ S = {}
      OBVIOUS
    <3> QED BY <3>1 DEF PollRecv
  <2>2. fenced' = [fenced EXCEPT ![d] = {}]
    <3>1. fenced[d] = {} /\ UNCHANGED fenced
      BY DEF PollRecv, Running
    <3> QED BY <1>1, <3>1 DEF ReceiverTypeOK
  <2> QED BY <2>1, <2>2 DEF PollRecv, Collects
<1>4. \A r \in S : target[d][r] = "open" /\ ~Awaited(d, r)
  BY <1>2 DEF PDInv, ResultsOpen, AwaitedOpen
<1>5. invalid' \in [DRank -> SUBSET Req]
  BY <1>1 DEF PollRecv, ReceiverTypeOK
<1> QED BY <1>2, <1>3, <1>4, <1>5, CollectKeeps

\* preempt() returns.
LEMMA FenceReturnKeeps ==
  ASSUME PDInv, NEW d \in DRank, FenceReturn(d), UNCHANGED senderVars
  PROVE  PDInv'
<1>1. ReceiverTypeOK
  BY DEF PDInv
<1>2. PICK r \in fenced[d] :
        /\ future[d][r] # "pending" /\ ~fatal[d]
        /\ fenced' = [fenced EXCEPT ![d] = {}]
        /\ events' = [events EXCEPT ![d] = @ \ {r}]
        /\ retired' = [retired EXCEPT ![d] = @ \cup (events[d] \cap {r})]
        /\ invalid' = [invalid EXCEPT ![d] = @ \ {r}]
        /\ finished' = [finished EXCEPT ![d] = @ \ {r}]
        /\ failed' = [failed EXCEPT ![d] = @ \ {r}]
        /\ Forget(d, {r})
        /\ Close(d, {r})
        /\ UNCHANGED <<wireVars, discVars, pull, count, fatal>>
  BY DEF FenceReturn
<1>3. r \in Req /\ target[d][r] = "open"
  BY <1>1 DEF PDInv, ReceiverTypeOK, ResultsOpen
<1>4. events[d] \cap {r} = {r}
  BY <1>3 DEF PDInv, TargetsKnown
<1>5. Collects(d, {r})
  BY <1>2, <1>4 DEF Collects
<1>6. ~Awaited(d, r)
  BY <1>2, <1>3 DEF PDInv, AwaitedOpen
<1>7. invalid' \in [DRank -> SUBSET Req]
  BY <1>1, <1>2 DEF ReceiverTypeOK
<1> QED BY <1>3, <1>5, <1>6, <1>7, CollectKeeps

\* D sends its message: from here on the P rank may answer, and write.
LEMMA PublishKeeps ==
  ASSUME PDInv, NEW m \in Msg, Publish(m), UNCHANGED senderVars
  PROVE  PDInv'
<1>1. /\ pull[m].stage = "start" /\ pull' = [pull EXCEPT ![m].stage = "open"]
      /\ posted' = posted \cup {m}
      /\ UNCHANGED <<replies, discVars, resultVars, fatal, fenced, target, task, served>>
  BY DEF Publish, senderVars
<1>2. ReceiverTypeOK /\ PullShape /\ IInv /\ WireTypeOK
  BY DEF PDInv, IInv
<1>3. \A n \in Msg : /\ pull'[n].remaining = pull[n].remaining
                     /\ pull'[n].stage = IF n = m THEN "open" ELSE pull[n].stage
  BY <1>1, <1>2 DEF ReceiverTypeOK, Pull
<1>4. m \notin posted /\ pull[m].remaining = m.batch /\ replies[m] = <<>>
  BY <1>1, <1>2 DEF PullShape
<1>5. \A n \in posted : ~Overlap(m, n)
  <2> SUFFICES ASSUME NEW n \in posted, Overlap(m, n)
               PROVE  FALSE
    OBVIOUS
  <2>1. n \in Msg /\ pull[n].stage # "none"
    BY <1>2 DEF PullShape, WireTypeOK
  <2>2. Asked(m.d, m.batch) /\ Asked(m.d, n.batch)
    BY <1>1, <2>1 DEF Asked, Overlap
  <2>3. m.batch = n.batch
    <3>1. m.d \in DRank /\ m.batch \in Batch /\ n.batch \in Batch /\ m.batch \cap n.batch # {}
      BY <2>1 DEF Overlap, Msg
    <3> QED BY <2>2, <3>1 DEF PDInv, OneAttempt
  <2>4. m = n
    BY <2>1, <2>3 DEF Overlap, Msg
  <2> QED BY <1>4, <2>4
<1>6. IInv'
  <2>1. Ask(m)
    BY <1>1, <1>5 DEF Ask
  <2> QED BY <1>2, <2>1, AskStep
<1>7. ReceiverTypeOK'
  <2>1. pull' \in [Msg -> Pull]
    <3>1. [pull[m] EXCEPT !.stage = "open"] \in Pull
      <4>1. pull[m] \in Pull
        BY <1>2 DEF ReceiverTypeOK
      <4> QED BY <4>1 DEF Pull
    <3> QED BY <1>1, <1>2, <3>1 DEF ReceiverTypeOK
  <2> QED BY <1>1, <1>2, <2>1 DEF ReceiverTypeOK, discVars, resultVars
<1>8. \A d \in DRank, r \in Req : Owing(d, r)' = Owing(d, r)
  BY <1>3 DEF Owing
<1>9. NoNewAsk
  BY <1>1, <1>3 DEF NoNewAsk, discVars
<1>10. GoneInv' /\ CountExact'
  BY <1>1, <1>8 DEF PDInv, GoneInv, CountExact, resultVars
<1>11. AwaitedOpen'
  <2>1. \A d \in DRank, r \in Req : Awaited(d, r)' => Awaited(d, r)
    BY <1>1, <1>8 DEF Awaited, discVars
  <2> QED BY <1>1, <2>1 DEF PDInv, AwaitedOpen, resultVars
<1>12. ResultsTrue' /\ FinishedPulled'
  BY <1>1, <1>3 DEF PDInv, ResultsTrue, FinishedPulled, resultVars
<1>13. PullShape'
  <2>1. Fit(m, m.batch, <<>>, task[m], served)
    <3>1. task[m].stage = "idle"
      BY <1>2, <1>4 DEF IInv, TaskShape
    <3>2. \A i \in 1 .. Len(<<>>) : FALSE
      OBVIOUS
    <3> QED BY <3>1, <3>2 DEF Fit, Unsaid
  <2>2. ASSUME NEW n \in Msg
        PROVE  /\ pull'[n].remaining \subseteq n.batch
               /\ pull'[n].stage \in {"none", "start"} => n \notin posted'
               /\ pull'[n].stage \in {"none", "closed"} => pull'[n].remaining = {}
               /\ pull'[n].stage = "closed" /\ n \in posted' => task[n].stage = "done"
               /\ pull'[n].stage = "lost" => fatal[n.d]
               /\ pull'[n].stage = "start" => pull'[n].remaining = n.batch
               /\ n \notin posted' => replies[n] = <<>>
    BY <1>1, <1>2, <1>3 DEF PullShape
  <2>3. ASSUME NEW n \in Msg, pull'[n].stage \in {"open", "lost"}
        PROVE  n \in posted' /\ Fit(n, pull'[n].remaining, replies[n], task[n], served)
    <3>1. CASE n = m
      BY <1>1, <1>3, <1>4, <2>1, <3>1
    <3>2. CASE n # m
      BY <1>1, <1>2, <1>3, <2>3, <3>2 DEF PullShape
    <3> QED BY <3>1, <3>2
  <2> QED BY <1>1, <2>2, <2>3 DEF PullShape
<1> QED BY <1>1, <1>6, <1>7, <1>9, <1>10, <1>11, <1>12, <1>13, AskFrame, OtherFrames
        DEF PDInv, resultVars

-----------------------------------------------------------------------------
(***************************************************************************)
(* process_pulling_result.  left are the requests the task still waits for *)
(* afterwards; what is not left has been written or has failed.            *)
(***************************************************************************)
Settling(m, status, ok, err, left) ==
  /\ Process(m, status, ok, err)
  /\ pull[m].stage \in {"start", "open"}
  /\ ok \cup err \subseteq pull[m].remaining
  /\ \A r \in ok : <<m.d, m.p, r>> \in served
  /\ left = IF status = "CONTINUE" THEN pull[m].remaining \ (ok \cup err) ELSE {}
  /\ UNCHANGED <<senderVars, discVars, fatal, fenced, target>>

\* An answer settles some of what a pull task still waits for.
LEMMA SettlingKeeps ==
  ASSUME PDInv, NEW m \in Msg, NEW status, NEW ok, NEW err, NEW left,
         Settling(m, status, ok, err, left)
  PROVE  /\ (ReceiverTypeOK /\ TargetsKnown /\ OneAttempt /\ DiscoveryFirst /\ AwaitedOpen)'
         /\ (ResultsOpen /\ PulledTogether /\ ResultsTrue /\ FinishedPulled /\ CountExact)'
<1> DEFINE d    == m.d
           rem  == pull[m].remaining
           gone == rem \ left
           done == {r \in gone : count[d][r] = 1}
           st   == IF status = "CONTINUE" THEN "open" ELSE "closed"
           bads == IF status = "CONTINUE" THEN err ELSE rem \ ok
<1>1. d \in DRank /\ ReceiverTypeOK /\ rem \subseteq Req
  BY DEF PDInv, Msg, ReceiverTypeOK, Pull
<1>2. /\ bads \in SUBSET rem /\ gone \ ok \subseteq bads /\ left \subseteq rem
      /\ Counted(ok, bads) = gone /\ rem \ (ok \cup bads) = left
  BY DEF Settling, Counted
<1>3. /\ pull[m].stage \in {"start", "open"} /\ ok \subseteq rem
      /\ \A r \in ok : <<d, m.p, r>> \in served
      /\ UNCHANGED <<senderVars, discVars, fatal, fenced, target>>
  BY DEF Settling
<1>4. /\ failed' = [failed EXCEPT ![d] = @ \cup bads]
      /\ count' = [count EXCEPT ![d] = [r \in Req |-> IF r \in gone THEN @[r] - 1 ELSE @[r]]]
      /\ FinishReceives(d, done)
      /\ pull' = [pull EXCEPT ![m] = [stage |-> st, remaining |-> left]]
      /\ UNCHANGED <<events, invalid, retired>>
  <2>1. /\ failed' = [failed EXCEPT ![d] = @ \cup bads]
        /\ count' = [count EXCEPT ![d] = [r \in Req |->
             IF r \in Counted(ok, bads) THEN @[r] - 1 ELSE @[r]]]
        /\ FinishReceives(d, {r \in Counted(ok, bads) : count[d][r] = 1})
        /\ pull' = [pull EXCEPT ![m] = [stage |-> st, remaining |-> rem \ (ok \cup bads)]]
        /\ UNCHANGED <<events, invalid, retired>>
    BY DEF Settling, Process
  <2> HIDE DEF bads, gone, rem, st, d
  <2> QED BY <1>2, <2>1
<1> HIDE DEF st, gone, done, d, rem, bads
<1>5. /\ finished' = [finished EXCEPT ![d] = @ \cup done]
      /\ future' = [future EXCEPT ![d] = [r \in Req |->
           IF r \in done /\ @[r] = "pending" THEN "done" ELSE @[r]]]
  BY <1>1, <1>4 DEF FinishReceives
<1>6. /\ done \subseteq gone /\ gone \subseteq rem /\ gone \cup left = rem
      /\ gone \cap left = {} /\ st \in {"open", "closed"}
  BY <1>2 DEF done, gone, st
\* Changes, pointwise.
<1>7. \A n \in Msg : /\ n # m => pull'[n] = pull[n]
                     /\ pull'[m].stage = st /\ pull'[m].remaining = left
  BY <1>1, <1>4 DEF ReceiverTypeOK
<1>8. \A x \in DRank, r \in Req :
        /\ r \in finished'[x] <=> r \in finished[x] \/ (x = d /\ r \in done)
        /\ r \in failed'[x] <=> r \in failed[x] \/ (x = d /\ r \in bads)
        /\ ~(x = d /\ r \in done) => future'[x][r] = future[x][r]
  <2>1. \A x \in DRank, r \in Req :
          /\ r \in finished'[x] <=> r \in finished[x] \/ (x = d /\ r \in done)
          /\ ~(x = d /\ r \in done) => future'[x][r] = future[x][r]
    BY <1>1, <1>4, <1>5 DEF ReceiverTypeOK
  <2>2. \A x \in DRank, r \in Req : r \in failed'[x] <=> r \in failed[x] \/ (x = d /\ r \in bads)
    BY <1>1, <1>4 DEF ReceiverTypeOK
  <2> QED BY <2>1, <2>2
<1>9. \A x \in DRank, r \in Req :
        count'[x][r] = IF x = d /\ r \in gone THEN count[x][r] - 1 ELSE count[x][r]
  BY <1>1, <1>4 DEF ReceiverTypeOK
\* The tasks that owe a request.
<1>10. \A x \in DRank, r \in Req :
        Owing(x, r)' = IF x = d /\ r \in gone THEN Owing(x, r) \ {m} ELSE Owing(x, r)
  <2> SUFFICES ASSUME NEW x \in DRank, NEW r \in Req, NEW n \in Msg
               PROVE  n.d = x /\ r \in pull'[n].remaining <=>
                        /\ n.d = x /\ r \in pull[n].remaining
                        /\ ~(x = d /\ r \in gone /\ n = m)
    BY DEF Owing
  <2>1. CASE n = m
    BY <1>6, <1>7, <2>1 DEF d, rem
  <2>2. CASE n # m
    BY <1>7, <2>2
  <2> QED BY <2>1, <2>2
<1>11. \A r \in gone : m \in Owing(d, r) /\ r \in Req /\ r \in m.batch /\ Awaited(d, r)
  BY <1>1, <1>4, <1>6 DEF Owing, d, rem, PDInv, PullShape, Awaited
<1>12. \A x \in DRank, r \in Req :
         count[x][r] = Cardinality(Owing(x, r)) /\ count[x][r] \in 0 .. PTp
         /\ IsFiniteSet(Owing(x, r))
  BY OwingCounted
<1>13. \A r \in gone : /\ Cardinality(Owing(d, r) \ {m}) = count[d][r] - 1
                       /\ count[d][r] - 1 \in 0 .. PTp
  <2> SUFFICES ASSUME NEW r \in gone
               PROVE  /\ Cardinality(Owing(d, r) \ {m}) = count[d][r] - 1
                      /\ count[d][r] - 1 \in 0 .. PTp
    OBVIOUS
  <2>1. /\ IsFiniteSet(Owing(d, r)) /\ m \in Owing(d, r)
        /\ count[d][r] = Cardinality(Owing(d, r)) /\ count[d][r] \in 0 .. PTp
    BY <1>1, <1>4, <1>11, <1>12
  <2>2. Cardinality(Owing(d, r) \ {m}) = Cardinality(Owing(d, r)) - 1
        /\ IsFiniteSet(Owing(d, r) \ {m})
    BY <2>1, FS_RemoveElement
  <2>3. Cardinality(Owing(d, r) \ {m}) \in Nat
    BY <2>2, FS_CardinalityType
  <2> QED BY <2>1, <2>2, <2>3, TpAssumption
<1>14. CountExact'
  <2> SUFFICES ASSUME NEW x \in DRank, NEW r \in Req
               PROVE  count'[x][r] = Cardinality(Owing(x, r)')
    BY DEF CountExact
  <2>1. CASE x = d /\ r \in gone
    BY <1>9, <1>10, <1>13, <2>1
  <2>2. CASE ~(x = d /\ r \in gone)
    <3>1. count'[x][r] = count[x][r] /\ Owing(x, r)' = Owing(x, r)
      BY <1>9, <1>10, <2>2
    <3> QED BY <1>12, <3>1
  <2> QED BY <2>1, <2>2
\* Nobody waits for a request any more when its last answer has come.
<1>15. \A r \in done : ~Awaited(d, r)'
  <2> SUFFICES ASSUME NEW r \in done
               PROVE  ~Awaited(d, r)'
    OBVIOUS
  <2>1. r \in gone /\ r \in Req /\ r \in m.batch /\ m \in Owing(d, r) /\ count[d][r] = 1
    BY <1>6, <1>11 DEF done
  <2>2. Owing(d, r)' = {}
    <3>1. Owing(d, r)' = Owing(d, r) \ {m}
      BY <1>1, <1>4, <1>10, <2>1
    <3>2. Cardinality(Owing(d, r) \ {m}) = 0
      BY <1>13, <2>1
    <3>3. IsFiniteSet(Owing(d, r) \ {m})
      BY <1>1, <1>4, <1>12, <2>1, FS_Subset
    <3> QED BY <3>1, <3>2, <3>3, FS_EmptySet
  <2>3. ASSUME NEW b \in Batch, r \in b, discovery'[d][b] # "none"
        PROVE  FALSE
    <3>1. discovery[d][b] # "none"
      BY <1>3, <2>3 DEF discVars
    <3>2. Owing(d, r) = {}
      BY <1>1, <1>4, <2>3, <3>1, DiscoveryAlone DEF PDInv
    <3> QED BY <2>1, <3>2
  <2> QED BY <2>2, <2>3 DEF Awaited
<1>16. AwaitedOpen'
  <2> SUFFICES ASSUME NEW x \in DRank, NEW r \in Req, Awaited(x, r)'
               PROVE  /\ target'[x][r] = "open" /\ r \notin finished'[x]
                      /\ future'[x][r] = "pending" \/ fatal'[x]
    BY Zenon DEF AwaitedOpen
  <2>1. Awaited(x, r)
    <3>1. Owing(x, r)' \subseteq Owing(x, r)
      BY <1>10
    <3> QED BY <1>3, <3>1 DEF Awaited, discVars
  <2>2. ~(x = d /\ r \in done)
    BY <1>15
  <2> QED BY <1>3, <1>8, <2>1, <2>2 DEF PDInv, AwaitedOpen
<1>17. TargetsKnown'
  BY <1>1, <1>4, <1>3 DEF PDInv, TargetsKnown
<1>18. NoNewAsk
  BY <1>3, <1>6, <1>7 DEF NoNewAsk, discVars
<1>19. ResultsOpen'
  <2> SUFFICES ASSUME NEW x \in DRank, NEW r \in finished'[x] \cup fenced'[x]
               PROVE  target'[x][r] = "open"
    BY DEF ResultsOpen
  <2>1. CASE r \in finished[x] \cup fenced[x]
    BY <1>3, <2>1 DEF PDInv, ResultsOpen
  <2>2. CASE x = d /\ r \in done
    BY <1>1, <1>4, <1>3, <1>6, <1>11, <2>2 DEF PDInv, AwaitedOpen
  <2>3. r \in finished[x] \cup fenced[x] \/ (x = d /\ r \in done)
    BY <1>1, <1>4, <1>3, <1>5 DEF ReceiverTypeOK
  <2> QED BY <2>1, <2>2, <2>3
<1>20. ResultsTrue'
  <2> SUFFICES ASSUME NEW n \in Msg, NEW r \in n.batch, pull'[n].stage # "none",
                      target'[n.d][r] = "open"
               PROVE  \/ r \in failed'[n.d] \/ r \in pull'[n].remaining
                      \/ <<n.d, n.p, r>> \in served'
    BY Zenon DEF ResultsTrue
  <2>1. n.d \in DRank /\ r \in Req /\ UNCHANGED <<target, served>>
    BY <1>3 DEF Msg, Batch, senderVars
  <2>2. r \in failed[n.d] \/ r \in pull[n].remaining \/ <<n.d, n.p, r>> \in served
    BY <1>18, <2>1 DEF PDInv, ResultsTrue, NoNewAsk
  <2>3. CASE n # m
    BY <1>7, <1>8, <2>1, <2>2, <2>3
  <2>4. CASE n = m
    <3>1. r \in rem => r \in left \/ r \in ok \/ r \in bads
      BY <1>2, <1>6
    <3>2. r \in rem <=> r \in pull[m].remaining
      BY DEF rem
    <3>3. n.d = d
      BY <2>4 DEF d
    <3> QED BY <1>3, <1>7, <1>8, <2>1, <2>2, <2>4, <3>1, <3>2, <3>3
  <2> QED BY <2>3, <2>4
<1>21. FinishedPulled'
  <2> SUFFICES ASSUME NEW x \in DRank, NEW r \in finished'[x] \ failed'[x]
               PROVE  \E n \in Msg : n.d = x /\ r \in n.batch /\ pull'[n].stage # "none"
    BY DEF FinishedPulled
  <2>1. r \in Req
    BY <1>1, <1>4, <1>5, <1>6 DEF ReceiverTypeOK
  <2>2. CASE r \in finished[x]
    BY <1>8, <1>18, <2>1, <2>2 DEF PDInv, FinishedPulled, NoNewAsk
  <2>3. CASE x = d /\ r \in done
    <3>1. r \in m.batch /\ m.d = x
      BY <1>6, <1>11, <2>3 DEF d
    <3>2. pull'[m].stage # "none"
      BY <1>6, <1>7
    <3> QED BY <3>1, <3>2
  <2> QED BY <1>8, <2>1, <2>2, <2>3
<1>22. ReceiverTypeOK'
  <2>1. pull' \in [Msg -> Pull]
    <3>1. [stage |-> st, remaining |-> left] \in Pull
      BY <1>1, <1>4, <1>6 DEF Pull
    <3> QED BY <1>1, <1>4, <3>1 DEF ReceiverTypeOK
  <2>2. count' \in [DRank -> [Req -> 0 .. PTp]]
    <3>1. [r \in Req |-> IF r \in gone THEN count[d][r] - 1 ELSE count[d][r]] \in [Req -> 0 .. PTp]
      BY <1>1, <1>4, <1>12, <1>13
    <3> QED BY <1>1, <1>4, <3>1 DEF ReceiverTypeOK
  <2>3. finished' \in [DRank -> SUBSET Req] /\ failed' \in [DRank -> SUBSET Req]
    <3>1. done \in SUBSET Req /\ bads \in SUBSET Req
      BY <1>1, <1>2, <1>6
    <3> QED BY <1>1, <1>4, <1>5, <3>1 DEF ReceiverTypeOK
  <2>4. future' \in [DRank -> [Req -> {"none", "pending", "done"}]]
    BY <1>1, <1>4, <1>5 DEF ReceiverTypeOK
  <2> QED BY <1>1, <1>4, <1>3, <2>1, <2>2, <2>3, <2>4 DEF ReceiverTypeOK, discVars
<1> QED BY <1>14, <1>16, <1>17, <1>18, <1>19, <1>20, <1>21, <1>22, AskFrame

\* What becomes of PullShape, when m's task is at work or at its end.
LEMMA SettlingShape ==
  ASSUME PDInv, NEW m \in Msg, NEW status, NEW ok, NEW err, NEW left,
         Settling(m, status, ok, err, left), UNCHANGED posted,
         \A n \in Msg : n # m => replies'[n] = replies[n],
         m \notin posted => replies'[m] = <<>>,
         status = "CONTINUE" =>
           m \in posted /\ Fit(m, left, replies'[m], task[m], served),
         status # "CONTINUE" /\ m \in posted => task[m].stage = "done"
  PROVE  PullShape'
<1> DEFINE st == IF status = "CONTINUE" THEN "open" ELSE "closed"
<1>1. /\ UNCHANGED <<task, served, fatal>> /\ PullShape
      /\ pull[m].remaining \subseteq m.batch
  BY DEF PDInv, PullShape, Settling, senderVars
<1>2. pull' = [pull EXCEPT ![m] = [stage |-> st, remaining |-> left]]
  <2> DEFINE bads == IF status = "CONTINUE" THEN err ELSE pull[m].remaining \ ok
  <2>1. pull[m].remaining \ (ok \cup bads) = left
    BY DEF Settling
  <2>2. pull' = [pull EXCEPT ![m] =
          [stage |-> st, remaining |-> pull[m].remaining \ (ok \cup bads)]]
    BY DEF Settling, Process
  <2> HIDE DEF bads, st
  <2> QED BY <2>1, <2>2
<1>3. \A n \in Msg : n # m => pull'[n] = pull[n]
  BY <1>2 DEF PDInv, ReceiverTypeOK
<1>4. pull'[m].stage = st /\ pull'[m].remaining = left
  BY <1>2 DEF PDInv, ReceiverTypeOK
<1>5. left \subseteq m.batch /\ (status # "CONTINUE" => left = {})
  BY <1>1 DEF Settling
<1>6. ASSUME NEW n \in Msg, n # m
      PROVE  /\ pull'[n].remaining \subseteq n.batch
             /\ pull'[n].stage \in {"none", "start"} => n \notin posted
             /\ pull'[n].stage \in {"none", "closed"} => pull'[n].remaining = {}
             /\ pull'[n].stage = "closed" /\ n \in posted => task[n].stage = "done"
             /\ pull'[n].stage = "lost" => fatal[n.d]
             /\ pull'[n].stage = "start" => pull'[n].remaining = n.batch
             /\ pull'[n].stage \in {"open", "lost"} =>
                  n \in posted /\ Fit(n, pull'[n].remaining, replies'[n], task[n], served)
             /\ n \notin posted => replies'[n] = <<>>
  <2>1. pull'[n] = pull[n] /\ replies'[n] = replies[n]
    BY <1>3, <1>6
  <2> QED BY <1>1, <2>1 DEF PullShape
<1>7. /\ pull'[m].remaining \subseteq m.batch
      /\ pull'[m].stage \notin {"none", "start", "lost"}
      /\ pull'[m].stage = "closed" => pull'[m].remaining = {}
      /\ pull'[m].stage = "closed" /\ m \in posted => task[m].stage = "done"
      /\ pull'[m].stage = "open" =>
           m \in posted /\ Fit(m, pull'[m].remaining, replies'[m], task[m], served)
      /\ m \notin posted => replies'[m] = <<>>
  BY <1>4, <1>5
<1> QED BY <1>1, <1>6, <1>7 DEF PullShape

\* D reads an answer.
LEMMA ReceiveKeeps ==
  ASSUME PDInv, NEW m \in Msg, Receive(m), UNCHANGED senderVars
  PROVE  PDInv'
<1> DEFINE q    == replies[m]
           a    == Head(q)
           rem  == pull[m].remaining
           left == IF a.status = "CONTINUE" THEN rem \ Said(a) ELSE {}
<1>1. /\ pull[m].stage = "open" /\ q # <<>>
      /\ replies' = [replies EXCEPT ![m] = Tail(q)]
      /\ Process(m, a.status, a.ok, a.err)
      /\ UNCHANGED <<posted, discVars, fatal, fenced, target>>
  BY DEF Receive
<1>2. /\ replies \in [Msg -> Seq(Reply)] /\ posted \subseteq Msg
      /\ m \in posted /\ Fit(m, rem, q, task[m], served)
  BY <1>1 DEF PDInv, IInv, WireTypeOK, PullShape
<1>3. q \in Seq(Reply)
  BY <1>2
<1> HIDE DEF q
<1>4. /\ Tail(q) \in Seq(Reply) /\ a \in Reply
      /\ Said(a) \subseteq rem
      /\ \A r \in a.ok : <<m.d, m.p, r>> \in served
      /\ a.status # "CONTINUE" => task[m].stage = "done" /\ Tail(q) = <<>>
      /\ Fit(m, rem \ Said(a), Tail(q), task[m], served)
  BY <1>1, <1>2, <1>3, ReadingFits
<1>5. Settling(m, a.status, a.ok, a.err, left)
  BY <1>1, <1>4 DEF Settling, Said
<1>6. /\ replies'[m] = Tail(q) /\ replies' \in [Msg -> Seq(Reply)]
      /\ \A n \in Msg : n # m => replies'[n] = replies[n]
  BY <1>1, <1>2, <1>4
<1>7. PullShape'
  <2> HIDE DEF a
  <2> QED BY <1>1, <1>2, <1>4, <1>5, <1>6, SettlingShape
<1>8. IInv' /\ GoneInv'
  <2> USE DEF senderVars, metaVars, ownerVars
  <2>1. (WireTypeOK /\ SenderTypeOK /\ IsFiniteSet(posted))'
    BY <1>1, <1>2, <1>6 DEF PDInv, IInv, WireTypeOK, SenderTypeOK
  <2>2. (AskedOnce /\ TaskShape)'
    BY <1>1 DEF PDInv, IInv, AskedOnce, TaskShape, Valid
  <2>3. (Numbering /\ SendingBalanced)'
    BY DEF PDInv, IInv, Numbering, SendingBalanced, Holders
  <2>4. (RoundsPinned /\ NeedResolved /\ ReadyPinned)'
    BY DEF PDInv, IInv, RoundsPinned, NeedResolved, ReadyPinned, Captured, Ref
  <2>5. (PinnedSent /\ FenceShape)'
    BY DEF PDInv, IInv, PinnedSent, FenceShape, Undisturbed
  <2>6. (ServedAsked /\ SentBounded)'
    BY <1>1 DEF PDInv, IInv, ServedAsked, SentBounded, ServedRanks
  <2>7. (FinishedQuiet /\ Strangers /\ FinishedMeansServed)'
    <3>1. FinishedQuiet'
      BY <1>1 DEF PDInv, IInv, FinishedQuiet, Undisturbed
    <3>2. Strangers'
      BY <1>1 DEF PDInv, IInv, Strangers
    <3>3. FinishedMeansServed'
      BY <1>1 DEF PDInv, IInv, FinishedMeansServed, Undisturbed
    <3> QED BY <3>1, <3>2, <3>3
  <2>8. GoneInv'
    BY DEF PDInv, GoneInv
  <2> QED BY <2>1, <2>2, <2>3, <2>4, <2>5, <2>6, <2>7, <2>8 DEF IInv
<1> QED BY <1>5, <1>7, <1>8, SettlingKeeps DEF PDInv

\* The P rank could not be reached.
LEMMA ConnectFailKeeps ==
  ASSUME PDInv, NEW m \in Msg, ConnectFail(m), UNCHANGED senderVars
  PROVE  PDInv'
<1>1. /\ pull[m].stage = "start" /\ Process(m, "ERROR", {}, {})
      /\ UNCHANGED <<posted, replies, wireVars, discVars, fatal, fenced, target>>
  BY DEF ConnectFail, wireVars
<1>2. Settling(m, "ERROR", {}, {}, {})
  BY <1>1 DEF Settling
<1>3. m \notin posted /\ replies[m] = <<>>
  BY <1>1 DEF PDInv, PullShape
<1>4. PullShape'
  BY <1>1, <1>2, <1>3, SettlingShape
<1>5. IInv' /\ GoneInv'
  BY <1>1, WireKept
<1> QED BY <1>2, <1>4, <1>5, SettlingKeeps DEF PDInv

-----------------------------------------------------------------------------
\* The P ranks of a batch are asked at once, one task each.
LEMMA Starting ==
  ASSUME PDInv, RatioOk(DTp, PTp), NEW d \in DRank, NEW b \in Batch, StartPulls(d, b),
         \A m \in Msg : m.d = d /\ m.batch = b => pull[m].stage = "none",
         \A r \in b : Owing(d, r) = {},
         UNCHANGED <<wireVars, senderVars, fatal>>
  PROVE  /\ pull' \in [Msg -> Pull] /\ count' \in [DRank -> [Req -> 0 .. PTp]]
         /\ (PullShape /\ PulledTogether /\ CountExact)'
         /\ \A m \in Msg :
              IF m.d = d /\ m.batch = b /\ m.p \in SourcesOf(d)
                THEN pull'[m].stage = "start" /\ pull'[m].remaining = b
                ELSE pull'[m] = pull[m]
         /\ \A x \in DRank, r \in Req :
              Owing(x, r)' # {} => Owing(x, r) # {} \/ (x = d /\ r \in b)
<1> DEFINE New(m) == m.d = d /\ m.batch = b /\ m.p \in SourcesOf(d)
<1>1. ReceiverTypeOK /\ PullShape /\ b \subseteq Req
  BY DEF PDInv, Batch
<1>2. \A m \in Msg : pull'[m] = IF New(m) THEN [stage |-> "start", remaining |-> b] ELSE pull[m]
  BY DEF StartPulls
<1>3. pull' \in [Msg -> Pull]
  <2>1. [stage |-> "start", remaining |-> b] \in Pull
    BY <1>1 DEF Pull
  <2> QED BY <1>1, <2>1 DEF StartPulls, ReceiverTypeOK
<1>4. /\ SourcesOf(d) \subseteq PRank /\ IsFiniteSet(SourcesOf(d))
      /\ Cardinality(SourcesOf(d)) \in 0 .. PTp
  BY SourcesCounted
<1>5. /\ count' \in [DRank -> [Req -> 0 .. PTp]]
      /\ \A x \in DRank, r \in Req :
           count'[x][r] = IF x = d /\ r \in b THEN Cardinality(SourcesOf(d)) ELSE count[x][r]
  <2>1. [r \in Req |-> IF r \in b THEN Cardinality(SourcesOf(d)) ELSE count[d][r]]
          \in [Req -> 0 .. PTp]
    BY <1>1, <1>4 DEF ReceiverTypeOK
  <2>2. count' = [count EXCEPT ![d] =
          [r \in Req |-> IF r \in b THEN Cardinality(SourcesOf(d)) ELSE count[d][r]]]
    BY <1>1 DEF StartPulls, ReceiverTypeOK
  <2> QED BY <1>1, <2>1, <2>2 DEF ReceiverTypeOK
<1>6. \A m \in Msg : New(m) => pull'[m].stage = "start" /\ pull'[m].remaining = b
  BY <1>2
<1> HIDE DEF New
<1>7. \A m \in Msg : ~New(m) => pull'[m] = pull[m]
  BY <1>2
<1>8. \A m \in Msg : New(m) => /\ m.d = d /\ m.batch = b /\ m.p \in SourcesOf(d)
                               /\ pull[m].stage = "none" /\ pull[m].remaining = {}
  BY <1>1 DEF New, PullShape
<1>9. \A x \in DRank, r \in Req :
        Owing(x, r)' = IF x = d /\ r \in b THEN {m \in Msg : New(m)} ELSE Owing(x, r)
  <2>1. ASSUME NEW r \in b, NEW m \in Msg
        PROVE  m.d = d /\ r \in pull'[m].remaining <=> New(m)
    <3>1. ~(m.d = d /\ r \in pull[m].remaining)
      BY DEF Owing
    <3> QED BY <1>6, <1>7, <1>8, <3>1
  <2>2. ASSUME NEW x \in DRank, NEW r \in Req, ~(x = d /\ r \in b), NEW m \in Msg
        PROVE  m.d = x /\ r \in pull'[m].remaining <=> m.d = x /\ r \in pull[m].remaining
    BY <1>6, <1>7, <1>8, <2>2
  <2> QED BY <2>1, <2>2 DEF Owing
<1>10. Cardinality({m \in Msg : New(m)}) = Cardinality(SourcesOf(d))
  <2> DEFINE N == {m \in Msg : New(m)}
             f == [p \in SourcesOf(d) |-> [d |-> d, p |-> p, batch |-> b]]
  <2>1. \A p \in SourcesOf(d) : f[p] \in N /\ f[p].p = p
    BY <1>4 DEF New, Msg
  <2>2. \A m \in N : m.p \in SourcesOf(d) /\ m = f[m.p]
    BY DEF New, Msg
  <2> HIDE DEF N
  <2>3. f \in Bijection(SourcesOf(d), N)
    <3>1. f \in [SourcesOf(d) -> N]
      BY <2>1
    <3> HIDE DEF f
    <3>2. \A x, y \in SourcesOf(d) : f[x] = f[y] => x = y
      BY <2>1
    <3>3. \A m \in N : \E p \in SourcesOf(d) : f[p] = m
      BY <2>2
    <3> QED BY <3>1, <3>2, <3>3 DEF Bijection, Injection, IsInjective, Surjection
  <2>4. ExistsBijection(SourcesOf(d), N)
    BY <2>3 DEF ExistsBijection
  <2> QED BY <1>4, <2>4, FS_Bijection DEF N
<1>11. CountExact'
  <2> SUFFICES ASSUME NEW x \in DRank, NEW r \in Req
               PROVE  count'[x][r] = Cardinality(Owing(x, r)')
    BY DEF CountExact
  <2>1. CASE x = d /\ r \in b
    BY <1>5, <1>9, <1>10, <2>1
  <2>2. CASE ~(x = d /\ r \in b)
    <3>1. count'[x][r] = count[x][r] /\ Owing(x, r)' = Owing(x, r)
      BY <1>5, <1>9, <2>2
    <3> QED BY <3>1 DEF PDInv, CountExact
  <2> QED BY <2>1, <2>2
<1>12. PulledTogether'
  <2> SUFFICES ASSUME NEW m \in Msg, pull'[m].stage # "none"
               PROVE  /\ RatioOk(DTp, PTp) /\ m.p \in SourcesOf(m.d)
                      /\ \A p \in SourcesOf(m.d) : pull'[[m EXCEPT !.p = p]].stage # "none"
    BY DEF PulledTogether
  <2>1. CASE New(m)
    <3>1. \A p \in SourcesOf(d) : [m EXCEPT !.p = p] \in Msg /\ New([m EXCEPT !.p = p])
      BY <1>4, <2>1 DEF New, Msg
    <3>2. \A p \in SourcesOf(d) : pull'[[m EXCEPT !.p = p]].stage # "none"
      BY <1>6, <3>1
    <3> QED BY <1>8, <2>1, <3>2
  <2>2. CASE ~New(m)
    <3>1. pull[m].stage # "none"
      BY <1>7, <2>2
    <3>2. /\ m.p \in SourcesOf(m.d)
          /\ \A p \in SourcesOf(m.d) : pull[[m EXCEPT !.p = p]].stage # "none"
      BY <3>1 DEF PDInv, PulledTogether
    <3>3. \A p \in SourcesOf(m.d) : [m EXCEPT !.p = p] \in Msg
      BY SourcesCounted DEF Msg
    <3>4. \A p \in SourcesOf(m.d) : pull'[[m EXCEPT !.p = p]].stage # "none"
      BY <1>7, <1>8, <3>2, <3>3
    <3> QED BY <3>2, <3>4
  <2> QED BY <2>1, <2>2
<1>13. PullShape'
  <2>1. UNCHANGED <<posted, replies, task, served, fatal>>
    BY DEF wireVars, senderVars
  <2>2. ASSUME NEW m \in Msg
        PROVE  /\ pull'[m].remaining \subseteq m.batch
               /\ pull'[m].stage \in {"none", "start"} => m \notin posted
               /\ pull'[m].stage \in {"none", "closed"} => pull'[m].remaining = {}
               /\ pull'[m].stage = "closed" /\ m \in posted => task[m].stage = "done"
               /\ pull'[m].stage = "lost" => fatal[m.d]
               /\ pull'[m].stage = "start" => pull'[m].remaining = m.batch
               /\ pull'[m].stage \in {"open", "lost"} =>
                    m \in posted /\ Fit(m, pull'[m].remaining, replies[m], task[m], served)
               /\ m \notin posted => replies[m] = <<>>
    <3>1. CASE New(m)
      BY <1>1, <1>6, <1>8, <3>1 DEF PullShape
    <3>2. CASE ~New(m)
      <4>1. pull'[m] = pull[m]
        BY <1>7, <3>2
      <4> QED BY <1>1, <4>1 DEF PullShape
    <3> QED BY <3>1, <3>2
  <2> QED BY <2>1, <2>2 DEF PullShape
<1> QED BY <1>3, <1>5, <1>6, <1>7, <1>9, <1>11, <1>12, <1>13 DEF New

\* recv() opens the blocks of a batch.
LEMMA RecvKeeps ==
  ASSUME PDInv, NEW d \in DRank, NEW b \in Batch, Recv(d, b), UNCHANGED senderVars
  PROVE  PDInv'
<1>1. /\ Running(d)
      /\ \A r \in b : Accepts(d, r) /\ target[d][r] # "open"
      /\ events' = [events EXCEPT ![d] = @ \cup b]
      /\ target' = [target EXCEPT ![d] = [r \in Req |-> IF r \in b THEN "open" ELSE @[r]]]
      /\ future' = [future EXCEPT ![d] = [r \in Req |-> IF r \in b THEN "pending" ELSE @[r]]]
      /\ UNCHANGED <<wireVars, known, querying, finished, failed, invalid,
                     retired, fatal, fenced>>
  BY DEF Recv
<1>2. \/ known[d] /\ RatioOk(DTp, PTp) /\ StartPulls(d, b) /\ UNCHANGED discovery
      \/ known[d] /\ UNCHANGED <<count, pull, discovery>>
      \/ ~known[d] /\ discovery' = [discovery EXCEPT ![d][b] = "new"] /\ UNCHANGED <<count, pull>>
  BY DEF Recv, ReceiveKv
<1>3. ReceiverTypeOK /\ b \subseteq Req /\ b # {}
  <2>1. ReceiverTypeOK
    BY DEF PDInv
  <2>2. b \in SUBSET Req /\ b \notin {{}}
    BY Zenon DEF Batch
  <2> QED BY <2>1, <2>2
<1>4. \A r \in b : target[d][r] = "unused"
  <2> SUFFICES ASSUME NEW r \in b
               PROVE  target[d][r] = "unused"
    OBVIOUS
  <2>1. r \notin retired[d] /\ target[d][r] # "open" /\ r \in Req
    BY <1>1, <1>3 DEF Accepts
  <2>2. target[d][r] # "closed"
    BY <2>1 DEF PDInv, TargetsKnown
  <2> QED BY <1>3, <2>1, <2>2 DEF ReceiverTypeOK
<1>5. /\ \A c \in Batch : c \cap b # {} => ~Asked(d, c)
      /\ discovery[d][b] = "none"
      /\ \A m \in Msg : m.d = d /\ m.batch \cap b # {} => pull[m].stage = "none"
      /\ \A r \in b : ~Awaited(d, r) /\ Owing(d, r) = {} /\ r \notin finished[d] \cup fenced[d]
  BY <1>3, <1>4, UnusedBatch DEF PDInv
<1>6. \A x \in DRank, r \in Req :
        /\ target'[x][r] = IF x = d /\ r \in b THEN "open" ELSE target[x][r]
        /\ future'[x][r] = IF x = d /\ r \in b THEN "pending" ELSE future[x][r]
        /\ r \in events'[x] <=> r \in events[x] \/ (x = d /\ r \in b)
  BY <1>1, <1>3 DEF ReceiverTypeOK
<1>7. \A x \in DRank, c \in Batch :
        /\ discovery'[x][c] = "none" => discovery[x][c] = "none"
        /\ discovery'[x][c] # "none" => discovery[x][c] # "none" \/ (x = d /\ c = b /\ ~known[d])
  BY <1>2, <1>3 DEF ReceiverTypeOK
\* The pull tasks, if they start at once.
<1>8. /\ pull' \in [Msg -> Pull] /\ count' \in [DRank -> [Req -> 0 .. PTp]]
      /\ (PullShape /\ PulledTogether /\ CountExact)'
      /\ \A m \in Msg :
           \/ /\ m.d = d /\ m.batch = b /\ known[d]
              /\ pull'[m].stage = "start" /\ pull'[m].remaining = b
           \/ pull'[m] = pull[m]
      /\ \A x \in DRank, r \in Req :
           Owing(x, r)' # {} => Owing(x, r) # {} \/ (x = d /\ r \in b)
  <2>1. CASE known[d] /\ RatioOk(DTp, PTp) /\ StartPulls(d, b)
    <3>1. RatioOk(DTp, PTp)
      BY <2>1
    <3>2. \A m \in Msg : m.d = d /\ m.batch = b => pull[m].stage = "none"
      BY <1>3, <1>5
    <3>3. /\ pull' \in [Msg -> Pull] /\ count' \in [DRank -> [Req -> 0 .. PTp]]
          /\ (PullShape /\ PulledTogether /\ CountExact)'
          /\ \A m \in Msg :
               IF m.d = d /\ m.batch = b /\ m.p \in SourcesOf(d)
                 THEN pull'[m].stage = "start" /\ pull'[m].remaining = b
                 ELSE pull'[m] = pull[m]
          /\ \A x \in DRank, r \in Req :
               Owing(x, r)' # {} => Owing(x, r) # {} \/ (x = d /\ r \in b)
      BY <1>1, <1>5, <2>1, <3>1, <3>2, Starting
    <3> QED BY <2>1, <3>3
  <2>2. CASE UNCHANGED <<count, pull>>
    <3>1. (PullShape /\ CountExact)'
      BY <1>1, <2>2, OtherFrames
    <3>2. PulledTogether'
      BY <2>2 DEF PDInv, PulledTogether
    <3>3. \A x \in DRank, r \in Req : Owing(x, r)' = Owing(x, r)
      BY <2>2 DEF Owing
    <3> QED BY <1>3, <2>2, <3>1, <3>2, <3>3 DEF ReceiverTypeOK
  <2> QED BY <1>2, <2>1, <2>2
<1>9. ReceiverTypeOK'
  <2>1. events' \in [DRank -> SUBSET Req] /\ future' \in [DRank -> [Req -> {"none", "pending", "done"}]]
    BY <1>1, <1>3 DEF ReceiverTypeOK
  <2>2. target' \in [DRank -> [Req -> {"unused", "open", "closed"}]]
    BY <1>1, <1>3 DEF ReceiverTypeOK
  <2>3. discovery' \in [DRank -> [Batch -> {"none", "new", "query", "wait", "woken"}]]
    <3>1. CASE UNCHANGED discovery
      BY <1>3, <3>1 DEF ReceiverTypeOK
    <3>2. CASE discovery' = [discovery EXCEPT ![d][b] = "new"]
      BY <1>3, <3>2 DEF ReceiverTypeOK
    <3> QED BY <1>2, <3>1, <3>2
  <2> QED BY <1>1, <1>3, <1>8, <2>1, <2>2, <2>3 DEF ReceiverTypeOK
<1>10. TargetsKnown'
  <2> SUFFICES ASSUME NEW x \in DRank, NEW r \in Req
               PROVE  /\ target'[x][r] = "open" <=> r \in events'[x]
                      /\ target'[x][r] = "closed" <=> r \in retired'[x]
    BY DEF TargetsKnown
  <2>1. (target[x][r] = "open" <=> r \in events[x]) /\ (target[x][r] = "closed" <=> r \in retired[x])
    BY DEF PDInv, TargetsKnown
  <2> QED BY <1>1, <1>4, <1>6, <2>1
<1>11. \A x \in DRank, c \in Batch : Asked(x, c)' => Asked(x, c) \/ (x = d /\ c = b)
  BY <1>7, <1>8 DEF Asked
<1>12. OneAttempt'
  <2>1. ASSUME NEW x \in DRank, NEW c \in Batch, NEW e \in Batch,
               Asked(x, c)', Asked(x, e)', c \cap e # {}
        PROVE  c = e
    BY <1>5, <1>11, <2>1 DEF PDInv, OneAttempt
  <2>2. ASSUME NEW x \in DRank, NEW c \in Batch, Asked(x, c)', NEW r \in c
        PROVE  target'[x][r] # "unused"
    <3>1. r \in Req
      BY DEF Batch
    <3> QED BY <1>6, <1>11, <2>2, <3>1 DEF PDInv, OneAttempt
  <2> QED BY <2>1, <2>2, Zenon DEF OneAttempt
<1>13. DiscoveryFirst'
  <2> SUFFICES ASSUME NEW m \in Msg, discovery'[m.d][m.batch] # "none"
               PROVE  pull'[m].stage = "none"
    BY DEF DiscoveryFirst
  <2>1. m.d \in DRank /\ m.batch \in Batch
    BY DEF Msg
  <2>2. CASE discovery[m.d][m.batch] # "none"
    <3>1. ~(m.d = d /\ m.batch = b)
      BY <1>5, <2>2
    <3>2. pull'[m] = pull[m]
      BY <1>8, <3>1
    <3> QED BY <2>2, <3>2 DEF PDInv, DiscoveryFirst
  <2>3. CASE m.d = d /\ m.batch = b /\ ~known[d]
    <3>1. pull'[m] = pull[m] /\ m.batch \cap b # {}
      BY <1>3, <1>8, <2>3
    <3> QED BY <1>5, <2>3, <3>1
  <2> QED BY <1>7, <2>1, <2>2, <2>3
<1>14. AwaitedOpen'
  <2> SUFFICES ASSUME NEW x \in DRank, NEW r \in Req, Awaited(x, r)'
               PROVE  /\ target'[x][r] = "open" /\ r \notin finished'[x]
                      /\ future'[x][r] = "pending" \/ fatal'[x]
    BY Zenon DEF AwaitedOpen
  <2>1. Awaited(x, r) \/ (x = d /\ r \in b)
    BY <1>7, <1>8 DEF Awaited
  <2>2. CASE x = d /\ r \in b
    BY <1>1, <1>5, <1>6, <2>2
  <2>3. CASE Awaited(x, r) /\ ~(x = d /\ r \in b)
    BY <1>1, <1>6, <2>3 DEF PDInv, AwaitedOpen
  <2> QED BY <2>1, <2>2, <2>3
<1>15. ResultsOpen'
  <2> SUFFICES ASSUME NEW x \in DRank, NEW r \in finished[x] \cup fenced[x]
               PROVE  target'[x][r] = "open"
    BY <1>1 DEF ResultsOpen
  <2>1. r \in Req /\ target[x][r] = "open"
    BY <1>3 DEF ReceiverTypeOK, PDInv, ResultsOpen
  <2> QED BY <1>6, <2>1
<1>16. ResultsTrue'
  <2> SUFFICES ASSUME NEW m \in Msg, NEW r \in m.batch, pull'[m].stage # "none",
                      target'[m.d][r] = "open"
               PROVE  \/ r \in failed[m.d] \/ r \in pull'[m].remaining
                      \/ <<m.d, m.p, r>> \in served
    BY <1>1 DEF ResultsTrue, senderVars
  <2>1. m.d \in DRank /\ r \in Req
    BY DEF Msg, Batch
  <2>2. CASE m.batch = b /\ pull'[m].remaining = b
    BY <2>2
  <2>3. CASE pull'[m] = pull[m]
    <3>1. ~(m.d = d /\ r \in b)
      BY <1>5, <2>3
    <3>2. target[m.d][r] = "open"
      BY <1>6, <2>1, <3>1
    <3> QED BY <2>3, <3>2 DEF PDInv, ResultsTrue
  <2> QED BY <1>8, <2>2, <2>3
<1>17. FinishedPulled'
  <2> SUFFICES ASSUME NEW x \in DRank, NEW r \in finished[x] \ failed[x]
               PROVE  \E m \in Msg : m.d = x /\ r \in m.batch /\ pull'[m].stage # "none"
    BY <1>1 DEF FinishedPulled
  <2>1. PICK m \in Msg : m.d = x /\ r \in m.batch /\ pull[m].stage # "none"
    BY DEF PDInv, FinishedPulled
  <2>2. pull'[m].stage # "none"
    BY <1>8, <2>1
  <2> QED BY <2>1, <2>2
<1>18. IInv' /\ GoneInv'
  BY <1>1, WireKept
<1> QED BY <1>8, <1>9, <1>10, <1>12, <1>13, <1>14, <1>15, <1>16, <1>17, <1>18 DEF PDInv

-----------------------------------------------------------------------------
(***************************************************************************)
(* handle_new_engine_id goes on: the batch fails, or its pulls start, or   *)
(* the TP sizes do not fit and its task dies.                              *)
(***************************************************************************)
Resumes(d, b) ==
  /\ discovery[d][b] # "none"
  /\ discovery' \in [DRank -> [Batch -> {"none", "new", "query", "wait", "woken"}]]
  /\ \A x \in DRank, c \in Batch :
       discovery'[x][c] = "none" <=> discovery[x][c] = "none" \/ (x = d /\ c = b)
  /\ known' \in [DRank -> BOOLEAN] /\ querying' \in [DRank -> BOOLEAN]
  /\ UNCHANGED <<wireVars, senderVars, events, invalid, retired, fatal, fenced, target>>

\* The engine was not found: the whole batch fails at once.
LEMMA UndiscoveredKeeps ==
  ASSUME PDInv, NEW d \in DRank, NEW b \in Batch, Resumes(d, b),
         Resume(d, b, FALSE)
  PROVE  PDInv'
<1>1. /\ failed' = [failed EXCEPT ![d] = @ \cup b]
      /\ finished' = [finished EXCEPT ![d] = @ \cup b]
      /\ future' = [future EXCEPT ![d] = [r \in Req |->
           IF r \in b /\ @[r] = "pending" THEN "done" ELSE @[r]]]
      /\ UNCHANGED <<pull, count>>
  BY DEF Resume, FinishReceives
<1>2. ReceiverTypeOK /\ b \subseteq Req
  BY DEF PDInv, Batch
<1>3. /\ \A r \in b : Owing(d, r) = {}
      /\ \A c \in Batch : discovery[d][c] # "none" /\ c \cap b # {} => c = b
  BY DiscoveryAlone DEF PDInv, Resumes
<1>4. \A x \in DRank, r \in Req :
        /\ r \in finished'[x] <=> r \in finished[x] \/ (x = d /\ r \in b)
        /\ r \in failed'[x] <=> r \in failed[x] \/ (x = d /\ r \in b)
        /\ ~(x = d /\ r \in b) => future'[x][r] = future[x][r]
  <2>1. \A x \in DRank, r \in Req :
          /\ r \in finished'[x] <=> r \in finished[x] \/ (x = d /\ r \in b)
          /\ r \in failed'[x] <=> r \in failed[x] \/ (x = d /\ r \in b)
    BY <1>1, <1>2 DEF ReceiverTypeOK
  <2>2. \A x \in DRank, r \in Req : ~(x = d /\ r \in b) => future'[x][r] = future[x][r]
    BY <1>1, <1>2 DEF ReceiverTypeOK
  <2> QED BY <2>1, <2>2
<1>5. \A r \in b : target[d][r] = "open" /\ Awaited(d, r)
  <2>1. \A r \in b : Awaited(d, r)
    BY DEF Awaited, Resumes
  <2> QED BY <1>2, <2>1 DEF PDInv, AwaitedOpen
<1>6. NoNewAsk
  BY <1>1 DEF NoNewAsk, Resumes
<1>7. AwaitedOpen'
  <2> SUFFICES ASSUME NEW x \in DRank, NEW r \in Req, Awaited(x, r)'
               PROVE  /\ target'[x][r] = "open" /\ r \notin finished'[x]
                      /\ future'[x][r] = "pending" \/ fatal'[x]
    BY Zenon DEF AwaitedOpen
  <2>1. CASE Owing(x, r) # {}
    <3>1. ~(x = d /\ r \in b) /\ Awaited(x, r)
      BY <1>3, <2>1 DEF Awaited
    <3> QED BY <1>4, <3>1 DEF PDInv, AwaitedOpen, Resumes
  <2>2. CASE \E c \in Batch : r \in c /\ discovery'[x][c] # "none"
    <3>1. PICK c \in Batch : r \in c /\ discovery'[x][c] # "none"
      BY <2>2
    <3>2. discovery[x][c] # "none" /\ ~(x = d /\ c = b)
      BY <3>1 DEF Resumes
    <3>3. ~(x = d /\ r \in b)
      BY <1>3, <3>1, <3>2
    <3>4. Awaited(x, r)
      BY <3>1, <3>2 DEF Awaited
    <3> QED BY <1>4, <3>3, <3>4 DEF PDInv, AwaitedOpen, Resumes
  <2>3. Owing(x, r)' = Owing(x, r)
    BY <1>1 DEF Owing
  <2> QED BY <2>1, <2>2, <2>3 DEF Awaited
<1>8. ResultsOpen'
  <2> SUFFICES ASSUME NEW x \in DRank, NEW r \in finished'[x] \cup fenced[x]
               PROVE  target[x][r] = "open"
    BY DEF ResultsOpen, Resumes
  <2>1. r \in finished[x] \cup fenced[x] \/ (x = d /\ r \in b)
    BY <1>1, <1>2 DEF ReceiverTypeOK
  <2> QED BY <1>5, <2>1 DEF PDInv, ResultsOpen
<1>9. ResultsTrue'
  <2> SUFFICES ASSUME NEW m \in Msg, NEW r \in m.batch, pull[m].stage # "none",
                      target[m.d][r] = "open"
               PROVE  \/ r \in failed'[m.d] \/ r \in pull[m].remaining
                      \/ <<m.d, m.p, r>> \in served
    BY <1>1 DEF ResultsTrue, senderVars, Resumes
  <2>1. m.d \in DRank /\ r \in Req
    BY DEF Msg, Batch
  <2> QED BY <1>4, <2>1 DEF PDInv, ResultsTrue
<1>10. FinishedPulled'
  <2> SUFFICES ASSUME NEW x \in DRank, NEW r \in finished'[x] \ failed'[x]
               PROVE  \E m \in Msg : m.d = x /\ r \in m.batch /\ pull[m].stage # "none"
    BY <1>1 DEF FinishedPulled
  <2>1. r \in Req
    BY <1>1, <1>2 DEF ReceiverTypeOK
  <2>2. r \in finished[x] \ failed[x]
    BY <1>4, <2>1
  <2> QED BY <2>2 DEF PDInv, FinishedPulled
<1>11. ReceiverTypeOK'
  <2>1. finished' \in [DRank -> SUBSET Req] /\ failed' \in [DRank -> SUBSET Req]
    BY <1>1, <1>2 DEF ReceiverTypeOK
  <2>2. future' \in [DRank -> [Req -> {"none", "pending", "done"}]]
    BY <1>1, <1>2 DEF ReceiverTypeOK
  <2> QED BY <1>1, <1>2, <2>1, <2>2 DEF ReceiverTypeOK, Resumes
<1> QED BY <1>1, <1>6, <1>7, <1>8, <1>9, <1>10, <1>11, WireKept, AskFrame, OtherFrames
        DEF PDInv, Resumes

\* Nothing but the discovery, and perhaps the pulls, has changed.
LEMMA DiscoveredKeeps ==
  ASSUME PDInv, NEW d \in DRank, NEW b \in Batch, Resumes(d, b),
         Resume(d, b, TRUE)
  PROVE  PDInv'
<1>1. /\ IF RatioOk(DTp, PTp) THEN StartPulls(d, b) ELSE UNCHANGED <<pull, count>>
      /\ UNCHANGED <<failed, finished, future>>
  BY DEF Resume, ReceiveKv
<1>2. ReceiverTypeOK /\ b \subseteq Req
  BY DEF PDInv, Batch
<1>3. /\ \A m \in Msg : m.d = d /\ m.batch = b => pull[m].stage = "none"
      /\ \A r \in b : Owing(d, r) = {}
      /\ \A c \in Batch : discovery[d][c] # "none" /\ c \cap b # {} => c = b
  BY DiscoveryAlone DEF PDInv, Resumes
<1>4. /\ pull' \in [Msg -> Pull] /\ count' \in [DRank -> [Req -> 0 .. PTp]]
      /\ (PullShape /\ PulledTogether /\ CountExact)'
      /\ \A m \in Msg :
           \/ /\ m.d = d /\ m.batch = b
              /\ pull'[m].stage = "start" /\ pull'[m].remaining = b
           \/ pull'[m] = pull[m]
      /\ \A x \in DRank, r \in Req :
           Owing(x, r)' # {} => Owing(x, r) # {} \/ (x = d /\ r \in b)
  <2>0. UNCHANGED <<wireVars, senderVars, fatal>>
    BY DEF Resumes
  <2>1. CASE RatioOk(DTp, PTp)
    <3>1. /\ pull' \in [Msg -> Pull] /\ count' \in [DRank -> [Req -> 0 .. PTp]]
          /\ (PullShape /\ PulledTogether /\ CountExact)'
          /\ \A m \in Msg :
               IF m.d = d /\ m.batch = b /\ m.p \in SourcesOf(d)
                 THEN pull'[m].stage = "start" /\ pull'[m].remaining = b
                 ELSE pull'[m] = pull[m]
          /\ \A x \in DRank, r \in Req :
               Owing(x, r)' # {} => Owing(x, r) # {} \/ (x = d /\ r \in b)
      BY <1>1, <1>3, <2>0, <2>1, Starting
    <3> QED BY <3>1
  <2>2. CASE UNCHANGED <<pull, count>>
    <3>1. (PullShape /\ CountExact)'
      BY <2>0, <2>2, OtherFrames
    <3>2. PulledTogether'
      BY <2>2 DEF PDInv, PulledTogether
    <3>3. \A x \in DRank, r \in Req : Owing(x, r)' = Owing(x, r)
      BY <2>2 DEF Owing
    <3> QED BY <1>2, <2>2, <3>1, <3>2, <3>3 DEF ReceiverTypeOK
  <2> QED BY <1>1, <2>1, <2>2
<1>5. ReceiverTypeOK'
  BY <1>1, <1>2, <1>4 DEF ReceiverTypeOK, Resumes
<1>6. \A x \in DRank, c \in Batch : Asked(x, c)' => Asked(x, c)
  BY <1>4 DEF Asked, Resumes
<1>7. OneAttempt'
  <2>1. UNCHANGED target
    BY DEF Resumes
  <2>2. ASSUME NEW x \in DRank, NEW c \in Batch, NEW e \in Batch,
               Asked(x, c)', Asked(x, e)', c \cap e # {}
        PROVE  c = e
    BY <1>6, <2>2 DEF PDInv, OneAttempt
  <2>3. ASSUME NEW x \in DRank, NEW c \in Batch, Asked(x, c)', NEW r \in c
        PROVE  target'[x][r] # "unused"
    BY <1>6, <2>1, <2>3 DEF PDInv, OneAttempt
  <2> QED BY <2>2, <2>3, Zenon DEF OneAttempt
<1>8. DiscoveryFirst'
  <2> SUFFICES ASSUME NEW m \in Msg, discovery'[m.d][m.batch] # "none"
               PROVE  pull'[m].stage = "none"
    BY DEF DiscoveryFirst
  <2>1. m.d \in DRank /\ m.batch \in Batch
    BY DEF Msg
  <2>2. discovery[m.d][m.batch] # "none" /\ ~(m.d = d /\ m.batch = b)
    BY <2>1 DEF Resumes
  <2>3. pull'[m] = pull[m]
    BY <1>4, <2>2
  <2> QED BY <2>2, <2>3 DEF PDInv, DiscoveryFirst
<1>9. AwaitedOpen'
  <2>1. \A r \in b : Awaited(d, r)
    BY DEF Awaited, Resumes
  <2>2. \A x \in DRank, r \in Req : Awaited(x, r)' => Awaited(x, r)
    BY <1>4, <2>1 DEF Awaited, Resumes
  <2> QED BY <1>1, <2>2 DEF PDInv, AwaitedOpen, Resumes
<1>10. ResultsTrue'
  <2> SUFFICES ASSUME NEW m \in Msg, NEW r \in m.batch, pull'[m].stage # "none",
                      target[m.d][r] = "open"
               PROVE  \/ r \in failed[m.d] \/ r \in pull'[m].remaining
                      \/ <<m.d, m.p, r>> \in served
    BY <1>1 DEF ResultsTrue, senderVars, Resumes
  <2>1. CASE m.batch = b /\ pull'[m].remaining = b
    BY <2>1
  <2>2. CASE pull'[m] = pull[m]
    BY <2>2 DEF PDInv, ResultsTrue
  <2> QED BY <1>4, <2>1, <2>2
<1>11. FinishedPulled'
  <2> SUFFICES ASSUME NEW x \in DRank, NEW r \in finished[x] \ failed[x]
               PROVE  \E m \in Msg : m.d = x /\ r \in m.batch /\ pull'[m].stage # "none"
    BY <1>1 DEF FinishedPulled
  <2>1. PICK m \in Msg : m.d = x /\ r \in m.batch /\ pull[m].stage # "none"
    BY DEF PDInv, FinishedPulled
  <2>2. pull'[m].stage # "none"
    BY <1>4, <2>1
  <2> QED BY <2>1, <2>2
<1> QED BY <1>1, <1>4, <1>5, <1>7, <1>8, <1>9, <1>10, <1>11, WireKept, OtherFrames
        DEF PDInv, Resumes

\* A discovery goes on after its await.
LEMMA ResumeKeeps ==
  ASSUME PDInv, NEW d \in DRank, NEW b \in Batch, Resumes(d, b),
         NEW isKnown \in BOOLEAN, Resume(d, b, isKnown)
  PROVE  PDInv'
BY UndiscoveredKeeps, DiscoveredKeeps

\* The query ends.
LEMMA QueryDoneKeeps ==
  ASSUME PDInv, NEW d \in DRank, NEW b \in Batch, NEW found \in BOOLEAN,
         QueryDone(d, b, found), UNCHANGED senderVars
  PROVE  PDInv'
<1>1. ReceiverTypeOK
  BY DEF PDInv
<1>2. /\ discovery[d][b] = "query"
      /\ known' = [known EXCEPT ![d] = @ \/ found]
      /\ querying' = [querying EXCEPT ![d] = FALSE]
      /\ discovery' = [discovery EXCEPT ![d] = [c \in Batch |->
           IF c = b THEN "none"
           ELSE IF discovery[d][c] = "wait" THEN "woken" ELSE discovery[d][c]]]
      /\ Resume(d, b, known[d] \/ found)
      /\ UNCHANGED <<wireVars, events, invalid, retired, fatal, fenced, target>>
  BY DEF QueryDone, AwaitsOver
<1>3. discovery' \in [DRank -> [Batch -> {"none", "new", "query", "wait", "woken"}]]
  BY <1>1, <1>2 DEF ReceiverTypeOK
<1>4. \A x \in DRank, c \in Batch :
        discovery'[x][c] = "none" <=> discovery[x][c] = "none" \/ (x = d /\ c = b)
  BY <1>1, <1>2 DEF ReceiverTypeOK
<1>5. (known[d] \/ found) \in BOOLEAN
  BY <1>1 DEF ReceiverTypeOK
<1>6. known' \in [DRank -> BOOLEAN] /\ querying' \in [DRank -> BOOLEAN]
  <2> DEFINE now == known[d] \/ found
  <2>1. now \in BOOLEAN /\ known' = [known EXCEPT ![d] = now]
    BY <1>2, <1>5
  <2> HIDE DEF now
  <2> QED BY <1>1, <1>2, <2>1 DEF ReceiverTypeOK
<1>7. Resumes(d, b)
  BY <1>2, <1>3, <1>4, <1>6 DEF Resumes
<1> QED BY <1>2, <1>5, <1>7, ResumeKeeps

\* A task that waited for the query of another one goes on.
LEMMA WokeKeeps ==
  ASSUME PDInv, NEW d \in DRank, NEW b \in Batch, Woke(d, b), UNCHANGED senderVars
  PROVE  PDInv'
<1>1. ReceiverTypeOK
  BY DEF PDInv
<1>2. /\ discovery[d][b] = "woken"
      /\ discovery' = [discovery EXCEPT ![d][b] = "none"]
      /\ Resume(d, b, known[d])
      /\ UNCHANGED <<wireVars, known, querying, events, invalid, retired, fatal,
                     fenced, target>>
  BY DEF Woke
<1>3. /\ discovery' \in [DRank -> [Batch -> {"none", "new", "query", "wait", "woken"}]]
      /\ \A x \in DRank, c \in Batch :
           discovery'[x][c] = "none" <=> discovery[x][c] = "none" \/ (x = d /\ c = b)
  BY <1>1, <1>2 DEF ReceiverTypeOK
<1>4. Resumes(d, b)
  BY <1>1, <1>2, <1>3 DEF Resumes, ReceiverTypeOK
<1>5. known[d] \in BOOLEAN
  BY <1>1 DEF ReceiverTypeOK
<1> QED BY <1>2, <1>4, <1>5, ResumeKeeps

-----------------------------------------------------------------------------
(***************************************************************************)
(* PDInv is inductive.                                                     *)
(***************************************************************************)
LEMMA InitPDInv == PDInit => PDInv
<1> SUFFICES ASSUME PDInit
             PROVE  PDInv
  OBVIOUS
<1>1. Init /\ WireInit /\ ReceiverInit
  BY DEF PDInit, Init
<1>2. IInv /\ GoneInv
  BY <1>1, InitIInv, InitAnswer
<1>3. /\ \A d \in DRank, b \in Batch : discovery[d][b] = "none"
      /\ \A m \in Msg : pull[m].stage = "none" /\ pull[m].remaining = {}
      /\ \A d \in DRank : /\ events[d] = {} /\ retired[d] = {} /\ finished[d] = {}
                          /\ failed[d] = {} /\ fenced[d] = {}
      /\ \A d \in DRank, r \in Req : target[d][r] = "unused" /\ count[d][r] = 0
  BY <1>1 DEF ReceiverInit
<1>4. ReceiverTypeOK
  <2>1. 0 \in 0 .. PTp
    BY TpAssumption
  <2> QED BY <1>1, <2>1 DEF ReceiverInit, ReceiverTypeOK, Pull
<1>5. /\ \A d \in DRank, b \in Batch : ~Asked(d, b)
      /\ \A d \in DRank, r \in Req : Owing(d, r) = {} /\ ~Awaited(d, r)
  BY <1>3 DEF Asked, Owing, Awaited
<1>6. TargetsKnown /\ ResultsOpen /\ FinishedPulled /\ DiscoveryFirst
  BY <1>3 DEF TargetsKnown, ResultsOpen, FinishedPulled, DiscoveryFirst
<1>7. OneAttempt /\ AwaitedOpen /\ PulledTogether /\ ResultsTrue
  BY <1>3, <1>5 DEF OneAttempt, AwaitedOpen, PulledTogether, ResultsTrue
<1>8. PullShape
  BY <1>1, <1>3 DEF PullShape, WireInit
<1>9. CountExact
  BY <1>3, <1>5, FS_EmptySet DEF CountExact
<1> QED BY <1>2, <1>4, <1>6, <1>7, <1>8, <1>9 DEF PDInv

\* Every step of a P rank or a D rank keeps it.
LEMMA NextPDInv == PDInv /\ [PDNext]_pdVars => PDInv'
<1> SUFFICES ASSUME PDInv, [PDNext]_pdVars
             PROVE  PDInv'
  OBVIOUS
<1>1. CASE SenderNext /\ UNCHANGED receiverVars
  BY <1>1, SenderKeeps
<1>2. CASE ReceiverNext /\ UNCHANGED senderVars
  <2> USE <1>2
  <2>1. ASSUME NEW d \in DRank, WorkerStep(d)
        PROVE  PDInv'
    BY <2>1, PollRecvKeeps, TakeErrorsKeeps, FenceReturnKeeps, FenceKeeps, RecvKeeps
       DEF WorkerStep
  <2>2. ASSUME NEW d \in DRank, NEW b \in Batch, DiscoveryStep(d, b)
        PROVE  PDInv'
    BY <2>2, DiscoverKeeps, WokeKeeps, QueryDoneKeeps DEF DiscoveryStep
  <2>3. ASSUME NEW m \in Msg, PullStep(m)
        PROVE  PDInv'
    BY <2>3, PublishKeeps, ReceiveKeeps, PeerLostKeeps, ConnectFailKeeps DEF PullStep
  <2> QED BY <2>1, <2>2, <2>3 DEF ReceiverNext
<1>3. CASE UNCHANGED pdVars
  <2>1. UNCHANGED <<wireVars, senderVars, receiverVars>>
    BY <1>3 DEF pdVars
  <2>2. UNCHANGED <<known, querying, discovery, pull, events, future, count, finished,
                    failed, invalid, retired, fatal, fenced, target>>
    BY <2>1 DEF receiverVars, discVars, resultVars
  <2>3. NoNewAsk /\ ReceiverTypeOK'
    BY <2>2 DEF NoNewAsk, PDInv, ReceiverTypeOK
  <2> QED BY <2>1, <2>2, <2>3, WireKept, AskFrame, OtherFrames DEF PDInv
<1> QED BY <1>1, <1>2, <1>3 DEF PDNext

\* The invariant holds of every reachable state of the two engines.
THEOREM PDInductive == PDSpec => []PDInv
BY InitPDInv, NextPDInv, PTL DEF PDSpec

\* The state of the transfer keeps its shape; pull_tasks_count stays between
\* zero and the number of P ranks.
THEOREM PDTypeCorrect == PDSpec => []PDTypeOK
<1>1. PDInv => PDTypeOK
  BY DEF PDInv, IInv, PDTypeOK
<1> QED BY <1>1, PDInductive, PTL

\* pull_tasks_count is the number of P ranks that still owe an answer.
THEOREM CountsExact == PDSpec => []CountExact
<1>1. PDInv => CountExact
  BY DEF PDInv
<1> QED BY <1>1, PDInductive, PTL

\* What a sender task is at work on, D still waits for.
LEMMA WorkAwaited ==
  ASSUME PDInv, NEW m \in Msg, NEW r \in Req, r \in task[m].pending \cup task[m].round
  PROVE  /\ m \in posted /\ pull[m].stage \in {"open", "lost"}
         /\ Awaited(m.d, r) /\ target[m.d][r] = "open"
<1>1. m \in posted /\ task[m].stage \notin {"idle", "done"}
  BY DEF PDInv, IInv, TaskShape
<1>2. pull[m].stage \in {"open", "lost"}
  <2>1. pull[m].stage \notin {"none", "start", "closed"}
    BY <1>1 DEF PDInv, PullShape
  <2>2. pull[m] \in Pull
    BY DEF PDInv, ReceiverTypeOK
  <2> QED BY <2>1, <2>2 DEF Pull
<1>3. r \in pull[m].remaining
  <2>1. Fit(m, pull[m].remaining, replies[m], task[m], served)
    BY <1>2 DEF PDInv, PullShape
  <2> QED BY <1>1, <2>1 DEF Fit, Unsaid
<1>4. m.d \in DRank /\ Awaited(m.d, r)
  BY <1>3 DEF Awaited, Owing, Msg
<1>5. target[m.d][r] = "open"
  BY <1>4 DEF PDInv, AwaitedOpen
<1> QED BY <1>1, <1>2, <1>4, <1>5

\* The copies that tasks t are making.
CopiesOf(t) == UNION {{<<m.d, m.p, r>> : r \in t[m].ok} :
                        m \in {n \in Msg : t[n].stage = "writing"}}

\* A copy is of a request in the ok set of a task that writes.
LEMMA CopiesAre ==
  ASSUME NEW t \in [Msg -> Task]
  PROVE  /\ CopiesOf(t) \subseteq Copy
         /\ \A c \in Copy : c \in CopiesOf(t) <=>
              \E m \in Msg : /\ m.d = c[1] /\ m.p = c[2]
                            /\ t[m].stage = "writing" /\ c[3] \in t[m].ok
<1>1. ASSUME NEW c \in CopiesOf(t)
      PROVE  \E m \in Msg, r \in Req :
               t[m].stage = "writing" /\ r \in t[m].ok /\ c = <<m.d, m.p, r>>
  BY DEF CopiesOf, Task
<1>2. ASSUME NEW m \in Msg, NEW r \in t[m].ok, t[m].stage = "writing"
      PROVE  <<m.d, m.p, r>> \in CopiesOf(t)
  BY <1>2 DEF CopiesOf
<1>3. CopiesOf(t) \subseteq Copy
  BY <1>1 DEF Copy, Msg
<1>4. \A c \in Copy : c = <<c[1], c[2], c[3]>>
  BY DEF Copy
<1> QED BY <1>1, <1>2, <1>3, <1>4

(***************************************************************************)
(* D's blocks are written only while its receive is open: not once the     *)
(* result was polled or preempt() has returned, whatever answers were      *)
(* late, failed or lost, and however the batches of the ranks overlap.     *)
(***************************************************************************)
THEOREM WritesBeforeTerminal == PDSpec => []NoWriteAfterTerminal
<1>1. ASSUME PDInv, NEW c \in Copying
      PROVE  target[c[1]][c[3]] = "open"
  <2>1. task \in [Msg -> Task] /\ Copying = CopiesOf(task)
    BY <1>1 DEF PDInv, IInv, SenderTypeOK, Copying, CopiesOf
  <2>2. c \in Copy /\ c[3] \in Req
    BY <1>1, <2>1, CopiesAre DEF Copy
  <2>3. PICK m \in Msg : m.d = c[1] /\ c[3] \in task[m].ok
    BY <1>1, <2>1, <2>2, CopiesAre
  <2>4. c[3] \in task[m].round
    BY <1>1, <2>3 DEF PDInv, IInv, TaskShape
  <2> QED BY <1>1, <2>2, <2>3, <2>4, WorkAwaited
<1>2. PDInv => NoWriteAfterTerminal
  BY <1>1 DEF NoWriteAfterTerminal
<1> QED BY <1>2, PDInductive, PTL

(***************************************************************************)
(* A receive that will be reported as successful was written by every P    *)
(* rank the D rank pulls from.                                             *)
(***************************************************************************)
THEOREM SuccessWasWritten == PDSpec => []OkMeansWritten
<1>1. ASSUME PDInv, NEW d \in DRank, NEW r \in finished[d] \ failed[d], NEW p \in SourcesOf(d)
      PROVE  <<d, p, r>> \in served
  <2>1. r \in Req /\ target[d][r] = "open"
    BY <1>1 DEF PDInv, ResultsOpen, ReceiverTypeOK
  <2>2. PICK m \in Msg : m.d = d /\ r \in m.batch /\ pull[m].stage # "none"
    BY <1>1 DEF PDInv, FinishedPulled
  <2> DEFINE n == [m EXCEPT !.p = p]
  <2>3. RatioOk(DTp, PTp) /\ pull[n].stage # "none"
    BY <1>1, <2>2 DEF PDInv, PulledTogether
  <2>4. n \in Msg /\ n.d = d /\ n.p = p /\ r \in n.batch
    BY <1>1, <2>2, <2>3, SourcesCounted DEF Msg
  <2> HIDE DEF n
  <2>5. r \notin pull[n].remaining
    <3>1. ~Awaited(d, r)
      BY <1>1, <2>1 DEF PDInv, AwaitedOpen
    <3> QED BY <2>4, <3>1 DEF Awaited, Owing
  <2> QED BY <1>1, <2>1, <2>3, <2>4, <2>5 DEF PDInv, ResultsTrue
<1>2. PDInv => OkMeansWritten
  BY <1>1 DEF OkMeansWritten
<1> QED BY <1>2, PDInductive, PTL

(***************************************************************************)
(* D and P compute the pairing of their ranks on their own, D to decide    *)
(* whom to ask, P to decide whom to serve.  P refuses a genuine message    *)
(* only for the layout of the D rank's regions, never for the pairing.     *)
(***************************************************************************)
GenuineAccepted == \A m \in posted : Valid(m) <=> m.d \notin BadLayout

\* Every message that D sends finds a P rank that agrees on the pairing.
THEOREM PairingsMeet == PDSpec => []GenuineAccepted
<1>1. ASSUME PDInv, NEW m \in posted
      PROVE  Valid(m) <=> m.d \notin BadLayout
  <2>1. m \in Msg /\ m.d \in DRank /\ m.p \in PRank
    BY <1>1 DEF PDInv, IInv, WireTypeOK, Msg
  <2>2. RatioOk(DTp, PTp) /\ m.p \in SourcesOf(m.d)
    BY <1>1, <2>1 DEF PDInv, PulledTogether, PullShape
  <2> QED BY <2>1, <2>2, PairingAgrees DEF Valid
<1>2. PDInv => GenuineAccepted
  BY <1>1 DEF GenuineAccepted
<1> QED BY <1>2, PDInductive, PTL

(***************************************************************************)
(* What was proved of the sender alone, with D ranks that ask as they      *)
(* like, holds with these D ranks too.                                     *)
(***************************************************************************)
THEOREM SenderStaysSafe ==
  PDSpec => [](NoReadAfterRelease /\ SendingBalanced /\ FinishedMeansServed)
<1>1. ASSUME PDInv, NEW m \in Msg, NEW r \in Reads(m)
      PROVE  lease[m.p][r] = Ref(m, r)
  <2>1. r \in task[m].round
    BY <1>1 DEF Reads, PDInv, IInv, TaskShape
  <2> QED BY <1>1, <2>1 DEF PDInv, IInv, RoundsPinned, Ref
<1>2. PDInv => NoReadAfterRelease
  BY <1>1 DEF NoReadAfterRelease
<1>3. PDInv => NoReadAfterRelease /\ SendingBalanced /\ FinishedMeansServed
  BY <1>2 DEF PDInv, IInv
<1> QED BY <1>3, PDInductive, PTL

-----------------------------------------------------------------------------
(***************************************************************************)
(* PDTransfer implements TransferLease: every step of the P ranks and the  *)
(* D ranks lends blocks, takes blocks back, begins copies, ends copies, or *)
(* does nothing to the loans.                                              *)
(***************************************************************************)

\* The source blocks as the contract sees them.
Sources == [p \in PRank |-> [r \in Req |-> SourceState(p, r)]]

-----------------------------------------------------------------------------
\* Facts about the two views of a state.

\* Some source blocks of one rank change their state.
LEMMA SourcesMoved ==
  ASSUME NEW p \in PRank, NEW S, NEW s,
         \A q \in PRank, r \in Req :
           SourceState(q, r)' = IF q = p /\ r \in S THEN s ELSE SourceState(q, r)
  PROVE  Sources' = Lending!Moved(Sources, p, S, s)
<1>1. \A q \in PRank :
        Sources'[q] = [r \in Req |-> IF q = p /\ r \in S THEN s ELSE Sources[q][r]]
  BY DEF Sources
<1>2. Sources' = [q \in PRank |-> Sources'[q]] /\ Sources = [q \in PRank |-> Sources[q]]
  BY DEF Sources
<1> DEFINE F == Sources
           G == Sources'
<1>3. /\ F = [q \in PRank |-> F[q]] /\ G = [q \in PRank |-> G[q]]
      /\ \A q \in PRank : G[q] = [r \in Req |-> IF q = p /\ r \in S THEN s ELSE F[q][r]]
      /\ \A q \in PRank : F[q] = [r \in Req |-> F[q][r]]
  BY <1>1, <1>2 DEF Sources
<1> HIDE DEF F, G
<1>4. G = [F EXCEPT ![p] = [r \in Req |-> IF r \in S THEN s ELSE @[r]]]
  <2>1. G[p] = [r \in Req |-> IF r \in S THEN s ELSE F[p][r]]
    BY <1>3
  <2>2. \A q \in PRank : q # p => G[q] = F[q]
    BY <1>3
  <2>3. [F EXCEPT ![p] = [r \in Req |-> IF r \in S THEN s ELSE @[r]]]
          = [q \in PRank |-> IF q = p THEN [r \in Req |-> IF r \in S THEN s ELSE F[p][r]] ELSE F[q]]
    BY <1>3
  <2> QED BY <1>3, <2>1, <2>2, <2>3
<1> QED BY <1>4 DEF Lending!Moved, F, G

\* Nothing happens to the loans in a step that leaves these alone.
LEMMA LoansRest ==
  ASSUME UNCHANGED target, Copying' = Copying,
         \A p \in PRank, r \in Req : SourceState(p, r)' = SourceState(p, r)
  PROVE  UNCHANGED (Lending!leaseVars)
<1>1. Sources' = Sources
  BY DEF Sources
<1> QED BY <1>1 DEF Lending!leaseVars, Sources

\* Blocks whose object is no longer pinned are not being read.
LEMMA SourcesTaken ==
  ASSUME PDInv', NEW p \in PRank, NEW S \in SUBSET Req,
         UNCHANGED <<target, task>>, \A r \in S : lease'[p][r] = NoGen,
         \A q \in PRank, r \in Req :
           SourceState(q, r)' = IF q = p /\ r \in S THEN "closed" ELSE SourceState(q, r)
  PROVE  Lending!TakeSources(p, S)
<1>1. Copying = CopiesOf(task') /\ Copying' = CopiesOf(task') /\ task' \in [Msg -> Task]
  BY DEF PDInv, IInv, SenderTypeOK, Copying, CopiesOf
<1>2. ASSUME NEW c \in Copying, c[2] = p, c[3] \in S
      PROVE  FALSE
  <2>1. PICK m \in Msg : m.p = p /\ c[3] \in task'[m].ok
    BY <1>1, <1>2, CopiesAre
  <2>2. c[3] \in task'[m].round /\ m.p \in PRank /\ c[3] \in Req
    BY <1>2, <2>1 DEF PDInv, IInv, TaskShape, Msg
  <2>3. lease'[p][c[3]] = task'[m].ref[c[3]] /\ task'[m].ref[c[3]] \in 1 .. made'[p][c[3]]
    BY <2>1, <2>2 DEF PDInv, IInv, RoundsPinned, TaskShape
  <2> QED BY <1>2, <2>2, <2>3 DEF PDInv, IInv, SenderTypeOK, NoGen
<1>3. Sources' = Lending!Moved(Sources, p, S, "closed")
  BY SourcesMoved
<1> QED BY <1>1, <1>2, <1>3 DEF Lending!TakeSources, Sources

\* Blocks that D no longer waits for are not being written.
LEMMA TargetsTaken ==
  ASSUME PDInv, NEW d \in DRank, NEW S \in SUBSET Req, Close(d, S),
         UNCHANGED senderVars, \A r \in S : ~Awaited(d, r)
  PROVE  Lending!TakeTargets(d, S)
<1>1. task \in [Msg -> Task] /\ Copying = CopiesOf(task)
  BY DEF PDInv, IInv, SenderTypeOK, Copying, CopiesOf
<1>2. ASSUME NEW c \in Copying, c[1] = d, c[3] \in S
      PROVE  FALSE
  <2>1. PICK m \in Msg : m.d = d /\ c[3] \in task[m].ok
    BY <1>1, <1>2, CopiesAre
  <2>2. c[3] \in task[m].round /\ c[3] \in Req
    BY <1>2, <2>1 DEF PDInv, IInv, TaskShape
  <2> QED BY <1>2, <2>1, <2>2, WorkAwaited
<1>3. Copying' = Copying /\ Sources' = Sources
  BY DEF Copying, Sources, SourceState, senderVars, ownerVars
<1>4. target' = Lending!Moved(target, d, S, "closed")
  BY DEF Close, Lending!Moved
<1> QED BY <1>2, <1>3, <1>4 DEF Lending!TakeTargets, Sources


-----------------------------------------------------------------------------
\* The worker thread of a P rank.

\* One that changes neither the pinning nor the end of any request.
LEMMA OwnerRests ==
  ASSUME UNCHANGED <<target, task, lease>>,
         \A p \in PRank, r \in Req : phase'[p][r] = "over" <=> phase[p][r] = "over"
  PROVE  UNCHANGED (Lending!leaseVars)
<1>1. Copying' = Copying
  BY DEF Copying
<1>2. \A p \in PRank, r \in Req : SourceState(p, r)' = SourceState(p, r)
  BY DEF SourceState
<1> QED BY <1>1, <1>2, LoansRest

\* prepare() lends nothing yet.
LEMMA PrepareRests ==
  ASSUME PDInv, NEW p \in PRank, NEW r \in Req, Prepare(p, r), UNCHANGED target
  PROVE  UNCHANGED (Lending!leaseVars)
<1>1. /\ phase[p][r] = "new" /\ phase' = [phase EXCEPT ![p][r] = "prepared"]
      /\ UNCHANGED <<task, lease>>
  BY DEF Prepare
<1>2. \A q \in PRank, s \in Req : phase'[q][s] = "over" <=> phase[q][s] = "over"
  BY <1>1 DEF PDInv, IInv, SenderTypeOK
<1> QED BY <1>1, <1>2, OwnerRests

\* send() lends the source blocks of one request.
LEMMA SendLends ==
  ASSUME PDInv, NEW p \in PRank, NEW r \in Req, Send(p, r), UNCHANGED target
  PROVE  Lending!LendSources(p, {r})
<1>1. /\ phase[p][r] = "prepared" /\ phase' = [phase EXCEPT ![p][r] = "sent"]
      /\ lease' = [lease EXCEPT ![p][r] = Obtained(p, r)]
      /\ Obtained(p, r) \in Gen /\ UNCHANGED task
  BY DEF Send, SetDefault
<1>2. /\ lease \in [PRank -> [Req -> 0 .. MaxGen]]
      /\ phase \in [PRank -> [Req -> {"new", "prepared", "sent", "over"}]]
  BY DEF PDInv, IInv, SenderTypeOK
<1>3. lease[p][r] = NoGen
  BY <1>1 DEF PDInv, IInv, PinnedSent
<1>4. Obtained(p, r) # NoGen
  BY <1>1 DEF Gen, NoGen
<1>5. SourceState(p, r) = "unused"
  BY <1>1, <1>3 DEF SourceState
<1>6. \A q \in PRank, s \in Req :
        SourceState(q, s)' = IF q = p /\ s \in {r} THEN "open" ELSE SourceState(q, s)
  BY <1>1, <1>2, <1>4 DEF SourceState
<1>7. Sources' = Lending!Moved(Sources, p, {r}, "open")
  BY <1>6, SourcesMoved
<1>8. Copying' = Copying
  BY <1>1 DEF Copying
<1> QED BY <1>5, <1>7, <1>8 DEF Lending!LendSources, Sources

\* Nor does the expiry of the time take anything back: poll() does.
LEMMA LapseRests ==
  ASSUME PDInv, NEW p \in PRank, NEW r \in Req, Lapse(p, r), UNCHANGED target
  PROVE  UNCHANGED (Lending!leaseVars)
BY OwnerRests DEF Lapse, ownerVars

\* Requests that are over, and no longer pinned, are taken back.
LEMMA OverTakes ==
  ASSUME PDInv, PDInv', NEW p \in PRank, NEW S \in SUBSET Req, UNCHANGED <<target, task>>,
         \A q \in PRank, r \in Req :
           /\ phase'[q][r] = IF q = p /\ r \in S THEN "over" ELSE phase[q][r]
           /\ lease'[q][r] = IF q = p /\ r \in S THEN NoGen ELSE lease[q][r]
  PROVE  Lending!TakeSources(p, S)
<1>1. \A r \in S : lease'[p][r] = NoGen
  OBVIOUS
<1>2. \A q \in PRank, r \in Req :
        SourceState(q, r)' = IF q = p /\ r \in S THEN "closed" ELSE SourceState(q, r)
  BY DEF SourceState
<1> QED BY <1>1, <1>2, SourcesTaken

\* ... one of them in particular.
LEMMA HandBackTakes ==
  ASSUME PDInv, PDInv', NEW p \in PRank, NEW r \in Req, UNCHANGED <<target, task>>,
         phase' = [phase EXCEPT ![p][r] = "over"], lease' = [lease EXCEPT ![p][r] = NoGen]
  PROVE  Lending!Next
<1>1. /\ lease \in [PRank -> [Req -> 0 .. MaxGen]]
      /\ phase \in [PRank -> [Req -> {"new", "prepared", "sent", "over"}]]
  BY DEF PDInv, IInv, SenderTypeOK
<1> DEFINE S == {r}
<1>2. /\ S \in SUBSET Req
      /\ \A q \in PRank, s \in Req :
           /\ phase'[q][s] = IF q = p /\ s \in S THEN "over" ELSE phase[q][s]
           /\ lease'[q][s] = IF q = p /\ s \in S THEN NoGen ELSE lease[q][s]
  BY <1>1
<1> HIDE DEF S
<1>3. Lending!TakeSources(p, S)
  BY <1>2, OverTakes
<1> QED BY <1>2, <1>3 DEF Lending!Next

\* _cancel_send takes the request back, at once or when the writes are over.
LEMMA CancelSendTakes ==
  ASSUME PDInv, PDInv', NEW p \in PRank, NEW r \in Req, NEW g, CancelSend(p, r, g),
         UNCHANGED <<target, task>>
  PROVE  [Lending!Next]_(Lending!leaseVars)
<1>1. CASE Quiet(p, r, g)
  BY <1>1, HandBackTakes DEF CancelSend, HandBack
<1>2. CASE ~Quiet(p, r, g)
  BY <1>2, OwnerRests DEF CancelSend
<1> QED BY <1>1, <1>2

\* Every operation of the worker thread is a step of the contract.
LEMMA OwnerLeases ==
  ASSUME PDInv, PDInv', NEW p \in PRank, OwnerStep(p), UNCHANGED target
  PROVE  [Lending!Next]_(Lending!leaseVars)
<1>1. ASSUME NEW r \in Req, Prepare(p, r)
      PROVE  [Lending!Next]_(Lending!leaseVars)
  BY <1>1, PrepareRests
<1>2. ASSUME NEW r \in Req, Send(p, r)
      PROVE  Lending!Next
  <2>1. Lending!LendSources(p, {r}) /\ {r} \in SUBSET Req
    BY <1>2, SendLends
  <2> QED BY <2>1 DEF Lending!Next
<1>3. ASSUME NEW r \in Req, Cancel(p, r)
      PROVE  [Lending!Next]_(Lending!leaseVars)
  <2>1. UNCHANGED <<target, task>>
    BY <1>3 DEF Cancel
  <2>2. CASE slot[p][r] # NoGen
    BY <1>3, <2>1, <2>2, CancelSendTakes DEF Cancel
  <2>3. CASE slot[p][r] = NoGen
    BY <1>3, <2>1, <2>3, HandBackTakes DEF Cancel, HandBack
  <2> QED BY <2>2, <2>3
<1>4. ASSUME NEW r \in Req, Preempt(p, r)
      PROVE  [Lending!Next]_(Lending!leaseVars)
  <2>1. UNCHANGED <<target, task>>
    BY <1>4 DEF Preempt
  <2>2. CASE Published(p, r)
    BY <1>4, <2>1, <2>2, CancelSendTakes DEF Preempt
  <2>3. CASE ~Published(p, r)
    BY <1>4, <2>1, <2>3, HandBackTakes DEF Preempt
  <2> QED BY <2>2, <2>3
<1>5. ASSUME CancelReturn(p)
      PROVE  Lending!Next
  <2>1. PICK o \in fencing[p] : HandBack(p, o[1]) /\ UNCHANGED task
    BY <1>5 DEF CancelReturn
  <2>2. o[1] \in Req /\ UNCHANGED <<target, task>>
    BY <2>1 DEF PDInv, IInv, SenderTypeOK
  <2> QED BY <2>1, <2>2, HandBackTakes DEF HandBack
<1>6. ASSUME PollSend(p)
      PROVE  Lending!Next
  <2> DEFINE S == finishedSending[p] \cup Expired(p)
  <2>1. /\ UNCHANGED <<target, task>>
        /\ phase' = [phase EXCEPT ![p] = [r \in Req |-> IF r \in S THEN "over" ELSE @[r]]]
        /\ lease' = [lease EXCEPT ![p] = [r \in Req |-> IF r \in S THEN NoGen ELSE @[r]]]
    BY <1>6 DEF PollSend
  <2>2. /\ S \in SUBSET Req
        /\ lease \in [PRank -> [Req -> 0 .. MaxGen]]
        /\ phase \in [PRank -> [Req -> {"new", "prepared", "sent", "over"}]]
    BY DEF PDInv, IInv, SenderTypeOK, Expired
  <2> HIDE DEF S
  <2>3. Lending!TakeSources(p, S)
    BY <2>1, <2>2, OverTakes
  <2> QED BY <2>2, <2>3 DEF Lending!Next
<1> QED BY <1>1, <1>2, <1>3, <1>4, <1>5, <1>6 DEF OwnerStep


-----------------------------------------------------------------------------
\* The sender tasks.

\* Two tasks never deal with the same question.
LEMMA OneCopier ==
  ASSUME PDInv, NEW m \in Msg, NEW n \in Msg, m.d = n.d, m.p = n.p, NEW r,
         r \in task[m].pending \cup task[m].round, r \in task[n].pending \cup task[n].round
  PROVE  m = n
<1>1. r \in m.batch /\ r \in n.batch /\ m \in posted /\ n \in posted
  BY DEF PDInv, IInv, TaskShape
<1> QED BY <1>1 DEF PDInv, IInv, AskedOnce, Overlap

\* A task that neither begins nor ends a write.
LEMMA TaskRests ==
  ASSUME PDInv, PDInv', NEW m \in Msg, UNCHANGED <<target, ownerVars>>,
         task[m].stage # "writing", task'[m].stage # "writing",
         \A n \in Msg \ {m} : task'[n] = task[n]
  PROVE  UNCHANGED (Lending!leaseVars)
<1>1. Copying = CopiesOf(task) /\ Copying' = CopiesOf(task')
  BY DEF Copying, CopiesOf
<1>2. task \in [Msg -> Task] /\ task' \in [Msg -> Task]
  BY DEF PDInv, IInv, SenderTypeOK
<1>3. \A c \in Copy : c \in Copying' <=> c \in Copying
  BY <1>1, <1>2, CopiesAre
<1>4. Copying \subseteq Copy /\ Copying' \subseteq Copy
  BY <1>1, <1>2, CopiesAre
<1>5. Copying' = Copying
  BY <1>3, <1>4
<1>6. \A p \in PRank, r \in Req : SourceState(p, r)' = SourceState(p, r)
  BY DEF SourceState, ownerVars
<1> QED BY <1>5, <1>6, LoansRest

\* A TE write begins.
LEMMA WriteBegins ==
  ASSUME PDInv, PDInv', NEW m \in Msg, UNCHANGED <<target, ownerVars>>,
         task[m].stage = "waiting", task'[m].stage = "writing",
         task'[m].ok \subseteq task[m].pending,
         \A n \in Msg \ {m} : task'[n] = task[n]
  PROVE  Lending!Next
<1> DEFINE C == {c \in Copy : c[1] = m.d /\ c[2] = m.p /\ c[3] \in task'[m].ok}
<1>1. Copying = CopiesOf(task) /\ Copying' = CopiesOf(task')
  BY DEF Copying, CopiesOf
<1>2. task \in [Msg -> Task] /\ task' \in [Msg -> Task]
  BY DEF PDInv, IInv, SenderTypeOK
<1>3. Copying \subseteq Copy /\ Copying' \subseteq Copy
  BY <1>1, <1>2, CopiesAre
<1>4. \A c \in Copy : c \in Copying' <=> c \in Copying \/ c \in C
  BY <1>1, <1>2, CopiesAre
<1>5. ASSUME NEW c \in C, c \in Copying
      PROVE  FALSE
  <2>1. PICK n \in Msg : n.d = m.d /\ n.p = m.p /\ task[n].stage = "writing" /\ c[3] \in task[n].ok
    BY <1>1, <1>2, <1>5, CopiesAre
  <2>2. c[3] \in task[n].round
    BY <2>1 DEF PDInv, IInv, TaskShape
  <2> QED BY <1>5, <2>1, <2>2, OneCopier
<1>6. ASSUME NEW c \in C
      PROVE  SourceState(c[2], c[3]) = "open" /\ target[c[1]][c[3]] = "open"
  <2>1. m.p \in PRank /\ c[3] \in Req /\ c[3] \in task'[m].round
    BY DEF PDInv, IInv, TaskShape, Msg, Copy
  <2>2. lease'[m.p][c[3]] = task'[m].ref[c[3]] /\ task'[m].ref[c[3]] \in 1 .. made'[m.p][c[3]]
    BY <2>1 DEF PDInv, IInv, RoundsPinned, TaskShape
  <2>3. lease[m.p][c[3]] # NoGen
    BY <2>1, <2>2 DEF NoGen, ownerVars, PDInv, IInv, SenderTypeOK
  <2>4. target[m.d][c[3]] = "open"
    BY <2>1, WorkAwaited
  <2> QED BY <2>3, <2>4 DEF SourceState
<1>7. C \in SUBSET (DRank \X PRank \X Req)
  BY DEF Copy
<1>8. \A c \in C : c[2] \in PRank /\ c[3] \in Req
  BY DEF Copy
<1>9. Sources' = Sources
  BY DEF Sources, SourceState, ownerVars
<1> HIDE DEF C
<1>10. Copying' = Copying \cup C
  BY <1>3, <1>4, <1>7 DEF Copy
<1>11. Lending!Begin(C)
  BY <1>5, <1>6, <1>8, <1>9, <1>10 DEF Lending!Begin, Sources
<1> QED BY <1>7, <1>11 DEF Lending!Next

\* A TE write ends.
LEMMA WriteEnds ==
  ASSUME PDInv, PDInv', NEW m \in Msg, UNCHANGED <<target, ownerVars>>,
         task[m].stage = "writing", task'[m].stage # "writing",
         \A n \in Msg \ {m} : task'[n] = task[n]
  PROVE  Lending!Next
<1> DEFINE C == {c \in Copy : c[1] = m.d /\ c[2] = m.p /\ c[3] \in task[m].ok}
<1>1. Copying = CopiesOf(task) /\ Copying' = CopiesOf(task')
  BY DEF Copying, CopiesOf
<1>2. task \in [Msg -> Task] /\ task' \in [Msg -> Task]
  BY DEF PDInv, IInv, SenderTypeOK
<1>3. Copying \subseteq Copy /\ Copying' \subseteq Copy
  BY <1>1, <1>2, CopiesAre
<1>4. C \subseteq Copying
  BY <1>1, <1>2, CopiesAre
<1>5. \A c \in Copy : c \in Copying => c \in Copying' \/ c \in C
  BY <1>1, <1>2, CopiesAre
<1>6. Copying' \subseteq Copying
  BY <1>1, <1>2, <1>3, CopiesAre
<1>7. ASSUME NEW c \in C, c \in Copying'
      PROVE  FALSE
  <2>1. PICK n \in Msg : n.d = m.d /\ n.p = m.p /\ task'[n].stage = "writing" /\ c[3] \in task'[n].ok
    BY <1>1, <1>2, <1>7, CopiesAre
  <2>2. n # m /\ c[3] \in task[n].ok /\ c[3] \in task[m].ok
    BY <2>1
  <2>3. c[3] \in task[n].round /\ c[3] \in task[m].round
    BY <2>2 DEF PDInv, IInv, TaskShape
  <2> QED BY <2>1, <2>2, <2>3, OneCopier
<1>8. C \in SUBSET (DRank \X PRank \X Req)
  BY DEF Copy
<1>9. Sources' = Sources
  BY DEF Sources, SourceState, ownerVars
<1> HIDE DEF C
<1>10. Copying' = Copying \ C
  BY <1>3, <1>5, <1>6, <1>7
<1>11. Lending!End(C)
  BY <1>4, <1>9, <1>10 DEF Lending!End, Sources
<1> QED BY <1>8, <1>11 DEF Lending!Next

\* Every step of a sender task is a step of the contract.
LEMMA TaskLeases ==
  ASSUME PDInv, PDInv', NEW m \in Msg, TaskStep(m), UNCHANGED target
  PROVE  [Lending!Next]_(Lending!leaseVars)
<1>1. task \in [Msg -> Task]
  BY DEF PDInv, IInv, SenderTypeOK
<1>2. ASSUME task' = Finish(m), UNCHANGED ownerVars, task[m].stage # "writing"
      PROVE  UNCHANGED (Lending!leaseVars)
  <2>1. task'[m].stage # "writing" /\ \A n \in Msg \ {m} : task'[n] = task[n]
    BY <1>1, <1>2 DEF Finish, NewTask
  <2> QED BY <1>2, <2>1, TaskRests
<1>3. ASSUME Refuse(m) \/ WaitTimeout(m)
      PROVE  UNCHANGED (Lending!leaseVars)
  BY <1>2, <1>3 DEF Refuse, WaitTimeout, Dequeue
<1>4. ASSUME Capture(m)
      PROVE  UNCHANGED (Lending!leaseVars)
  <2>1. task[m].stage = "idle" /\ UNCHANGED ownerVars
    BY <1>4 DEF Capture, Dequeue
  <2>2. task'[m].stage = "waiting" /\ \A n \in Msg \ {m} : task'[n] = task[n]
    BY <1>1, <1>4 DEF Capture, NewTask
  <2> QED BY <2>1, <2>2, TaskRests
<1>5. ASSUME Round(m)
      PROVE  [Lending!Next]_(Lending!leaseVars)
  <2>1. PICK done \in SUBSET Woken(m) : \E bad \in SUBSET done : StartRound(m, done, bad)
    BY <1>5 DEF Round
  <2>2. PICK bad \in SUBSET done : StartRound(m, done, bad)
    BY <2>1
  <2> DEFINE live == {r \in done : Current(m, r)}
             rest == task[m].pending \ done
  <2>3. /\ task[m].stage = "waiting" /\ UNCHANGED ownerVars
        /\ \/ task' = NextRound(m, rest)
           \/ task' = [task EXCEPT ![m] =
                [@ EXCEPT !.stage = "writing", !.pending = rest,
                          !.round = live, !.ok = live \ bad, !.gone = done \ live]]
    BY <2>2 DEF StartRound
  <2>4. done \subseteq task[m].pending /\ live \subseteq done
    BY DEF Woken
  <2> HIDE DEF live, rest
  <2>5. CASE task' = NextRound(m, rest)
    <3>1. /\ task'[m].stage = IF rest = {} THEN "done" ELSE "waiting"
          /\ \A n \in Msg \ {m} : task'[n] = task[n]
      BY <2>5, RoundEnds DEF PDInv
    <3> QED BY <2>3, <3>1, TaskRests
  <2>6. CASE task' = [task EXCEPT ![m] =
                [@ EXCEPT !.stage = "writing", !.pending = rest,
                          !.round = live, !.ok = live \ bad, !.gone = done \ live]]
    <3>1. task'[m].stage = "writing" /\ task'[m].ok = live \ bad
      BY <1>1, <2>6 DEF Task
    <3>2. \A n \in Msg \ {m} : task'[n] = task[n]
      BY <1>1, <2>6
    <3>3. task'[m].ok \subseteq task[m].pending
      BY <2>4, <3>1
    <3> QED BY <2>3, <3>1, <3>2, <3>3, WriteBegins
  <2> QED BY <2>3, <2>5, <2>6
<1>6. ASSUME WriteEnd(m)
      PROVE  Lending!Next
  <2>1. task[m].stage = "writing" /\ UNCHANGED ownerVars
    BY <1>6 DEF WriteEnd, WriteDone, WriteRaise
  <2>2. task'[m].stage # "writing" /\ \A n \in Msg \ {m} : task'[n] = task[n]
    <3>1. CASE task' = NextRound(m, task[m].pending)
      BY <3>1, RoundEnds DEF PDInv
    <3>2. CASE task' = [task EXCEPT ![m] = [NewTask EXCEPT !.stage = "dead"]]
      BY <1>1, <3>2 DEF NewTask
    <3> QED BY <1>6, <3>1, <3>2 DEF WriteEnd, WriteDone, WriteRaise
  <2> QED BY <2>1, <2>2, WriteEnds
<1> QED BY <1>3, <1>4, <1>5, <1>6 DEF TaskStep

-----------------------------------------------------------------------------
\* The D ranks.

\* recv() lends the target blocks of a batch.
LEMMA RecvLends ==
  ASSUME PDInv, NEW d \in DRank, NEW b \in Batch, Recv(d, b), UNCHANGED senderVars
  PROVE  Lending!Next
<1>1. /\ \A r \in b : Accepts(d, r) /\ target[d][r] # "open"
      /\ target' = [target EXCEPT ![d] = [r \in Req |-> IF r \in b THEN "open" ELSE @[r]]]
  BY DEF Recv
<1>2. b \in SUBSET Req
  BY DEF Batch
<1>3. \A r \in b : target[d][r] = "unused"
  <2>1. \A r \in b : target[d][r] # "closed"
    BY <1>1, <1>2 DEF Accepts, PDInv, TargetsKnown
  <2> QED BY <1>1, <1>2, <2>1 DEF PDInv, ReceiverTypeOK
<1>4. Copying' = Copying /\ Sources' = Sources
  BY DEF Copying, Sources, SourceState, senderVars, ownerVars
<1>5. Lending!LendTargets(d, b)
  BY <1>1, <1>3, <1>4 DEF Lending!LendTargets, Lending!Moved, Sources
<1> QED BY <1>2, <1>5 DEF Lending!Next

\* poll() takes back what nobody awaits any more.
LEMMA PollRecvTakes ==
  ASSUME PDInv, NEW d \in DRank, PollRecv(d), UNCHANGED senderVars
  PROVE  Lending!Next
<1>1. Close(d, finished[d])
  BY DEF PollRecv
<1>2. finished[d] \in SUBSET Req
  BY DEF PDInv, ReceiverTypeOK
<1>3. \A r \in finished[d] : ~Awaited(d, r)
  BY <1>2 DEF PDInv, AwaitedOpen
<1>4. Lending!TakeTargets(d, finished[d])
  BY <1>1, <1>2, <1>3, TargetsTaken
<1> QED BY <1>2, <1>4 DEF Lending!Next

\* preempt() takes one request back.
LEMMA FenceReturnTakes ==
  ASSUME PDInv, NEW d \in DRank, FenceReturn(d), UNCHANGED senderVars
  PROVE  Lending!Next
<1>1. PICK r \in fenced[d] : future[d][r] # "pending" /\ ~fatal[d] /\ Close(d, {r})
  BY DEF FenceReturn
<1> DEFINE S == {r}
<1>2. Close(d, S) /\ S \in SUBSET Req
  BY <1>1 DEF PDInv, ReceiverTypeOK
<1>3. \A s \in S : ~Awaited(d, s)
  BY <1>1, <1>2 DEF PDInv, AwaitedOpen
<1> HIDE DEF S
<1>4. Lending!TakeTargets(d, S)
  BY <1>2, <1>3, TargetsTaken
<1> QED BY <1>2, <1>4 DEF Lending!Next

\* Every step of a D rank is a step of the contract.
LEMMA ReceiverLeases ==
  ASSUME PDInv, ReceiverNext, UNCHANGED senderVars
  PROVE  [Lending!Next]_(Lending!leaseVars)
<1>1. ASSUME UNCHANGED target
      PROVE  UNCHANGED (Lending!leaseVars)
  <2>1. Copying' = Copying /\ \A p \in PRank, r \in Req : SourceState(p, r)' = SourceState(p, r)
    BY DEF Copying, SourceState, senderVars, ownerVars
  <2> QED BY <1>1, <2>1, LoansRest
<1>2. ASSUME NEW d \in DRank, WorkerStep(d)
      PROVE  [Lending!Next]_(Lending!leaseVars)
  <2>1. TakeErrors(d) \/ (\E r \in Req : Fence(d, r)) => UNCHANGED target
    BY DEF TakeErrors, Fence
  <2> QED BY <1>1, <1>2, <2>1, RecvLends, PollRecvTakes, FenceReturnTakes DEF WorkerStep
<1>3. ASSUME NEW d \in DRank, NEW b \in Batch, DiscoveryStep(d, b)
      PROVE  UNCHANGED target
  BY <1>3 DEF DiscoveryStep, Discover, Woke, QueryDone
<1>4. ASSUME NEW m \in Msg, PullStep(m)
      PROVE  UNCHANGED target
  BY <1>4 DEF PullStep, Publish, Receive, PeerLost, Lose, ConnectFail
<1> QED BY <1>1, <1>2, <1>3, <1>4 DEF ReceiverNext

-----------------------------------------------------------------------------
(***************************************************************************)
(* The transfer keeps the lending contract: blocks are lent once, copies   *)
(* run between blocks on loan, and neither engine gets its blocks back     *)
(* while a TE write reads or writes them.                                  *)
(***************************************************************************)
THEOREM TransferKeepsLease == PDSpec => ImplementsLease
<1>1. PDInit => Lending!Init
  BY DEF PDInit, SenderInit, ReceiverInit, Lending!Init, SourceState, Copying, NewTask, NoGen
<1>2. ASSUME PDInv, PDInv', [PDNext]_pdVars
      PROVE  [Lending!Next]_(Lending!leaseVars)
  <2>1. CASE SenderNext /\ UNCHANGED receiverVars
    <3>1. UNCHANGED target
      BY <2>1 DEF receiverVars
    <3> QED BY <1>2, <2>1, <3>1, OwnerLeases, LapseRests, TaskLeases DEF SenderNext
  <2>2. CASE ReceiverNext /\ UNCHANGED senderVars
    BY <1>2, <2>2, ReceiverLeases
  <2>3. CASE UNCHANGED pdVars
    <3>1. UNCHANGED <<target, task, ownerVars>>
      BY <2>3 DEF pdVars, senderVars, receiverVars
    <3>2. Copying' = Copying /\ \A p \in PRank, r \in Req : SourceState(p, r)' = SourceState(p, r)
      BY <3>1 DEF Copying, SourceState, ownerVars
    <3> QED BY <3>1, <3>2, LoansRest
  <2> QED BY <1>2, <2>1, <2>2, <2>3 DEF PDNext
<1> QED BY <1>1, <1>2, PDInductive, PTL DEF PDSpec, ImplementsLease, Lending!Spec

-----------------------------------------------------------------------------
(***************************************************************************)
(* The receives, as the worker sees them.  For each of them a step is one  *)
(* of the contract's: the results of an open receive only grow, and what   *)
(* is taken back has a result or is fenced.                                *)
(***************************************************************************)
ViewMoves(d, r) ==
  LET v == ReceiveView(d, r) IN
  \/ ReceiveView(d, r)' = v
  \/ v = "ahead" /\ ReceiveView(d, r)' = "busy" /\ r \notin fenced'[d]
  \/ v = "busy" /\ ReceiveView(d, r)' \in {"ok", "error"}
  \/ v \in {"ok", "error"} /\ ReceiveView(d, r)' = "over"
  \/ r \in fenced[d] /\ ReceiveView(d, r)' = "over"

\* preempt() is called for one request at a time.
OneFence == \A d \in DRank : \A r, s \in fenced[d] : r = s

\* Every receive moves as the contract says.
AllMove ==
  \A d \in DRank, r \in Req :
    /\ ViewMoves(d, r)
    /\ r \in fenced[d] /\ r \notin fenced'[d] => ReceiveView(d, r)' = "over"

LEMMA MovesServe ==
  ASSUME PDInv', AllMove
  PROVE  Service!Next
<1> DEFINE Item  == DRank \X Req
           views == [x \in Item |-> ReceiveView(x[1], x[2])]
           held  == {x \in Item : x[2] \in fenced[x[1]]}
<1>1. \A x \in Item : x[1] \in DRank /\ x[2] \in Req
  OBVIOUS
<1>2. \A d \in DRank, r \in Req :
        ReceiveView(d, r)' \in {"ahead", "busy", "over", "ok", "error"}
  BY DEF ReceiveView
<1>3. Service!TypeOK'
  BY <1>1, <1>2 DEF Service!TypeOK, Service!State, Service!Result
<1>4. \A x \in Item : views[x] = ReceiveView(x[1], x[2]) /\ views'[x] = ReceiveView(x[1], x[2])'
  OBVIOUS
<1>5. \A x \in Item : /\ x \in held <=> x[2] \in fenced[x[1]]
                      /\ x \in held' <=> x[2] \in fenced'[x[1]]
  OBVIOUS
<1>6. ASSUME NEW x \in Item
      PROVE  /\ \/ views'[x] = views[x] \/ Service!Starts(x) \/ Service!Ends(x)
                \/ Service!GivenUp(x) \/ Service!Collected(x) \/ Service!Fenced(x)
             /\ Service!PreemptReturns(x)
  <2>1. /\ ViewMoves(x[1], x[2])
        /\ x[2] \in fenced[x[1]] /\ x[2] \notin fenced'[x[1]] => ReceiveView(x[1], x[2])' = "over"
    BY <1>1 DEF AllMove
  <2>2. Service!PreemptReturns(x)
    <3>1. x \in held \ held' => views'[x] \in {"ahead", "over"}
      BY <1>4, <1>5, <2>1
    <3> QED BY <3>1 DEF Service!PreemptReturns
  <2>3. \/ views'[x] = views[x]
        \/ views[x] = "ahead" /\ views'[x] = "busy" /\ x \notin held'
        \/ views[x] = "busy" /\ views'[x] \in {"ok", "error"}
        \/ views[x] \in {"ok", "error"} /\ views'[x] = "over"
        \/ x \in held /\ views'[x] = "over"
    BY <1>4, <1>5, <2>1 DEF ViewMoves
  <2> QED BY <2>2, <2>3 DEF Service!Starts, Service!Ends, Service!Collected,
                            Service!Fenced, Service!Result
<1> QED BY <1>3, <1>6 DEF Service!Next

\* Results come in, and a fence may go up.
LEMMA ResultsGrow ==
  ASSUME UNCHANGED target,
         \A d \in DRank :
           /\ fenced[d] \subseteq fenced'[d] /\ finished[d] \subseteq finished'[d]
           /\ \A r \in finished[d] : r \in failed'[d] <=> r \in failed[d]
  PROVE  AllMove
<1> SUFFICES ASSUME NEW d \in DRank, NEW r \in Req
             PROVE  /\ ViewMoves(d, r)
                    /\ r \in fenced[d] /\ r \notin fenced'[d] => ReceiveView(d, r)' = "over"
  BY DEF AllMove
<1>1. CASE r \in finished[d]
  BY <1>1 DEF ViewMoves, ReceiveView
<1>2. CASE r \notin finished[d]
  BY <1>2 DEF ViewMoves, ReceiveView
<1> QED BY <1>1, <1>2

\* An answer fails only requests that have no result yet.
LEMMA SettlingMoves ==
  ASSUME PDInv, NEW m \in Msg, NEW status, NEW ok, NEW err, NEW left,
         Settling(m, status, ok, err, left)
  PROVE  AllMove
<1> DEFINE rem  == pull[m].remaining
           bads == IF status = "CONTINUE" THEN err ELSE rem \ ok
<1>1. m.d \in DRank /\ rem \subseteq Req /\ bads \subseteq rem /\ UNCHANGED <<target, fenced>>
  BY DEF Settling, PDInv, Msg, ReceiverTypeOK, Pull
<1>2. failed' = [failed EXCEPT ![m.d] = @ \cup bads]
  BY DEF Settling, Process
<1>3. PICK done : finished' = [finished EXCEPT ![m.d] = @ \cup done]
  BY DEF Settling, Process, FinishReceives
<1>4. \A r \in rem : r \notin finished[m.d]
  BY <1>1 DEF PDInv, AwaitedOpen, Awaited, Owing
<1> HIDE DEF bads
<1>5. \A d \in DRank :
        /\ finished[d] \subseteq finished'[d]
        /\ \A r \in finished[d] : r \in failed'[d] <=> r \in failed[d]
  BY <1>1, <1>2, <1>3, <1>4 DEF PDInv, ReceiverTypeOK
<1> QED BY <1>1, <1>5, ResultsGrow

\* So does every step of a pull task.
LEMMA PullMoves ==
  ASSUME PDInv, NEW m \in Msg, PullStep(m), UNCHANGED senderVars
  PROVE  AllMove
<1>1. CASE Publish(m) \/ PeerLost(m)
  BY <1>1, ResultsGrow DEF Publish, PeerLost, Lose, resultVars
<1>2. CASE Receive(m)
  <2> DEFINE q    == replies[m]
             a    == Head(q)
             left == IF a.status = "CONTINUE" THEN pull[m].remaining \ Said(a) ELSE {}
  <2>1. /\ q \in Seq(Reply) /\ q # <<>> /\ pull[m].stage = "open"
        /\ Fit(m, pull[m].remaining, q, task[m], served)
    BY <1>2 DEF Receive, PDInv, IInv, WireTypeOK, PullShape
  <2>2. Said(a) \subseteq pull[m].remaining /\ \A r \in a.ok : <<m.d, m.p, r>> \in served
    <3> HIDE DEF q
    <3> QED BY <2>1, ReadingFits
  <2>3. Process(m, a.status, a.ok, a.err) /\ UNCHANGED <<discVars, fatal, fenced, target>>
    BY <1>2 DEF Receive
  <2>4. Settling(m, a.status, a.ok, a.err, left)
    <3> HIDE DEF a
    <3> QED BY <2>1, <2>2, <2>3 DEF Settling, Said
  <2> HIDE DEF a, left
  <2> QED BY <2>4, SettlingMoves
<1>3. CASE ConnectFail(m)
  <2>1. Settling(m, "ERROR", {}, {}, {})
    BY <1>3 DEF ConnectFail, Settling
  <2> QED BY <2>1, SettlingMoves
<1> QED BY <1>1, <1>2, <1>3 DEF PullStep

\* A discovery that fails fails requests that are still awaited.
LEMMA DiscoveryMoves ==
  ASSUME PDInv, NEW d \in DRank, NEW b \in Batch, DiscoveryStep(d, b)
  PROVE  AllMove
<1>1. UNCHANGED <<target, fenced>>
  BY DEF DiscoveryStep, Discover, Woke, QueryDone
<1>2. \/ UNCHANGED <<finished, failed>>
      \/ /\ discovery[d][b] # "none"
         /\ failed' = [failed EXCEPT ![d] = @ \cup b]
         /\ finished' = [finished EXCEPT ![d] = @ \cup b]
  BY DEF DiscoveryStep, Discover, Woke, QueryDone, Resume, FinishReceives, resultVars
<1>3. discovery[d][b] # "none" => \A r \in b : r \notin finished[d]
  BY DEF PDInv, AwaitedOpen, Awaited, Batch
<1>4. finished \in [DRank -> SUBSET Req] /\ failed \in [DRank -> SUBSET Req]
  BY DEF PDInv, ReceiverTypeOK
<1>5. \A x \in DRank :
        /\ finished[x] \subseteq finished'[x]
        /\ \A r \in finished[x] : r \in failed'[x] <=> r \in failed[x]
  <2>1. CASE UNCHANGED <<finished, failed>>
    BY <2>1
  <2>2. CASE ~UNCHANGED <<finished, failed>>
    <3>1. /\ \A r \in b : r \notin finished[d]
          /\ failed' = [failed EXCEPT ![d] = @ \cup b]
          /\ finished' = [finished EXCEPT ![d] = @ \cup b]
      BY <1>2, <1>3, <2>2
    <3> QED BY <1>4, <3>1
  <2> QED BY <2>1, <2>2
<1> QED BY <1>1, <1>5, ResultsGrow

\* What the worker takes back is fenced, or it has a result.
LEMMA CollectMoves ==
  ASSUME PDInv, NEW d \in DRank, NEW S \in SUBSET Req, Collects(d, S),
         S \subseteq finished[d] \cup fenced[d], fenced[d] \subseteq S
  PROVE  AllMove
<1> SUFFICES ASSUME NEW x \in DRank, NEW r \in Req
             PROVE  /\ ViewMoves(x, r)
                    /\ r \in fenced[x] /\ r \notin fenced'[x] => ReceiveView(x, r)' = "over"
  BY DEF AllMove
<1>1. ReceiverTypeOK
  BY DEF PDInv
<1>2. /\ target'[x][r] = IF x = d /\ r \in S THEN "closed" ELSE target[x][r]
      /\ r \in finished'[x] <=> r \in finished[x] /\ ~(x = d /\ r \in S)
      /\ r \in failed'[x] <=> r \in failed[x] /\ ~(x = d /\ r \in S)
      /\ x # d => fenced'[x] = fenced[x]
  BY <1>1 DEF ReceiverTypeOK, Collects, Close
<1>3. CASE x = d /\ r \in S
  <2>1. ReceiveView(x, r)' = "over"
    BY <1>2, <1>3 DEF ReceiveView
  <2>2. target[x][r] = "open"
    BY <1>3 DEF PDInv, ResultsOpen
  <2>3. r \in fenced[x] \/ ReceiveView(x, r) \in {"ok", "error"}
    BY <1>3, <2>2 DEF ReceiveView
  <2> QED BY <2>1, <2>3 DEF ViewMoves
<1>4. CASE ~(x = d /\ r \in S)
  <2>1. ReceiveView(x, r)' = ReceiveView(x, r)
    BY <1>2, <1>4 DEF ReceiveView
  <2> QED BY <1>2, <1>4, <2>1 DEF ViewMoves
<1> QED BY <1>3, <1>4

\* A receive is started only once.
LEMMA RecvMoves ==
  ASSUME PDInv, NEW d \in DRank, NEW b \in Batch, Recv(d, b)
  PROVE  AllMove
<1> SUFFICES ASSUME NEW x \in DRank, NEW r \in Req
             PROVE  /\ ViewMoves(x, r)
                    /\ r \in fenced[x] /\ r \notin fenced'[x] => ReceiveView(x, r)' = "over"
  BY DEF AllMove
<1>1. /\ \A s \in b : Accepts(d, s) /\ target[d][s] # "open"
      /\ target' = [target EXCEPT ![d] = [s \in Req |-> IF s \in b THEN "open" ELSE @[s]]]
      /\ UNCHANGED <<finished, failed, fenced>> /\ fenced[d] = {}
  BY DEF Recv, Running
<1>2. target'[x][r] = IF x = d /\ r \in b THEN "open" ELSE target[x][r]
  BY <1>1 DEF PDInv, ReceiverTypeOK
<1>3. CASE x = d /\ r \in b
  <2>1. target[x][r] = "unused"
    <3>1. target[x][r] # "closed"
      BY <1>1, <1>3 DEF Accepts, PDInv, TargetsKnown
    <3> QED BY <1>1, <1>3, <3>1 DEF PDInv, ReceiverTypeOK
  <2>2. r \notin finished[x]
    BY <2>1 DEF PDInv, ResultsOpen
  <2>3. ReceiveView(x, r) = "ahead" /\ ReceiveView(x, r)' = "busy"
    BY <1>1, <1>2, <1>3, <2>1, <2>2 DEF ReceiveView
  <2> QED BY <1>1, <1>3, <2>3 DEF ViewMoves
<1>4. CASE ~(x = d /\ r \in b)
  <2>1. ReceiveView(x, r)' = ReceiveView(x, r)
    BY <1>1, <1>2, <1>4 DEF ReceiveView
  <2> QED BY <1>1, <2>1 DEF ViewMoves
<1> QED BY <1>3, <1>4

\* Every step of a D rank.
LEMMA ReceiverMoves ==
  ASSUME PDInv, OneFence, ReceiverNext, UNCHANGED senderVars
  PROVE  AllMove
<1>1. ASSUME NEW d \in DRank, PollRecv(d)
      PROVE  AllMove
  <2> DEFINE S == finished[d]
  <2>1. ReceiverTypeOK /\ S \in SUBSET Req /\ fenced[d] = {} /\ UNCHANGED fenced
    BY <1>1 DEF PDInv, ReceiverTypeOK, PollRecv, Running
  <2>2. finished' = [finished EXCEPT ![d] = @ \ S] /\ fenced' = [fenced EXCEPT ![d] = {}]
    <3>1. S \ S = {}
      OBVIOUS
    <3> QED BY <1>1, <2>1, <3>1 DEF PollRecv, ReceiverTypeOK
  <2>3. Collects(d, S)
    BY <1>1, <2>2 DEF PollRecv, Collects
  <2> QED BY <2>1, <2>3, CollectMoves
<1>2. ASSUME NEW d \in DRank, FenceReturn(d)
      PROVE  AllMove
  <2>1. PICK r \in fenced[d] :
          /\ fenced' = [fenced EXCEPT ![d] = {}]
          /\ events' = [events EXCEPT ![d] = @ \ {r}]
          /\ retired' = [retired EXCEPT ![d] = @ \cup (events[d] \cap {r})]
          /\ finished' = [finished EXCEPT ![d] = @ \ {r}]
          /\ failed' = [failed EXCEPT ![d] = @ \ {r}]
          /\ Forget(d, {r}) /\ Close(d, {r})
          /\ UNCHANGED <<wireVars, discVars, pull, count, fatal>>
    BY <1>2 DEF FenceReturn
  <2>2. r \in Req /\ r \in events[d]
    BY DEF PDInv, ReceiverTypeOK, ResultsOpen, TargetsKnown
  <2>3. Collects(d, {r})
    <3>1. events[d] \cap {r} = {r}
      BY <2>2
    <3> QED BY <2>1, <3>1 DEF Collects
  <2>4. fenced[d] \subseteq {r}
    BY DEF OneFence
  <2> QED BY <2>2, <2>3, <2>4, CollectMoves
<1>3. ASSUME NEW d \in DRank, TakeErrors(d) \/ (\E r \in Req : Fence(d, r))
      PROVE  AllMove
  <2>1. UNCHANGED <<target, finished, failed>> /\ \A x \in DRank : fenced[x] \subseteq fenced'[x]
    BY <1>3 DEF TakeErrors, Fence, Running, PDInv, ReceiverTypeOK, resultVars
  <2> QED BY <2>1, ResultsGrow
<1> QED BY <1>1, <1>2, <1>3, RecvMoves, DiscoveryMoves, PullMoves
        DEF ReceiverNext, WorkerStep

(***************************************************************************)
(* The transfer serves the worker as the worker's model assumes: a request *)
(* is received at most once, the receive has one result, which stays until *)
(* it is collected, and when preempt() returns nothing is left of it.      *)
(***************************************************************************)
THEOREM TransferKeepsContracts == PDSpec => KeepsContracts
<1>1. PDInit => OneFence /\ Service!Init
  <2>1. PDInit => OneFence
    BY DEF PDInit, ReceiverInit, OneFence
  <2> SUFFICES ASSUME PDInit
               PROVE  Service!Init
    BY <2>1
  <2>2. \A x \in DRank \X Req : x[1] \in DRank /\ x[2] \in Req
    OBVIOUS
  <2>3. \A x \in DRank \X Req : ReceiveView(x[1], x[2]) = "ahead" /\ x[2] \notin fenced[x[1]]
    BY <2>2 DEF PDInit, ReceiverInit, ReceiveView
  <2> QED BY <2>3 DEF Service!Init
<1>2. ASSUME PDInv, OneFence, [PDNext]_pdVars
      PROVE  OneFence'
  <2>1. CASE UNCHANGED fenced
    BY <1>2, <2>1 DEF OneFence
  <2>2. ASSUME NEW d \in DRank, \/ fenced' = [fenced EXCEPT ![d] = {}]
                                 \/ \E r \in Req : fenced' = [fenced EXCEPT ![d] = {r}]
        PROVE  OneFence'
    <3> SUFFICES ASSUME NEW x \in DRank, NEW r \in fenced'[x], NEW s \in fenced'[x]
                 PROVE  r = s
      BY DEF OneFence
    <3>1. fenced \in [DRank -> SUBSET Req]
      BY <1>2 DEF PDInv, ReceiverTypeOK
    <3>2. fenced'[x] = fenced[x] \/ fenced'[x] = {} \/ \E q \in Req : fenced'[x] = {q}
      BY <2>2, <3>1
    <3>3. CASE fenced'[x] = fenced[x]
      <4>1. r \in fenced[x] /\ s \in fenced[x]
        BY <3>3
      <4> QED BY <1>2, <4>1 DEF OneFence
    <3> QED BY <3>2, <3>3
  <2>3. \/ UNCHANGED fenced
        \/ \E d \in DRank : \/ fenced' = [fenced EXCEPT ![d] = {}]
                             \/ \E r \in Req : fenced' = [fenced EXCEPT ![d] = {r}]
    <3>1. SenderNext /\ UNCHANGED receiverVars => UNCHANGED fenced
      BY DEF receiverVars
    <3>2. ASSUME NEW d \in DRank, WorkerStep(d)
          PROVE  \/ UNCHANGED fenced \/ fenced' = [fenced EXCEPT ![d] = {}]
                 \/ \E r \in Req : fenced' = [fenced EXCEPT ![d] = {r}]
      BY <3>2 DEF WorkerStep, PollRecv, TakeErrors, FenceReturn, Fence, Recv
    <3>3. ASSUME NEW d \in DRank, NEW b \in Batch, DiscoveryStep(d, b)
          PROVE  UNCHANGED fenced
      BY <3>3 DEF DiscoveryStep, Discover, Woke, QueryDone
    <3>4. ASSUME NEW m \in Msg, PullStep(m)
          PROVE  UNCHANGED fenced
      BY <3>4 DEF PullStep, Publish, Receive, PeerLost, Lose, ConnectFail
    <3>5. UNCHANGED pdVars => UNCHANGED fenced
      BY DEF pdVars, receiverVars
    <3> QED BY <1>2, <3>1, <3>2, <3>3, <3>4, <3>5 DEF PDNext, ReceiverNext
  <2> QED BY <2>1, <2>2, <2>3
<1>3. ASSUME PDInv, PDInv', OneFence, [PDNext]_pdVars
      PROVE  [Service!Next]_(Service!serviceVars)
  <2>1. CASE (SenderNext /\ UNCHANGED receiverVars) \/ UNCHANGED pdVars
    <3>1. UNCHANGED <<target, finished, failed, fenced>>
      BY <2>1 DEF receiverVars, resultVars, pdVars
    <3>2. AllMove
      BY <3>1, ResultsGrow
    <3> QED BY <1>3, <3>2, MovesServe
  <2>2. CASE ReceiverNext /\ UNCHANGED senderVars
    BY <1>3, <2>2, ReceiverMoves, MovesServe
  <2> QED BY <1>3, <2>1, <2>2 DEF PDNext
<1> QED BY <1>1, <1>2, <1>3, PDInductive, TransferKeepsLease, PTL
        DEF PDSpec, KeepsContracts, Service!Spec

=============================================================================
