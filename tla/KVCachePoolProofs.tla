------------------------- MODULE KVCachePoolProofs -------------------------
(***************************************************************************)
(* Proofs about KVCachePool, for any set of requests, any ranges and       *)
(* prompts, any block sizes and any number of load threads: the pool keeps *)
(* the lending contract of StoreLease, merged saves are exact, a PUT reads *)
(* only what the device has completed, and results are what they say.      *)
(***************************************************************************)
EXTENDS KVCachePool, PoolRangesProofs

-----------------------------------------------------------------------------
(* The orders of a set. *)

\* An order of a set holds each of its members once.
LEMMA SetToSeqsProperties ==
  ASSUME NEW S, IsFiniteSet(S), NEW q \in SetToSeqs(S)
  PROVE  /\ q \in Seq(S)
         /\ \A i, j \in 1 .. Len(q) : i # j => q[i] # q[j]
<1>1. Cardinality(S) \in Nat
  BY FS_CardinalityType
<1>2. q \in [1 .. Cardinality(S) -> S]
  BY DEF SetToSeqs
<1>3. q \in Seq(S) /\ Len(q) = Cardinality(S)
  BY <1>1, <1>2, IsASeq
<1> QED BY <1>3 DEF SetToSeqs

-----------------------------------------------------------------------------
(* The lanes of the executors hold a request at most once. *)

Distinct(lane) == \A i, j \in 1 .. Len(lane) : i # j => lane[i] # lane[j]

\* A sequence is one over any set that has its members.
LEMMA SeqWithin ==
  ASSUME NEW S, NEW T, NEW lane \in Seq(S), \A i \in 1 .. Len(lane) : lane[i] \in T
  PROVE  lane \in Seq(T)
<1>1. Len(lane) \in Nat
  BY LenProperties
<1>2. SubSeq(lane, 1, Len(lane)) = lane
  BY SubSeqFull
<1>3. SubSeq(lane, 1, Len(lane)) \in Seq(T)
  BY <1>1, SubSeqProperties
<1> QED BY <1>2, <1>3

\* A cancelled job leaves its lane.
LEMMA NotInLane ==
  ASSUME NEW S, NEW lane \in Seq(S), Distinct(lane), NEW r
  PROVE  NotIn(lane, r) \in Seq(S \ {r}) /\ Distinct(NotIn(lane, r))
<1>1. Len(lane) \in Nat /\ DOMAIN lane = 1 .. Len(lane) /\ lane \in [1 .. Len(lane) -> S]
  BY LenProperties
<1>2. CASE r \in Range(lane)
  <2> DEFINE n == Len(lane)
             at == CHOOSE i \in DOMAIN lane : lane[i] = r
             low == SubSeq(lane, 1, at - 1)
             high == SubSeq(lane, at + 1, n)
  <2>1. at \in 1 .. n /\ lane[at] = r /\ n \in Nat
    BY <1>1, <1>2 DEF Range
  <2>2. NotIn(lane, r) = low \o high
    BY <1>2 DEF NotIn, RemoveAt
  <2> HIDE DEF at
  <2>3. \A i \in 1 .. n : i # at => lane[i] \in S \ {r}
    BY <1>1, <2>1 DEF Distinct
  <2>4. /\ low \in Seq(S \ {r}) /\ Len(low) = at - 1
        /\ \A i \in 1 .. at - 1 : low[i] = lane[i]
    <3>1. \A i \in 1 .. at - 1 : lane[i] \in S \ {r}
      BY <2>1, <2>3
    <3> QED BY <2>1, <3>1, SubSeqProperties
  <2>5. /\ high \in Seq(S \ {r}) /\ Len(high) = n - at
        /\ \A i \in 1 .. n - at : high[i] = lane[at + i]
    <3>1. \A i \in at + 1 .. n : lane[i] \in S \ {r}
      BY <2>1, <2>3
    <3> QED BY <2>1, <3>1, SubSeqProperties
  <2> HIDE DEF low, high, n
  <2>6. /\ low \o high \in Seq(S \ {r}) /\ Len(low \o high) = n - 1
        /\ \A i \in 1 .. n - 1 :
             (low \o high)[i] = IF i <= at - 1 THEN low[i] ELSE high[i - (at - 1)]
    <3>1. /\ low \o high \in Seq(S \ {r}) /\ Len(low \o high) = Len(low) + Len(high)
          /\ \A i \in 1 .. Len(low) + Len(high) : (low \o high)[i] =
               IF i <= Len(low) THEN low[i] ELSE high[i - Len(low)]
      BY <2>4, <2>5, ConcatProperties
    <3>2. Len(low) + Len(high) = n - 1
      BY <2>1, <2>4, <2>5
    <3> QED BY <2>4, <3>1, <3>2
  <2> DEFINE from(i) == IF i < at THEN i ELSE i + 1
  <2>7. ASSUME NEW i \in 1 .. n - 1
        PROVE  from(i) \in 1 .. n /\ (low \o high)[i] = lane[from(i)]
    BY <2>1, <2>4, <2>5, <2>6
  <2>8. Distinct(low \o high)
    <3> SUFFICES ASSUME NEW i \in 1 .. n - 1, NEW j \in 1 .. n - 1, i # j
                 PROVE  (low \o high)[i] # (low \o high)[j]
      BY <2>6 DEF Distinct
    <3>1. from(i) # from(j)
      BY <2>1
    <3>2. lane[from(i)] # lane[from(j)]
      <4>1. from(i) \in 1 .. Len(lane) /\ from(j) \in 1 .. Len(lane)
        BY <2>7 DEF n
      <4> HIDE DEF from
      <4> QED BY <3>1, <4>1 DEF Distinct
    <3> HIDE DEF from
    <3> QED BY <2>7, <3>2
  <2> QED BY <2>2, <2>6, <2>8
<1>3. CASE r \notin Range(lane)
  <2>1. \A i \in 1 .. Len(lane) : lane[i] \in S \ {r}
    BY <1>1, <1>3 DEF Range
  <2>2. lane \in Seq(S \ {r})
    BY <2>1, SeqWithin
  <2> QED BY <1>3, <2>2 DEF NotIn
<1> QED BY <1>2, <1>3

\* The first job leaves its lane for a thread.
LEMMA TailLane ==
  ASSUME NEW S, NEW lane \in Seq(S), lane # << >>, Distinct(lane)
  PROVE  Head(lane) \in S /\ Tail(lane) \in Seq(S \ {Head(lane)}) /\ Distinct(Tail(lane))
<1>1. /\ Head(lane) \in S /\ Head(lane) = lane[1] /\ Len(lane) \in Nat \ {0}
      /\ Tail(lane) \in Seq(S) /\ Len(Tail(lane)) = Len(lane) - 1
      /\ \A i \in 1 .. Len(lane) - 1 : Tail(lane)[i] = lane[i + 1]
      /\ \A i \in 1 .. Len(lane) : lane[i] \in S
  BY HeadTailProperties, EmptySeq, LenProperties, ElementOfSeq
<1>2. \A i \in 1 .. Len(Tail(lane)) : Tail(lane)[i] \in S \ {Head(lane)}
  BY <1>1 DEF Distinct
<1>3. Tail(lane) \in Seq(S \ {Head(lane)})
  BY <1>1, <1>2, SeqWithin
<1>4. Distinct(Tail(lane))
  BY <1>1 DEF Distinct
<1> QED BY <1>1, <1>3, <1>4

\* New jobs queue up behind the old ones.
LEMMA ConcatLane ==
  ASSUME NEW S, NEW T, S \cap T = {}, NEW lane \in Seq(S), Distinct(lane),
         NEW more \in Seq(T), Distinct(more)
  PROVE  lane \o more \in Seq(S \cup T) /\ Distinct(lane \o more)
<1>1. lane \in Seq(S \cup T) /\ more \in Seq(S \cup T)
  OBVIOUS
<1>2. /\ lane \o more \in Seq(S \cup T) /\ Len(lane \o more) = Len(lane) + Len(more)
      /\ \A i \in 1 .. Len(lane) + Len(more) :
           (lane \o more)[i] = IF i <= Len(lane) THEN lane[i] ELSE more[i - Len(lane)]
      /\ Len(lane) \in Nat /\ Len(more) \in Nat
      /\ \A i \in 1 .. Len(lane) : lane[i] \in S /\ \A j \in 1 .. Len(more) : more[j] \in T
  BY <1>1, ConcatProperties, LenProperties, ElementOfSeq
<1>3. Distinct(lane \o more)
  BY <1>2 DEF Distinct
<1> QED BY <1>2, <1>3

LEMMA AppendLane ==
  ASSUME NEW S, NEW lane \in Seq(S), Distinct(lane), NEW r, r \notin S
  PROVE  Append(lane, r) \in Seq(S \cup {r}) /\ Distinct(Append(lane, r))
<1>1. lane \in Seq(S \cup {r})
  OBVIOUS
<1>2. /\ Append(lane, r) \in Seq(S \cup {r}) /\ Len(Append(lane, r)) = Len(lane) + 1
      /\ \A i \in 1 .. Len(lane) + 1 :
           Append(lane, r)[i] = IF i <= Len(lane) THEN lane[i] ELSE r
      /\ Len(lane) \in Nat /\ \A i \in 1 .. Len(lane) : lane[i] \in S
  BY <1>1, AppendProperties, LenProperties, ElementOfSeq
<1>3. Distinct(Append(lane, r))
  BY <1>2 DEF Distinct
<1> QED BY <1>2, <1>3

-----------------------------------------------------------------------------
(* What a save event means. *)

\* Rounding down leaves a multiple alone.
LEMMA FloorOfMultiple ==
  ASSUME NEW n \in Nat, NEW m \in Nat \ {0}, n % m = 0
  PROVE  (n \div m) * m = n
<1>1. n = m * (n \div m) + (n % m)
  OBVIOUS
<1>2. n \div m \in Int
  OBVIOUS
<1> QED BY <1>1, <1>2

\* A save ends at a multiple of Lcm, so it selects the chunks of its range.
LEMMA ChunksOfSave ==
  ASSUME NEW e, e.to \in Span
  PROVE  Chunks(e) = RangeBlocks(e.from, e.to)
<1>1. e.to \in Nat /\ Lcm \in Nat \ {0} /\ e.to % Lcm = 0
  BY PoolAssumption DEF Span
<1>2. (e.to \div Lcm) * Lcm = e.to
  BY <1>1, FloorOfMultiple
<1> QED BY <1>2 DEF Chunks

\* The event reads the blocks of the saves it stands for, on their prompt, and
\* waits for all of them.
Sound(e) ==
  /\ Chunks(e) = UNION {Chunks(p) : p \in e.parts}
  /\ \A p \in e.parts : p.line = e.line /\ p.sig \in e.sigs

SoundEvent == {e \in Event : Sound(e)}
SoundSave  == [running : BOOLEAN, pending : Seq(SoundEvent), failed : BOOLEAN]
SoundPut   == [state : {"none", "queued", "checking", "reading", "ok", "failed"},
               event : SoundEvent]

LEMMA NoPutSound == NoPut \in SoundPut /\ NoPut.state = "none"
<1>1. NoEvent \in Event /\ NoEvent.to \in Span
  <2>1. 0 \in Span /\ 0 \in 0 .. MaxToken
    BY PoolAssumption DEF Span
  <2> QED BY <2>1, PoolAssumption DEF NoEvent, Event
<1>2. Chunks(NoEvent) = {}
  <2>1. \A g \in Group : cdiv(0, BlockSizes[g]) .. cdiv(0, BlockSizes[g]) - 1 = {}
    <3> SUFFICES ASSUME NEW g \in Group
                 PROVE  cdiv(0, BlockSizes[g]) .. cdiv(0, BlockSizes[g]) - 1 = {}
      OBVIOUS
    <3>1. BlockSizes[g] \in Nat \ {0}
      BY BlockSizesAssumption, ElementOfSeq, LenProperties DEF Group
    <3>2. cdiv(0, BlockSizes[g]) \in Int
      BY <3>1, cdivMonotonic
    <3> QED BY <3>2
  <2>2. Chunks(NoEvent) = RangeBlocks(0, 0)
    BY <1>1, ChunksOfSave DEF NoEvent
  <2> QED BY <2>1, <2>2 DEF RangeBlocks
<1>3. Sound(NoEvent)
  BY <1>2 DEF Sound, NoEvent
<1> QED BY <1>1, <1>3 DEF NoPut, SoundPut, SoundEvent

\* The event of one call of save.
LEMMA NewEventSound ==
  ASSUME NEW range \in SaveRange, NEW line \in Line, NEW sig \in Signal
  PROVE  LET part == [from |-> range.from, to |-> range.to, line |-> line, sig |-> sig]
         IN  [from |-> range.from, to |-> range.to, line |-> line,
              sigs |-> {sig}, parts |-> {part}] \in SoundEvent
<1> DEFINE part == [from |-> range.from, to |-> range.to, line |-> line, sig |-> sig]
           e    == [from |-> range.from, to |-> range.to, line |-> line,
                    sigs |-> {sig}, parts |-> {part}]
<1>1. part \in Part /\ e \in Event
  BY DEF Part, Event, SaveRange, TokenRange
<1>2. Chunks(e) = Chunks(part)
  BY DEF Chunks
<1>3. Sound(e)
  <2>1. e.parts = {part} /\ part.line = e.line /\ part.sig \in e.sigs
    OBVIOUS
  <2> HIDE DEF e, part
  <2> QED BY <1>2, <2>1 DEF Sound
<1> QED BY <1>1, <1>3 DEF SoundEvent

\* Merging two events loses and invents no block.
LEMMA MergedSound ==
  ASSUME NEW old \in SoundEvent, NEW new \in SoundEvent, CanMerge(old, new)
  PROVE  Merged(old, new) \in SoundEvent
<1> DEFINE m == Merged(old, new)
<1>1. /\ old \in Event /\ new \in Event /\ Sound(old) /\ Sound(new)
      /\ old.from \in Nat /\ old.to \in Nat /\ new.from \in Nat /\ new.to \in Nat
      /\ old.from <= MaxToken /\ new.from <= MaxToken /\ old.to \in Span /\ new.to \in Span
      /\ old.parts \subseteq Part /\ new.parts \subseteq Part
      /\ old.sigs \subseteq Signal /\ new.sigs \subseteq Signal
  BY PoolAssumption DEF SoundEvent, Event, Span
<1>2. new.from <= old.to /\ old.to <= new.to /\ old.line = new.line
  BY <1>1 DEF CanMerge, Joined
<1>3. Min({old.from, new.from}) \in 0 .. MaxToken
  BY <1>1, MinOfTwo, PoolAssumption
<1>4. /\ m \in Event /\ m.from = Min({old.from, new.from}) /\ m.to = new.to
      /\ m.line = new.line /\ m.sigs = old.sigs \cup new.sigs
      /\ m.parts = old.parts \cup new.parts
  <2> DEFINE low == Min({old.from, new.from})
             sigs == old.sigs \cup new.sigs
             parts == old.parts \cup new.parts
  <2>1. low \in 0 .. MaxToken /\ sigs \subseteq Signal /\ parts \subseteq Part
    BY <1>1, <1>3
  <2>2. m = [new EXCEPT !.from = low, !.sigs = sigs, !.parts = parts]
    BY DEF Merged
  <2> HIDE DEF low, sigs, parts, m
  <2>3. /\ m \in Event /\ m.from = low /\ m.to = new.to
        /\ m.line = new.line /\ m.sigs = sigs /\ m.parts = parts
    BY <1>1, <2>1, <2>2 DEF Event
  <2> QED BY <2>3 DEF low, sigs, parts
<1> HIDE DEF m
<1>5. Chunks(m) = Chunks(old) \cup Chunks(new)
  <2> DEFINE a == old.from  b == old.to  c == new.from  d == new.to
  <2>1. a \in Int /\ b \in Int /\ c \in Int /\ d \in Int /\ c <= b /\ b <= d
    BY <1>1, <1>2
  <2>2. m.from \in {a, c} /\ m.from <= a /\ m.from <= c
    <3>1. m.from = Min({a, c})
      BY <1>4
    <3> HIDE DEF a, b, c, d
    <3>2. Min({a, c}) = IF a <= c THEN a ELSE c
      BY <2>1, MinOfTwo
    <3> QED BY <2>1, <3>1, <3>2
  <2> HIDE DEF a, b, c, d
  <2> DEFINE low == m.from
  <2>3. low \in {a, c} /\ low <= a /\ low <= c
    BY <2>2
  <2> HIDE DEF low
  <2>4. RangeBlocks(low, d) = RangeBlocks(a, b) \cup RangeBlocks(c, d)
    BY ONLY <2>1, <2>3, RangesJoin
  <2>5. /\ Chunks(old) = RangeBlocks(a, b) /\ Chunks(new) = RangeBlocks(c, d)
        /\ Chunks(m) = RangeBlocks(low, d)
    BY <1>1, <1>4, ChunksOfSave DEF a, b, c, d, low
  <2> QED BY <2>4, <2>5
<1>6. (UNION {Chunks(p) : p \in m.parts}) =
        (UNION {Chunks(p) : p \in old.parts}) \cup (UNION {Chunks(p) : p \in new.parts})
  BY <1>4
<1>7. \A p \in m.parts : p.line = m.line /\ p.sig \in m.sigs
  BY <1>1, <1>2, <1>4 DEF Sound
<1>8. Sound(m)
  BY <1>1, <1>5, <1>6, <1>7 DEF Sound
<1> QED BY <1>4, <1>8 DEF SoundEvent, m

\* A new event joins the last pending one or queues up behind it.
LEMMA WithPendingSound ==
  ASSUME NEW pending \in Seq(SoundEvent), NEW e \in SoundEvent
  PROVE  WithPending(pending, e) \in Seq(SoundEvent) /\ WithPending(pending, e) # << >>
<1>1. CASE pending # << >> /\ CanMerge(Last(pending), e)
  <2> DEFINE n == Len(pending)
  <2>1. n \in Nat \ {0} /\ Last(pending) \in SoundEvent
    BY <1>1, EmptySeq, ElementOfSeq DEF Last
  <2>2. \A i \in 1 .. n - 1 : pending[i] \in SoundEvent
    BY <2>1, ElementOfSeq
  <2>3. Front(pending) \in Seq(SoundEvent)
    BY <2>1, <2>2, SubSeqProperties DEF Front
  <2>4. Merged(Last(pending), e) \in SoundEvent
    BY <1>1, <2>1, MergedSound
  <2> DEFINE one == <<Merged(Last(pending), e)>>
  <2>5. one \in Seq(SoundEvent) /\ Len(one) = 1
    BY <2>4
  <2>6. WithPending(pending, e) = Front(pending) \o one
    BY <1>1 DEF WithPending
  <2> HIDE DEF one
  <2>7. /\ Front(pending) \o one \in Seq(SoundEvent)
        /\ Len(Front(pending) \o one) = Len(Front(pending)) + Len(one)
        /\ Len(Front(pending)) \in Nat
    BY <2>3, <2>5, ConcatProperties, LenProperties
  <2>8. Len(Front(pending) \o one) # 0
    BY <2>5, <2>7
  <2> QED BY <2>6, <2>7, <2>8, EmptySeq
<1>2. CASE ~(pending # << >> /\ CanMerge(Last(pending), e))
  BY <1>2, AppendProperties DEF WithPending
<1> QED BY <1>1, <1>2

-----------------------------------------------------------------------------
(***************************************************************************)
(* The inductive invariant.  A submitted PUT belongs to a request whose    *)
(* saves are marked as running, or that preempt() waits for; a submitted   *)
(* GET to one that is in _loads, or that preempt() waits for.  The lanes   *)
(* hold the queued jobs.  The pool closes in the order of close().         *)
(***************************************************************************)
QueuedPuts == {r \in Req : put[r].state = "queued"}
QueuedGets == {r \in Req : get[r].state = "queued"}
Reading    == {r \in Req : put[r].state = "reading"}

SavesTyped == /\ DOMAIN saves \subseteq Req /\ \A r \in DOMAIN saves : saves[r] \in SoundSave
              /\ put \in [Req -> SoundPut]
LoadsTyped == /\ DOMAIN loads \subseteq Req /\ \A r \in DOMAIN loads : loads[r] \in BOOLEAN
              /\ get \in [Req -> GetJob]
              /\ DOMAIN invalid \subseteq Req /\ \A r \in DOMAIN invalid : invalid[r] \subseteq Blocks
              /\ written \in [Req -> SUBSET Blocks]
LockKind   == {Free, <<"reset">>} \cup {Waits(op, r) : op \in {"put", "get"}, r \in Req}
RestTyped  == /\ lock \in LockKind
              /\ life \in {"open", "closing", "puts", "closed"}
              /\ fired \subseteq Signal /\ numSaves \in 0 .. MaxSaves /\ numLoads \in 0 .. MaxLoads
              /\ owed \in [Req -> SUBSET Blocks]

PutHeld(f)  == \A r \in Req : put[r].state # "none" => r \in DOMAIN f /\ f[r].running
PutsHeld    == \A r \in Req : put[r].state # "none" =>
                 lock = Waits("put", r) \/ (r \in DOMAIN saves /\ saves[r].running)
GetsHeld    == \A r \in Req : get[r].state # "none" =>
                 lock = Waits("get", r) \/ r \in DOMAIN loads
PutLaneInv  == putLane \in Seq(QueuedPuts) /\ Distinct(putLane)
GetLaneInv  == getLane \in Seq(QueuedGets) /\ Distinct(getLane)
Cancelled   == \A r \in Req : /\ lock = Waits("put", r) => put[r].state # "queued"
                              /\ lock = Waits("get", r) => get[r].state # "queued"
Dropped(f)  == \A r \in DOMAIN f : f[r].pending = << >>
Closing     == /\ life # "open" => lock \in {Free, <<"reset">>} /\ getLane = << >> /\ Dropped(saves)
               /\ life \in {"puts", "closed"} => putLane = << >> /\ Writing = {}
ReadsReady  == \A r \in Reading : put[r].event.sigs \subseteq fired

SavesInv == SavesTyped /\ PutsHeld /\ PutLaneInv
LoadsInv == LoadsTyped /\ GetsHeld /\ GetLaneInv
PoolInv  == SavesInv /\ LoadsInv /\ RestTyped /\ Cancelled /\ Closing /\ ReadsReady

\* The values of lock are distinct.
LEMMA Locks ==
  ASSUME NEW r, NEW x
  PROVE  /\ Waits("put", r) # Waits("get", x)
         /\ Waits("put", r) = Waits("put", x) => r = x
         /\ Waits("get", r) = Waits("get", x) => r = x
         /\ Waits("put", r) \notin {Free, <<"reset">>}
         /\ Waits("get", r) \notin {Free, <<"reset">>}
         /\ Free # <<"reset">>
BY DEF Waits, Free

\* The invariant has the type invariant.
LEMMA PoolInvTypes == PoolInv => PoolTypeOK
<1> SUFFICES ASSUME PoolInv PROVE PoolTypeOK
  OBVIOUS
<1> USE DEF PoolInv, SavesInv, LoadsInv
<1>1. SoundEvent \subseteq Event
  BY DEF SoundEvent
<1>2. \A r \in DOMAIN saves : saves[r] \in SaveState
  <2> SUFFICES ASSUME NEW r \in DOMAIN saves PROVE saves[r] \in SaveState
    OBVIOUS
  <2>1. saves[r] \in SoundSave
    BY DEF SavesTyped
  <2>2. saves[r].pending \in Seq(Event)
    BY <1>1, <2>1, SeqMonotonic DEF SoundSave
  <2> QED BY <2>1, <2>2 DEF SoundSave, SaveState
<1>3. put \in [Req -> PutJob]
  <2>1. SoundPut \subseteq PutJob
    BY <1>1 DEF SoundPut, PutJob
  <2> QED BY <2>1 DEF SavesTyped
<1>4. putLane \in Seq(Req) /\ getLane \in Seq(Req)
  <2>1. QueuedPuts \subseteq Req /\ QueuedGets \subseteq Req
    BY DEF QueuedPuts, QueuedGets
  <2> QED BY <2>1, SeqMonotonic DEF PutLaneInv, GetLaneInv
<1> QED BY <1>2, <1>3, <1>4 DEF PoolTypeOK, SavesTyped, LoadsTyped, RestTyped, LockKind

-----------------------------------------------------------------------------
(* _advance_save. *)

\* Its first half takes the result of a PUT that has ended.
LEMMA SettledSound ==
  ASSUME NEW r \in Req, NEW s \in SoundSave, put \in [Req -> SoundPut]
  PROVE  /\ Settled(r, s) \in SoundSave
         /\ Settled(r, s).pending = s.pending
         /\ Settled(r, s).running <=> (s.running /\ ~Ended(r))
<1>1. s.running \in BOOLEAN /\ s.failed \in BOOLEAN /\ s.pending \in Seq(SoundEvent)
  BY DEF SoundSave
<1>2. CASE s.running /\ Ended(r)
  <2> DEFINE bad == s.failed \/ put[r].state = "failed"
  <2>1. Settled(r, s) = [s EXCEPT !.running = FALSE, !.failed = bad]
    BY <1>2 DEF Settled
  <2>2. bad \in BOOLEAN
    OBVIOUS
  <2> HIDE DEF bad
  <2>3. Settled(r, s) = [running |-> FALSE, pending |-> s.pending, failed |-> bad]
    BY <2>1 DEF SoundSave
  <2>4. Settled(r, s) \in SoundSave
    BY <1>1, <2>2, <2>3 DEF SoundSave
  <2>5. Settled(r, s).pending = s.pending /\ ~Settled(r, s).running
    BY <2>3
  <2> QED BY <1>2, <2>4, <2>5
<1>3. CASE ~(s.running /\ Ended(r))
  BY <1>1, <1>3 DEF Settled
<1> QED BY <1>2, <1>3

\* Its second half submits the next pending event.
LEMMA AdvancedSound ==
  ASSUME NEW s \in SoundSave
  PROVE  /\ Advanced(s) \in SoundSave
         /\ Advanced(s).running <=> (s.running \/ Submits(s))
         /\ s.pending = << >> => Advanced(s) = s /\ ~Submits(s)
         /\ Submits(s) => Head(s.pending) \in SoundEvent
<1>1. s.running \in BOOLEAN /\ s.failed \in BOOLEAN /\ s.pending \in Seq(SoundEvent)
  BY DEF SoundSave
<1>2. CASE Submits(s)
  <2>1. s.pending # << >> /\ ~s.running
    BY <1>2 DEF Submits
  <2>2. Tail(s.pending) \in Seq(SoundEvent) /\ Head(s.pending) \in SoundEvent
    BY <1>1, <2>1, HeadTailProperties
  <2> DEFINE rest == Tail(s.pending)
  <2>3. Advanced(s) = [s EXCEPT !.running = TRUE, !.pending = rest]
    BY <1>2 DEF Advanced
  <2> HIDE DEF rest
  <2>4. Advanced(s) = [running |-> TRUE, pending |-> rest, failed |-> s.failed]
    BY <2>3 DEF SoundSave
  <2>5. Advanced(s) \in SoundSave
    BY <1>1, <2>2, <2>4 DEF SoundSave, rest
  <2>6. Advanced(s).running
    BY <2>4
  <2> QED BY <1>2, <2>1, <2>2, <2>5, <2>6
<1>3. CASE ~Submits(s)
  BY <1>1, <1>3 DEF Advanced, Submits
<1> QED BY <1>2, <1>3

\* f holds the states of the saves on entry, a state that is collected has
\* nothing left to do.
LEMMA AdvanceSavesKeeps ==
  ASSUME NEW f, DOMAIN f \subseteq Req, \A r \in DOMAIN f : f[r] \in SoundSave,
         put \in [Req -> SoundPut], PutHeld(f), PutLaneInv,
         NEW S, S \subseteq DOMAIN f, NEW over, over \subseteq S,
         \A r \in over : ~Settled(r, f[r]).running /\ f[r].pending = << >>,
         AdvanceSaves(S, f, over)
  PROVE  /\ SavesTyped' /\ PutLaneInv' /\ DOMAIN saves' = DOMAIN f \ over
         /\ \A r \in Req : put'[r].state # "none" => r \in DOMAIN saves' /\ saves'[r].running
         /\ \A r \in Req : put[r].state = "reading" \/ put'[r].state = "reading" => put'[r] = put[r]
         /\ Dropped(f) => Dropped(saves') /\ putLane' = putLane
<1> DEFINE after == [r \in S |-> Settled(r, f[r])]
           started == {r \in S : Submits(after[r])}
<1>1. /\ saves' = [r \in DOMAIN f \ over |-> IF r \in S THEN Advanced(after[r]) ELSE f[r]]
      /\ put' = [r \in Req |->
                   IF r \in started
                   THEN [state |-> "queued", event |-> Head(after[r].pending)]
                   ELSE IF r \in S /\ Ended(r) THEN NoPut ELSE put[r]]
      /\ \E order \in SetToSeqs(started) : putLane' = putLane \o order
  BY DEF AdvanceSaves
<1>2. ASSUME NEW r \in S
      PROVE  /\ r \in Req /\ f[r] \in SoundSave /\ after[r] \in SoundSave
             /\ after[r].pending = f[r].pending
             /\ after[r].running <=> (f[r].running /\ ~Ended(r))
             /\ Advanced(after[r]) \in SoundSave
             /\ Advanced(after[r]).running <=> (after[r].running \/ Submits(after[r]))
             /\ after[r].pending = << >> => Advanced(after[r]) = after[r] /\ ~Submits(after[r])
             /\ Submits(after[r]) => Head(after[r].pending) \in SoundEvent
             /\ Submits(after[r]) => ~after[r].running
  <2>1. r \in Req /\ f[r] \in SoundSave /\ after[r] = Settled(r, f[r])
    OBVIOUS
  <2>2. /\ after[r] \in SoundSave /\ after[r].pending = f[r].pending
        /\ after[r].running <=> (f[r].running /\ ~Ended(r))
    BY <2>1, SettledSound
  <2> HIDE DEF after
  <2>3. Submits(after[r]) => ~after[r].running
    BY DEF Submits
  <2> QED BY <2>1, <2>2, <2>3, AdvancedSound
<1>3. \A r \in over : ~after[r].running /\ f[r].pending = << >>
  OBVIOUS
<1>4. started \subseteq S /\ \A r \in started : Submits(after[r])
  OBVIOUS
<1>5. \A r \in S : r \notin started => ~Submits(after[r])
  OBVIOUS
<1> HIDE DEF after, started
<1>6. \A r \in Req : put[r].state \in {"none", "queued", "checking", "reading", "ok", "failed"}
  BY DEF SoundPut
<1>7. \A r \in started : put[r].state \in {"none", "ok", "failed"}
  <2> SUFFICES ASSUME NEW r \in started PROVE put[r].state \in {"none", "ok", "failed"}
    OBVIOUS
  <2>1. ~after[r].running
    BY <1>2, <1>4
  <2>2. f[r].running => Ended(r)
    BY <1>2, <1>4, <2>1
  <2>3. put[r].state # "none" => f[r].running
    BY <1>2, <1>4 DEF PutHeld
  <2> QED BY <2>2, <2>3 DEF Ended
<1>8. DOMAIN saves' = DOMAIN f \ over /\ DOMAIN saves' \subseteq Req
  BY <1>1
<1>9. \A r \in DOMAIN saves' : saves'[r] \in SoundSave
  BY <1>1, <1>2, <1>8
<1>10. put' \in [Req -> SoundPut]
  <2> SUFFICES ASSUME NEW r \in Req PROVE put'[r] \in SoundPut
    BY <1>1
  <2>1. CASE r \in started
    <3>1. Head(after[r].pending) \in SoundEvent
      BY <1>2, <1>4, <2>1
    <3>2. put'[r] = [state |-> "queued", event |-> Head(after[r].pending)]
      BY <1>1, <2>1
    <3> QED BY <3>1, <3>2 DEF SoundPut
  <2>2. CASE r \notin started
    BY <1>1, <2>2, NoPutSound
  <2> QED BY <2>1, <2>2
<1>11. \A r \in Req : put'[r].state # "none" => r \in DOMAIN saves' /\ saves'[r].running
  <2> SUFFICES ASSUME NEW r \in Req, put'[r].state # "none"
               PROVE  r \in DOMAIN saves' /\ saves'[r].running
    OBVIOUS
  <2>1. CASE r \in started
    <3>1. r \in S /\ Submits(after[r])
      BY <1>4, <2>1
    <3>2. after[r].pending # << >>
      BY <1>2, <3>1
    <3>3. r \notin over
      BY <1>2, <1>3, <3>1, <3>2
    <3>4. Advanced(after[r]).running
      BY <1>2, <3>1
    <3> QED BY <1>1, <3>1, <3>3, <3>4
  <2>2. CASE r \notin started
    <3>1. ~(r \in S /\ Ended(r)) /\ put'[r] = put[r]
      BY <1>1, <2>2, NoPutSound
    <3>2. r \in DOMAIN f /\ f[r].running
      BY <3>1 DEF PutHeld
    <3>3. CASE r \in S
      <4>1. after[r].running /\ Advanced(after[r]).running
        BY <1>2, <3>1, <3>2, <3>3
      <4>2. r \notin over
        BY <1>3, <4>1
      <4> QED BY <1>1, <3>2, <3>3, <4>1, <4>2
    <3>4. CASE r \notin S
      BY <1>1, <3>2, <3>4
    <3> QED BY <3>3, <3>4
  <2> QED BY <2>1, <2>2
<1>12. PutLaneInv'
  <2>1. IsFiniteSet(started)
    <3>1. started \subseteq Req
      BY <1>2, <1>4
    <3> QED BY <3>1, FS_Subset, PoolAssumption
  <2>2. PICK order \in SetToSeqs(started) : putLane' = putLane \o order
    BY <1>1
  <2>3. order \in Seq(started) /\ Distinct(order)
    BY <2>1, SetToSeqsProperties DEF Distinct
  <2>4. QueuedPuts \cap started = {}
    BY <1>7 DEF QueuedPuts
  <2>5. putLane' \in Seq(QueuedPuts \cup started) /\ Distinct(putLane')
    BY <2>2, <2>3, <2>4, ConcatLane DEF PutLaneInv
  <2>6. QueuedPuts \cup started \subseteq QueuedPuts'
    <3> SUFFICES ASSUME NEW r \in QueuedPuts \cup started PROVE r \in Req /\ put'[r].state = "queued"
      BY DEF QueuedPuts
    <3>1. CASE r \in started
      BY <1>1, <1>2, <1>4, <3>1
    <3>2. CASE r \in QueuedPuts /\ r \notin started
      BY <1>1, <3>2 DEF QueuedPuts, Ended
    <3> QED BY <3>1, <3>2
  <2>7. putLane' \in Seq(QueuedPuts')
    BY <2>5, <2>6, SeqMonotonic
  <2> QED BY <2>5, <2>7 DEF PutLaneInv, Distinct
<1>13. \A r \in Req : put[r].state = "reading" \/ put'[r].state = "reading" => put'[r] = put[r]
  <2> SUFFICES ASSUME NEW r \in Req, put[r].state = "reading" \/ put'[r].state = "reading"
               PROVE  put'[r] = put[r]
    OBVIOUS
  <2>1. r \notin started
    BY <1>1, <1>7
  <2>2. put'[r] # put[r] => Ended(r) /\ put'[r] = NoPut
    BY <1>1, <2>1
  <2> QED BY <2>2, NoPutSound DEF Ended
<1>14. Dropped(f) => Dropped(saves') /\ putLane' = putLane
  <2> SUFFICES ASSUME Dropped(f) PROVE Dropped(saves') /\ putLane' = putLane
    OBVIOUS
  <2>1. \A r \in S : after[r].pending = << >> /\ Advanced(after[r]).pending = << >>
    BY <1>2 DEF Dropped
  <2>2. Dropped(saves')
    BY <1>1, <1>8, <2>1 DEF Dropped
  <2>3. started = {}
    BY <1>2, <1>4, <2>1
  <2>4. PICK order \in SetToSeqs({}) : putLane' = putLane \o order
    BY <1>1, <2>3
  <2>5. order \in Seq({})
    BY SetToSeqsProperties, FS_EmptySet
  <2>6. order = << >>
    BY <2>5, EmptySeq, ElementOfSeq
  <2>7. putLane \o << >> = putLane
    BY ConcatEmptySeq DEF PutLaneInv
  <2> QED BY <2>2, <2>4, <2>6, <2>7
<1> QED BY <1>8, <1>9, <1>10, <1>11, <1>12, <1>13, <1>14 DEF SavesTyped

-----------------------------------------------------------------------------
(* What a step may leave alone. *)

LEMMA SavesFrame ==
  ASSUME SavesInv, UNCHANGED <<saves, put, putLane>>,
         lock' = lock \/ \A r \in Req : lock # Waits("put", r)
  PROVE  SavesInv' /\ QueuedPuts' = QueuedPuts /\ Reading' = Reading
<1>1. QueuedPuts' = QueuedPuts /\ Reading' = Reading
  BY DEF QueuedPuts, Reading
<1>2. SavesTyped' /\ PutLaneInv'
  BY <1>1 DEF SavesInv, SavesTyped, PutLaneInv
<1>3. PutsHeld'
  BY DEF SavesInv, PutsHeld
<1> QED BY <1>1, <1>2, <1>3 DEF SavesInv

LEMMA LoadsFrame ==
  ASSUME LoadsInv, UNCHANGED <<loads, get, getLane, invalid, written>>,
         lock' = lock \/ \A r \in Req : lock # Waits("get", r)
  PROVE  LoadsInv' /\ QueuedGets' = QueuedGets /\ Writing' = Writing
<1>1. QueuedGets' = QueuedGets /\ Writing' = Writing
  BY DEF QueuedGets, Writing
<1>2. LoadsTyped' /\ GetLaneInv'
  BY <1>1 DEF LoadsInv, LoadsTyped, GetLaneInv
<1>3. GetsHeld'
  BY DEF LoadsInv, GetsHeld
<1> QED BY <1>1, <1>2, <1>3 DEF LoadsInv

\* Nobody waits while the lock is free or a reset holds it.
LEMMA NotWaiting ==
  ASSUME lock \in {Free, <<"reset">>}, NEW r
  PROVE  lock # Waits("put", r) /\ lock # Waits("get", r)
BY Locks

LEMMA PutStateChange ==
  ASSUME put \in [Req -> SoundPut], NEW r \in Req,
         NEW x \in {"none", "queued", "checking", "reading", "ok", "failed"},
         put' = [put EXCEPT ![r].state = x]
  PROVE  /\ put' \in [Req -> SoundPut] /\ put'[r].state = x /\ put'[r].event = put[r].event
         /\ \A y \in Req : y # r => put'[y] = put[y]
<1>1. put[r] \in SoundPut /\ put'[r] = [put[r] EXCEPT !.state = x]
  OBVIOUS
<1>2. put'[r] \in SoundPut /\ put'[r].state = x /\ put'[r].event = put[r].event
  BY <1>1 DEF SoundPut
<1> QED BY <1>2

LEMMA GetStateChange ==
  ASSUME get \in [Req -> GetJob], NEW r \in Req,
         NEW x \in {"none", "queued", "writing", "done"},
         get' = [get EXCEPT ![r].state = x]
  PROVE  /\ get' \in [Req -> GetJob] /\ get'[r].state = x
         /\ \A y \in Req : y # r => get'[y] = get[y]
<1>1. get[r] \in GetJob /\ get'[r] = [get[r] EXCEPT !.state = x]
  OBVIOUS
<1>2. get'[r] \in GetJob /\ get'[r].state = x
  BY <1>1 DEF GetJob
<1> QED BY <1>2

LEMMA NoGetTyped == NoGet \in GetJob /\ NoGet.state = "none"
BY PoolAssumption DEF NoGet, GetJob

LEMMA RangeBlocksTyped ==
  ASSUME NEW a \in 0 .. MaxToken, NEW b \in 0 .. MaxToken
  PROVE  RangeBlocks(a, b) \subseteq Blocks
BY RangesNested, PoolAssumption DEF Blocks

-----------------------------------------------------------------------------
(* Every step keeps the invariant: saves. *)

LEMMA SaveKeeps ==
  ASSUME PoolInv, NEW r \in Req, NEW range \in SaveRange, NEW line \in Line,
         Save(r, range, line)
  PROVE  /\ PoolInv' /\ DOMAIN saves' = DOMAIN saves \cup {r}
         /\ \A y \in Req : put[y].state = "reading" \/ put'[y].state = "reading" => put'[y] = put[y]
<1> DEFINE part == [from |-> range.from, to |-> range.to, line |-> line, sig |-> numSaves + 1]
           e    == [from |-> range.from, to |-> range.to, line |-> line,
                    sigs |-> {part.sig}, parts |-> {part}]
           new  == IF r \in DOMAIN saves
                   THEN [saves[r] EXCEPT !.pending = WithPending(@, e)]
                   ELSE [running |-> FALSE, pending |-> <<e>>, failed |-> FALSE]
           f    == With(saves, r, new)
<1> USE DEF PoolInv
<1>1. /\ Idle /\ numSaves < MaxSaves /\ numSaves' = numSaves + 1
      /\ AdvanceSaves({r}, f, {})
      /\ owed' = [owed EXCEPT ![r] = @ \cup Chunks(e)]
      /\ UNCHANGED <<loadVars, lock, life, fired, numLoads>>
  BY DEF Save
<1>2. numSaves + 1 \in Signal /\ numSaves' \in 0 .. MaxSaves
  BY <1>1, PoolAssumption DEF Signal, RestTyped
<1>3. e \in SoundEvent
  BY <1>2, NewEventSound
<1>4. Chunks(e) \subseteq Blocks
  <2>1. e.from \in 0 .. MaxToken /\ e.to \in 0 .. MaxToken /\ e.to \in Span
    BY DEF SaveRange, TokenRange
  <2> HIDE DEF e
  <2> QED BY <2>1, ChunksOfSave, RangeBlocksTyped
<1> HIDE DEF e
<1>5. new \in SoundSave /\ (r \in DOMAIN saves => new.running = saves[r].running)
  <2>1. CASE r \in DOMAIN saves
    <3>1. saves[r] \in SoundSave
      BY <2>1 DEF SavesInv, SavesTyped
    <3> DEFINE longer == WithPending(saves[r].pending, e)
    <3>2. longer \in Seq(SoundEvent)
      BY <1>3, <3>1, WithPendingSound DEF SoundSave
    <3>3. new = [saves[r] EXCEPT !.pending = longer]
      BY <2>1
    <3> HIDE DEF longer, new
    <3> QED BY <3>1, <3>2, <3>3 DEF SoundSave
  <2>2. CASE r \notin DOMAIN saves
    <3>1. new = [running |-> FALSE, pending |-> <<e>>, failed |-> FALSE]
      BY <2>2
    <3>2. <<e>> \in Seq(SoundEvent)
      BY <1>3
    <3> HIDE DEF new
    <3> QED BY <2>2, <3>1, <3>2 DEF SoundSave
  <2> QED BY <2>1, <2>2
<1> HIDE DEF new
<1>6. /\ DOMAIN f = DOMAIN saves \cup {r} /\ f[r] = new
      /\ \A y \in DOMAIN saves : y # r => f[y] = saves[y]
  BY DEF With
<1> HIDE DEF f
<1>7. DOMAIN f \subseteq Req /\ \A y \in DOMAIN f : f[y] \in SoundSave
  BY <1>5, <1>6 DEF SavesInv, SavesTyped
<1>8. PutHeld(f)
  <2>1. \A y \in Req : lock # Waits("put", y)
    BY <1>1, NotWaiting DEF Idle
  <2> QED BY <1>5, <1>6, <2>1 DEF SavesInv, PutsHeld, PutHeld
<1>9. /\ SavesTyped' /\ PutLaneInv' /\ DOMAIN saves' = DOMAIN f
      /\ \A y \in Req : put'[y].state # "none" => y \in DOMAIN saves' /\ saves'[y].running
      /\ \A y \in Req : put[y].state = "reading" \/ put'[y].state = "reading" => put'[y] = put[y]
  <2> DEFINE S == {r}  over == {}
  <2>1. S \subseteq DOMAIN f /\ over \subseteq S
    BY <1>6
  <2>2. \A y \in over : ~Settled(y, f[y]).running /\ f[y].pending = << >>
    OBVIOUS
  <2>3. put \in [Req -> SoundPut] /\ PutLaneInv
    BY DEF SavesInv, SavesTyped
  <2>4. AdvanceSaves(S, f, over)
    BY <1>1
  <2>5. DOMAIN f \ over = DOMAIN f
    OBVIOUS
  <2> HIDE DEF S, over
  <2> QED BY <1>7, <1>8, <2>1, <2>2, <2>3, <2>4, <2>5, AdvanceSavesKeeps
<1>10. SavesInv'
  BY <1>9 DEF SavesInv, PutsHeld
<1>11. LoadsInv'
  BY <1>1, LoadsFrame DEF loadVars
<1>12. RestTyped'
  <2>1. owed' \in [Req -> SUBSET Blocks]
    BY <1>1, <1>4 DEF RestTyped
  <2> QED BY <1>1, <1>2, <2>1 DEF RestTyped, LockKind
<1>13. Cancelled'
  BY <1>1, NotWaiting DEF Idle, Cancelled
<1>14. Closing'
  BY <1>1 DEF Idle, Closing
<1>15. ReadsReady'
  BY <1>1, <1>9 DEF ReadsReady, Reading
<1> QED BY <1>6, <1>9, <1>10, <1>11, <1>12, <1>13, <1>14, <1>15

LEMMA StartPutKeeps ==
  ASSUME PoolInv, StartPut
  PROVE  /\ PoolInv' /\ Reading' = Reading
         /\ \A y \in Req : put'[y].state = "none" <=> put[y].state = "none"
<1> DEFINE r == Head(putLane)
<1> USE DEF PoolInv
<1>1. /\ putLane # << >> /\ putLane' = Tail(putLane)
      /\ put' = [put EXCEPT ![r].state = "checking"]
      /\ UNCHANGED <<saves, owed, loadVars, lock, life, clock>>
  BY DEF StartPut
<1>2. /\ r \in QueuedPuts /\ putLane' \in Seq(QueuedPuts \ {r}) /\ Distinct(putLane')
  BY <1>1, TailLane DEF SavesInv, PutLaneInv
<1> HIDE DEF r
<1>3. r \in Req /\ put[r].state = "queued"
  BY <1>2 DEF QueuedPuts
<1>4. /\ put' \in [Req -> SoundPut] /\ put'[r].state = "checking" /\ put'[r].event = put[r].event
      /\ \A y \in Req : y # r => put'[y] = put[y]
  BY <1>1, <1>3, PutStateChange DEF SavesInv, SavesTyped
<1>5. QueuedPuts' = QueuedPuts \ {r} /\ Reading' = Reading
  BY <1>3, <1>4 DEF QueuedPuts, Reading
<1>6. SavesInv'
  <2>1. SavesTyped'
    BY <1>1, <1>4 DEF SavesInv, SavesTyped
  <2>2. PutsHeld'
    BY <1>1, <1>3, <1>4 DEF SavesInv, PutsHeld
  <2>3. PutLaneInv'
    BY <1>2, <1>5 DEF PutLaneInv, Distinct
  <2> QED BY <2>1, <2>2, <2>3 DEF SavesInv
<1>7. LoadsInv'
  BY <1>1, LoadsFrame DEF loadVars
<1>8. RestTyped'
  BY <1>1 DEF RestTyped, clock, LockKind
<1>9. Cancelled'
  BY <1>1, <1>3, <1>4 DEF Cancelled, loadVars
<1>10. Closing'
  BY <1>1 DEF Closing, Dropped, loadVars, Writing
<1>11. ReadsReady'
  BY <1>1, <1>3, <1>4, <1>5 DEF ReadsReady, Reading, clock
<1> QED BY <1>3, <1>4, <1>5, <1>6, <1>7, <1>8, <1>9, <1>10, <1>11

\* A PUT ends, or goes on to read the blocks.
LEMMA PutMovesOn ==
  ASSUME PoolInv, NEW r \in Req, put[r].state \in {"checking", "reading"},
         NEW x \in {"reading", "ok", "failed"}, put' = [put EXCEPT ![r].state = x],
         x = "reading" => put[r].event.sigs \subseteq fired,
         UNCHANGED <<saves, putLane, loadVars, lock, life, clock>>
  PROVE  /\ SavesInv' /\ LoadsInv' /\ Cancelled' /\ Closing' /\ ReadsReady'
         /\ put'[r].state = x /\ \A y \in Req : y # r => put'[y] = put[y]
<1> USE DEF PoolInv
<1>1. /\ put' \in [Req -> SoundPut] /\ put'[r].state = x /\ put'[r].event = put[r].event
      /\ \A y \in Req : y # r => put'[y] = put[y]
  BY PutStateChange DEF SavesInv, SavesTyped
<1>2. QueuedPuts' = QueuedPuts
  BY <1>1 DEF QueuedPuts
<1>3. SavesInv'
  <2>1. SavesTyped'
    BY <1>1 DEF SavesInv, SavesTyped
  <2>2. PutsHeld'
    BY <1>1 DEF SavesInv, PutsHeld
  <2>3. PutLaneInv'
    BY <1>2 DEF SavesInv, PutLaneInv
  <2> QED BY <2>1, <2>2, <2>3 DEF SavesInv
<1>4. LoadsInv'
  BY LoadsFrame DEF loadVars
<1>5. Cancelled'
  BY <1>1 DEF Cancelled, loadVars
<1>6. Closing'
  BY DEF Closing, Dropped, loadVars, Writing
<1>7. ReadsReady'
  BY <1>1 DEF ReadsReady, Reading, clock
<1> QED BY <1>1, <1>3, <1>4, <1>5, <1>6, <1>7

LEMMA PutEndsKeeps ==
  ASSUME PoolInv, NEW r \in Req, put[r].state \in {"checking", "reading"},
         NEW state \in {"ok", "failed"}, PutEnds(r, state)
  PROVE  PoolInv'
<1>1. SavesInv' /\ LoadsInv' /\ Cancelled' /\ Closing' /\ ReadsReady'
  BY PutMovesOn DEF PutEnds
<1>2. RestTyped'
  <2>1. owed' \in [Req -> SUBSET Blocks]
    BY DEF PutEnds, PoolInv, RestTyped
  <2> QED BY <2>1 DEF PutEnds, PoolInv, RestTyped, clock, LockKind
<1> QED BY <1>1, <1>2 DEF PoolInv

LEMMA PutReadKeeps ==
  ASSUME PoolInv, NEW r \in Req, PutRead(r)
  PROVE  PoolInv'
<1>1. SavesInv' /\ LoadsInv' /\ Cancelled' /\ Closing' /\ ReadsReady'
  BY PutMovesOn DEF PutRead
<1>2. RestTyped'
  BY DEF PutRead, PoolInv, RestTyped, clock, LockKind
<1> QED BY <1>1, <1>2 DEF PoolInv

LEMMA FireKeeps ==
  ASSUME PoolInv, NEW s \in Signal, Fire(s)
  PROVE  PoolInv'
<1> USE DEF PoolInv, Fire, saveVars, loadVars
<1>1. SavesInv' /\ Reading' = Reading
  BY SavesFrame
<1>2. LoadsInv' /\ Writing' = Writing
  BY LoadsFrame
<1>3. RestTyped'
  BY DEF RestTyped, LockKind
<1>4. Cancelled'
  BY DEF Cancelled
<1>5. Closing'
  BY <1>2 DEF Closing, Dropped
<1>6. ReadsReady'
  BY <1>1 DEF ReadsReady
<1> QED BY <1>1, <1>2, <1>3, <1>4, <1>5, <1>6

-----------------------------------------------------------------------------
(* Every step keeps the invariant: loads and results. *)

LEMMA LoadKeeps ==
  ASSUME PoolInv, NEW r \in Req, NEW range \in TokenRange, Load(r, range)
  PROVE  PoolInv' /\ DOMAIN loads' = DOMAIN loads \cup {r} /\ Reading' = Reading /\ Writing' = Writing
<1> DEFINE job == [state |-> "queued", from |-> range.from, to |-> range.to, bad |-> {}]
<1> USE DEF PoolInv
<1>1. /\ Idle /\ r \notin DOMAIN loads /\ numLoads < MaxLoads /\ numLoads' = numLoads + 1
      /\ loads' = With(loads, r, FALSE) /\ get' = [get EXCEPT ![r] = job]
      /\ getLane' = Append(getLane, r) /\ written' = [written EXCEPT ![r] = {}]
      /\ UNCHANGED <<saveVars, invalid, lock, life, fired, numSaves>>
  BY DEF Load
<1>2. job \in GetJob /\ job.state = "queued"
  BY DEF GetJob, TokenRange
<1> HIDE DEF job
<1>3. lock = Free /\ life = "open" /\ \A y \in Req : lock # Waits("put", y) /\ lock # Waits("get", y)
  BY <1>1, NotWaiting DEF Idle
<1>4. get[r].state = "none"
  BY <1>1, <1>3 DEF LoadsInv, GetsHeld
<1>5. DOMAIN loads' = DOMAIN loads \cup {r} /\ \A y \in DOMAIN loads' : loads'[y] \in BOOLEAN
  BY <1>1 DEF With, LoadsInv, LoadsTyped
<1>6. get' \in [Req -> GetJob] /\ get'[r] = job /\ \A y \in Req : y # r => get'[y] = get[y]
  BY <1>1, <1>2 DEF LoadsInv, LoadsTyped
<1>7. QueuedGets' = QueuedGets \cup {r} /\ r \notin QueuedGets /\ Writing' = Writing
  BY <1>2, <1>4, <1>6 DEF QueuedGets, Writing
<1>8. SavesInv' /\ Reading' = Reading
  BY <1>1, SavesFrame DEF saveVars
<1>9. LoadsInv'
  <2>1. LoadsTyped'
    BY <1>1, <1>5, <1>6 DEF LoadsInv, LoadsTyped
  <2>2. GetsHeld'
    BY <1>1, <1>3, <1>5, <1>6 DEF LoadsInv, GetsHeld
  <2>3. GetLaneInv'
    <3>1. getLane' \in Seq(QueuedGets \cup {r}) /\ Distinct(getLane')
      BY <1>1, <1>7, AppendLane DEF LoadsInv, GetLaneInv
    <3> QED BY <1>7, <3>1 DEF GetLaneInv, Distinct
  <2> QED BY <2>1, <2>2, <2>3 DEF LoadsInv
<1>10. RestTyped'
  <2>1. numLoads' \in 0 .. MaxLoads
    BY <1>1, PoolAssumption DEF RestTyped
  <2> QED BY <1>1, <2>1 DEF RestTyped, saveVars, LockKind
<1>11. Cancelled'
  BY <1>1, <1>3 DEF Cancelled
<1>12. Closing'
  BY <1>1, <1>3 DEF Closing
<1>13. ReadsReady'
  BY <1>1, <1>8 DEF ReadsReady, saveVars
<1> QED BY <1>5, <1>7, <1>8, <1>9, <1>10, <1>11, <1>12, <1>13

LEMMA StartGetKeeps ==
  ASSUME PoolInv, StartGet
  PROVE  /\ PoolInv'
         /\ \E r \in Req : /\ get[r].state = "queued" /\ get'[r].state = "writing"
                          /\ \A y \in Req : y # r => get'[y] = get[y]
<1> DEFINE r == Head(getLane)
<1> USE DEF PoolInv
<1>1. /\ getLane # << >> /\ getLane' = Tail(getLane)
      /\ get' = [get EXCEPT ![r].state = "writing"]
      /\ UNCHANGED <<saveVars, loads, invalid, written, lock, life, clock>>
  BY DEF StartGet
<1>2. /\ r \in QueuedGets /\ getLane' \in Seq(QueuedGets \ {r}) /\ Distinct(getLane')
  BY <1>1, TailLane DEF LoadsInv, GetLaneInv
<1> HIDE DEF r
<1>3. r \in Req /\ get[r].state = "queued"
  BY <1>2 DEF QueuedGets
<1>4. /\ get' \in [Req -> GetJob] /\ get'[r].state = "writing"
      /\ \A y \in Req : y # r => get'[y] = get[y]
  BY <1>1, <1>3, GetStateChange DEF LoadsInv, LoadsTyped
<1>5. QueuedGets' = QueuedGets \ {r}
  BY <1>3, <1>4 DEF QueuedGets
<1>6. life = "open"
  BY <1>1 DEF Closing
<1>7. LoadsInv'
  <2>1. LoadsTyped'
    BY <1>1, <1>4 DEF LoadsInv, LoadsTyped
  <2>2. GetsHeld'
    BY <1>1, <1>3, <1>4 DEF LoadsInv, GetsHeld
  <2>3. GetLaneInv'
    BY <1>2, <1>5 DEF GetLaneInv, Distinct
  <2> QED BY <2>1, <2>2, <2>3 DEF LoadsInv
<1>8. SavesInv' /\ Reading' = Reading
  BY <1>1, SavesFrame DEF saveVars
<1>9. RestTyped'
  BY <1>1 DEF RestTyped, clock, saveVars, LockKind
<1>10. Cancelled'
  BY <1>1, <1>3, <1>4 DEF Cancelled, saveVars
<1>11. Closing'
  BY <1>1, <1>6 DEF Closing
<1>12. ReadsReady'
  BY <1>1, <1>8 DEF ReadsReady, clock, saveVars
<1> QED BY <1>3, <1>4, <1>7, <1>8, <1>9, <1>10, <1>11, <1>12

LEMMA GetReturnKeeps ==
  ASSUME PoolInv, NEW r \in Req, NEW bad \in SUBSET RangeBlocks(get[r].from, get[r].to),
         GetReturn(r, bad)
  PROVE  PoolInv' /\ get'[r].state = "done" /\ \A y \in Req : y # r => get'[y] = get[y]
<1> USE DEF PoolInv
<1>1. /\ get[r].state = "writing"
      /\ get' = [get EXCEPT ![r] = [get[r] EXCEPT !.state = "done", !.bad = bad]]
      /\ written' = [written EXCEPT ![r] = RangeBlocks(get[r].from, get[r].to) \ bad]
      /\ UNCHANGED <<saveVars, loads, getLane, invalid, lock, life, clock>>
  BY DEF GetReturn, LoadsInv, LoadsTyped
<1>2. get[r] \in GetJob /\ RangeBlocks(get[r].from, get[r].to) \subseteq Blocks
  <2>1. get[r] \in GetJob
    BY DEF LoadsInv, LoadsTyped
  <2> QED BY <2>1, RangeBlocksTyped DEF GetJob
<1>3. /\ get'[r] = [get[r] EXCEPT !.state = "done", !.bad = bad]
      /\ \A y \in Req : y # r => get'[y] = get[y]
  BY <1>1 DEF LoadsInv, LoadsTyped
<1>4. get'[r] \in GetJob /\ get'[r].state = "done"
  BY <1>2, <1>3 DEF GetJob
<1>5. get' \in [Req -> GetJob] /\ written' \in [Req -> SUBSET Blocks]
  BY <1>1, <1>2, <1>3, <1>4 DEF LoadsInv, LoadsTyped
<1>6. QueuedGets' = QueuedGets /\ Writing' \subseteq Writing
  BY <1>1, <1>3, <1>4 DEF QueuedGets, Writing
<1>7. LoadsInv'
  <2>1. LoadsTyped'
    BY <1>1, <1>5 DEF LoadsInv, LoadsTyped
  <2>2. GetsHeld'
    BY <1>1, <1>3 DEF LoadsInv, GetsHeld
  <2>3. GetLaneInv'
    BY <1>1, <1>6 DEF LoadsInv, GetLaneInv
  <2> QED BY <2>1, <2>2, <2>3 DEF LoadsInv
<1>8. SavesInv' /\ Reading' = Reading
  BY <1>1, SavesFrame DEF saveVars
<1>9. RestTyped'
  BY <1>1 DEF RestTyped, clock, saveVars, LockKind
<1>10. Cancelled'
  BY <1>1, <1>3, <1>4 DEF Cancelled, saveVars
<1>11. Closing'
  BY <1>1, <1>6 DEF Closing, Dropped, saveVars
<1>12. ReadsReady'
  BY <1>1, <1>8 DEF ReadsReady, clock, saveVars
<1> QED BY <1>3, <1>4, <1>7, <1>8, <1>9, <1>10, <1>11, <1>12

\* The blocks that poll reports as invalid belong to the request.
LEMMA OutcomeTyped ==
  ASSUME LoadsTyped, NEW r \in Req
  PROVE  Outcome(r).invalid \subseteq Blocks
<1> DEFINE x      == get[r]
           prefix == LoadedPrefix(x.from, x.to, x.bad)
           tokens == IF loads[r] THEN x.from ELSE prefix
<1>1. x \in GetJob
  BY DEF LoadsTyped
<1>2. x.from \in Nat /\ x.to \in Nat /\ x.to <= MaxToken
  BY <1>1, PoolAssumption DEF GetJob
<1>3. prefix \in Nat
  <2> HIDE DEF x
  <2> QED BY <1>2, LoadedPrefixAfterFrom
<1>4. tokens \in Nat
  <2> HIDE DEF prefix
  <2> QED BY <1>2, <1>3
<1>5. Outcome(r).invalid = RangeBlocks(tokens, x.to)
  BY DEF Outcome
<1> HIDE DEF tokens, x
<1> QED BY <1>2, <1>4, <1>5, RangesNested, PoolAssumption DEF Blocks

\* poll collects what is over: the saves of over and the loads of got.
LEMMA PollSteps ==
  ASSUME PoolInv, NEW late, Poll(late)
  PROVE  LET got  == {r \in DOMAIN loads : get[r].state = "done"}
             over == {r \in DOMAIN saves : SavesOver(r)}
         IN  /\ SavesTyped' /\ PutLaneInv' /\ DOMAIN saves' = DOMAIN saves \ over
             /\ \A r \in Req : put'[r].state # "none" => r \in DOMAIN saves' /\ saves'[r].running
             /\ \A r \in Req : put[r].state = "reading" \/ put'[r].state = "reading" =>
                                 put'[r] = put[r]
             /\ LoadsTyped' /\ DOMAIN loads' = DOMAIN loads \ got
             /\ \A r \in Req : IF r \in got THEN get'[r].state = "none" ELSE get'[r] = get[r]
<1> DEFINE got  == {r \in DOMAIN loads : get[r].state = "done"}
           hurt == {r \in got : Outcome(r).invalid # {}}
           over == {r \in DOMAIN saves : SavesOver(r)}
           S    == DOMAIN saves
<1> USE DEF PoolInv
<1>1. /\ Idle
      /\ loads' = [r \in DOMAIN loads \ got |-> loads[r] \/ r \in late]
      /\ get' = [r \in Req |-> IF r \in got THEN NoGet ELSE get[r]]
      /\ invalid' = [r \in hurt \cup DOMAIN invalid |->
                       IF r \in hurt THEN Outcome(r).invalid ELSE invalid[r]]
      /\ AdvanceSaves(S, saves, over)
      /\ written' = [r \in Req |-> IF r \in got THEN {} ELSE written[r]]
  BY DEF Poll
<1>2. hurt \subseteq got /\ got \subseteq Req /\ DOMAIN loads \subseteq Req
  BY DEF LoadsInv, LoadsTyped
<1>3. over \subseteq S /\ \A r \in over : ~Settled(r, saves[r]).running /\ saves[r].pending = << >>
  <2> SUFFICES ASSUME NEW r \in over
               PROVE  ~Settled(r, saves[r]).running /\ saves[r].pending = << >>
    OBVIOUS
  <2>1. ~Settled(r, saves[r]).running /\ Settled(r, saves[r]).pending = << >>
    BY DEF SavesOver
  <2>2. r \in Req /\ saves[r] \in SoundSave /\ put \in [Req -> SoundPut]
    BY DEF SavesInv, SavesTyped
  <2> QED BY <2>1, <2>2, SettledSound
<1>4. PutHeld(saves)
  <2>1. \A y \in Req : lock # Waits("put", y)
    BY <1>1, NotWaiting DEF Idle
  <2> QED BY <2>1 DEF SavesInv, PutsHeld, PutHeld
<1>5. /\ SavesTyped' /\ PutLaneInv' /\ DOMAIN saves' = DOMAIN saves \ over
      /\ \A r \in Req : put'[r].state # "none" => r \in DOMAIN saves' /\ saves'[r].running
      /\ \A r \in Req : put[r].state = "reading" \/ put'[r].state = "reading" => put'[r] = put[r]
  <2>1. /\ DOMAIN saves \subseteq Req /\ \A r \in DOMAIN saves : saves[r] \in SoundSave
        /\ put \in [Req -> SoundPut] /\ PutLaneInv
    BY DEF SavesInv, SavesTyped
  <2>2. S \subseteq DOMAIN saves /\ AdvanceSaves(S, saves, over)
    BY <1>1
  <2> HIDE DEF over, S
  <2> QED BY <1>3, <1>4, <2>1, <2>2, AdvanceSavesKeeps
<1>6. DOMAIN loads' = DOMAIN loads \ got /\ \A r \in DOMAIN loads' : loads'[r] \in BOOLEAN
  BY <1>1 DEF LoadsInv, LoadsTyped
<1>7. /\ get' \in [Req -> GetJob]
      /\ \A r \in Req : IF r \in got THEN get'[r].state = "none" ELSE get'[r] = get[r]
  BY <1>1, NoGetTyped DEF LoadsInv, LoadsTyped
<1>8. DOMAIN invalid' \subseteq Req /\ \A r \in DOMAIN invalid' : invalid'[r] \subseteq Blocks
  <2>1. \A r \in hurt : Outcome(r).invalid \subseteq Blocks
    BY <1>2, OutcomeTyped DEF LoadsInv
  <2>2. DOMAIN invalid' = hurt \cup DOMAIN invalid
    BY <1>1
  <2> HIDE DEF hurt, got
  <2> QED BY <1>1, <1>2, <2>1, <2>2 DEF LoadsInv, LoadsTyped
<1>9. written' \in [Req -> SUBSET Blocks]
  BY <1>1 DEF LoadsInv, LoadsTyped
<1>10. LoadsTyped'
  BY <1>2, <1>6, <1>7, <1>8, <1>9 DEF LoadsTyped
<1> QED BY <1>5, <1>6, <1>7, <1>10

LEMMA PollKeeps ==
  ASSUME PoolInv, NEW late, Poll(late)
  PROVE  PoolInv'
<1> DEFINE got  == {r \in DOMAIN loads : get[r].state = "done"}
           over == {r \in DOMAIN saves : SavesOver(r)}
<1> USE DEF PoolInv
<1>1. /\ SavesTyped' /\ PutLaneInv'
      /\ \A r \in Req : put'[r].state # "none" => r \in DOMAIN saves' /\ saves'[r].running
      /\ \A r \in Req : put[r].state = "reading" \/ put'[r].state = "reading" => put'[r] = put[r]
      /\ LoadsTyped' /\ DOMAIN loads' = DOMAIN loads \ got
      /\ \A r \in Req : IF r \in got THEN get'[r].state = "none" ELSE get'[r] = get[r]
  BY PollSteps
<1>2. Idle /\ UNCHANGED <<getLane, lock, life, clock>>
      /\ owed' = [r \in Req |-> IF r \in over THEN {} ELSE owed[r]]
  BY DEF Poll
<1>3. lock = Free /\ life = "open" /\ \A y \in Req : lock # Waits("put", y) /\ lock # Waits("get", y)
  BY <1>2, NotWaiting DEF Idle
<1>4. \A r \in got : get[r].state = "done"
  OBVIOUS
<1> HIDE DEF got, over
<1>5. SavesInv'
  BY <1>1 DEF SavesInv, PutsHeld
<1>6. LoadsInv'
  <2>1. GetsHeld'
    BY <1>1, <1>3 DEF LoadsInv, GetsHeld
  <2>2. QueuedGets' = QueuedGets
    BY <1>1, <1>4 DEF QueuedGets
  <2>3. GetLaneInv'
    BY <1>2, <2>2 DEF LoadsInv, GetLaneInv
  <2> QED BY <1>1, <2>1, <2>3 DEF LoadsInv
<1>7. RestTyped'
  <2>1. owed' \in [Req -> SUBSET Blocks]
    BY <1>2 DEF RestTyped
  <2> QED BY <1>2, <2>1 DEF RestTyped, clock, LockKind
<1>8. Cancelled'
  BY <1>2, <1>3 DEF Cancelled
<1>9. Closing'
  BY <1>2, <1>3 DEF Closing
<1>10. ReadsReady'
  BY <1>1, <1>2 DEF ReadsReady, Reading, clock
<1> QED BY <1>5, <1>6, <1>7, <1>8, <1>9, <1>10

LEMMA TakeErrorsKeeps ==
  ASSUME PoolInv, TakeErrors
  PROVE  PoolInv'
<1> USE DEF PoolInv
<1>1. invalid' = << >> /\ UNCHANGED <<saveVars, loads, get, getLane, written, lock, life, clock>>
  BY DEF TakeErrors
<1>2. SavesInv' /\ Reading' = Reading
  BY <1>1, SavesFrame DEF saveVars
<1>3. LoadsInv' /\ Writing' = Writing
  <2>1. DOMAIN invalid' = {}
    BY <1>1
  <2>2. LoadsTyped'
    BY <1>1, <2>1 DEF LoadsInv, LoadsTyped
  <2>3. GetsHeld' /\ GetLaneInv' /\ Writing' = Writing
    BY <1>1 DEF LoadsInv, GetsHeld, GetLaneInv, QueuedGets, Writing
  <2> QED BY <2>2, <2>3 DEF LoadsInv
<1>4. RestTyped'
  BY <1>1 DEF RestTyped, clock, saveVars, LockKind
<1>5. Cancelled'
  BY <1>1 DEF Cancelled, saveVars
<1>6. Closing'
  BY <1>1, <1>3 DEF Closing, Dropped, saveVars
<1>7. ReadsReady'
  BY <1>1, <1>2 DEF ReadsReady, saveVars, clock
<1> QED BY <1>2, <1>3, <1>4, <1>5, <1>6, <1>7

-----------------------------------------------------------------------------
(* Every step keeps the invariant: fences. *)

LEMMA PreemptKeeps ==
  ASSUME PoolInv, NEW r \in Req, Preempt(r)
  PROVE  /\ PoolInv' /\ DOMAIN saves' = DOMAIN saves \ {r}
         /\ put'[r].state = "none" \/ put'[r] = put[r]
         /\ \A y \in Req : y # r => put'[y] = put[y]
<1> USE DEF PoolInv
<1>1. /\ Idle /\ saves' = Without(saves, {r})
      /\ put' = [put EXCEPT ![r] = IF put[r].state = "queued" THEN NoPut ELSE put[r]]
      /\ putLane' = NotIn(putLane, r) /\ owed' = [owed EXCEPT ![r] = {}]
      /\ lock' = Waits("put", r)
      /\ UNCHANGED <<loadVars, life, clock>>
  BY DEF Preempt, SavesInv, SavesTyped
<1>2. lock = Free /\ life = "open" /\ \A y \in Req : lock # Waits("put", y) /\ lock # Waits("get", y)
  BY <1>1, NotWaiting DEF Idle
<1>3. DOMAIN saves' = DOMAIN saves \ {r} /\ \A y \in DOMAIN saves' : saves'[y] = saves[y]
  BY <1>1 DEF Without
<1>4. /\ put' \in [Req -> SoundPut] /\ put'[r].state # "queued"
      /\ put'[r].state = "none" \/ put'[r] = put[r]
      /\ \A y \in Req : y # r => put'[y] = put[y]
  BY <1>1, NoPutSound DEF SavesInv, SavesTyped
<1>5. QueuedPuts' = QueuedPuts \ {r} /\ Reading' \subseteq Reading
      /\ \A y \in Reading' : put'[y] = put[y]
  BY <1>4 DEF QueuedPuts, Reading
<1>6. SavesInv'
  <2>1. SavesTyped'
    BY <1>3, <1>4 DEF SavesInv, SavesTyped
  <2>2. PutsHeld'
    <3> SUFFICES ASSUME NEW y \in Req, put'[y].state # "none", y # r
                 PROVE  y \in DOMAIN saves' /\ saves'[y].running
      BY <1>1 DEF PutsHeld
    <3>1. put[y].state # "none" /\ lock # Waits("put", y)
      BY <1>2, <1>4
    <3>2. y \in DOMAIN saves /\ saves[y].running
      BY <3>1 DEF SavesInv, PutsHeld
    <3>3. y \in DOMAIN saves' /\ saves'[y] = saves[y]
      BY <1>3, <3>2
    <3> QED BY <3>2, <3>3
  <2>3. PutLaneInv'
    <3>1. putLane \in Seq(QueuedPuts) /\ Distinct(putLane)
      BY DEF SavesInv, PutLaneInv
    <3>2. putLane' \in Seq(QueuedPuts \ {r}) /\ Distinct(putLane')
      BY <1>1, <3>1, NotInLane
    <3> QED BY <1>5, <3>2 DEF PutLaneInv
  <2> QED BY <2>1, <2>2, <2>3 DEF SavesInv
<1>7. LoadsInv'
  BY <1>1, <1>2, LoadsFrame DEF loadVars
<1>8. RestTyped'
  <2>1. owed' \in [Req -> SUBSET Blocks]
    BY <1>1 DEF RestTyped
  <2>2. lock' \in LockKind
    BY <1>1 DEF LockKind
  <2> QED BY <1>1, <2>1, <2>2 DEF RestTyped, clock, LockKind
<1>9. Cancelled'
  BY <1>1, <1>4, Locks DEF Cancelled
<1>10. Closing'
  BY <1>1, <1>2 DEF Closing
<1>11. ReadsReady'
  BY <1>1, <1>5 DEF ReadsReady, clock
<1> QED BY <1>3, <1>4, <1>6, <1>7, <1>8, <1>9, <1>10, <1>11

LEMMA FenceLoadsKeeps ==
  ASSUME PoolInv, NEW r \in Req, FenceLoads(r)
  PROVE  /\ PoolInv' /\ DOMAIN loads' = DOMAIN loads \ {r}
         /\ put'[r].state = "none" /\ \A y \in Req : y # r => put'[y] = put[y]
         /\ get'[r].state = "none" \/ get'[r] = get[r]
         /\ \A y \in Req : y # r => get'[y] = get[y]
<1> USE DEF PoolInv
<1>1. /\ lock = Waits("put", r) /\ put[r].state \notin {"checking", "reading"}
      /\ put' = [put EXCEPT ![r] = NoPut] /\ loads' = Without(loads, {r})
      /\ get' = [get EXCEPT ![r] = IF get[r].state = "queued" THEN NoGet ELSE get[r]]
      /\ getLane' = NotIn(getLane, r) /\ lock' = Waits("get", r)
      /\ UNCHANGED <<saves, putLane, owed, invalid, written, life, clock>>
  BY DEF FenceLoads, LoadsInv, LoadsTyped
<1>2. /\ life = "open" /\ put[r].state # "queued"
      /\ \A y \in Req : lock # Waits("get", y) /\ (y # r => lock # Waits("put", y))
  BY <1>1, Locks DEF Closing, Cancelled
<1>3. DOMAIN loads' = DOMAIN loads \ {r} /\ \A y \in DOMAIN loads' : loads'[y] = loads[y]
  BY <1>1 DEF Without
<1>4. /\ put' \in [Req -> SoundPut] /\ put'[r].state = "none"
      /\ \A y \in Req : y # r => put'[y] = put[y]
  BY <1>1, NoPutSound DEF SavesInv, SavesTyped
<1>5. /\ get' \in [Req -> GetJob] /\ get'[r].state # "queued"
      /\ get'[r].state = "none" \/ get'[r] = get[r]
      /\ \A y \in Req : y # r => get'[y] = get[y]
  BY <1>1, NoGetTyped DEF LoadsInv, LoadsTyped
<1>6. /\ QueuedPuts' = QueuedPuts /\ QueuedGets' = QueuedGets \ {r}
      /\ Reading' \subseteq Reading /\ \A y \in Reading' : put'[y] = put[y]
  BY <1>2, <1>4, <1>5 DEF QueuedPuts, QueuedGets, Reading
<1>7. SavesInv'
  <2>1. SavesTyped'
    BY <1>1, <1>4 DEF SavesInv, SavesTyped
  <2>2. PutsHeld'
    BY <1>1, <1>2, <1>4 DEF SavesInv, PutsHeld
  <2>3. PutLaneInv'
    BY <1>1, <1>6 DEF SavesInv, PutLaneInv
  <2> QED BY <2>1, <2>2, <2>3 DEF SavesInv
<1>8. LoadsInv'
  <2>1. LoadsTyped'
    BY <1>1, <1>3, <1>5 DEF LoadsInv, LoadsTyped
  <2>2. GetsHeld'
    BY <1>1, <1>2, <1>3, <1>5 DEF LoadsInv, GetsHeld
  <2>3. GetLaneInv'
    BY <1>1, <1>6, NotInLane DEF LoadsInv, GetLaneInv, Distinct
  <2> QED BY <2>1, <2>2, <2>3 DEF LoadsInv
<1>9. RestTyped'
  <2>1. lock' \in LockKind
    BY <1>1 DEF LockKind
  <2> QED BY <1>1, <2>1 DEF RestTyped, clock, LockKind
<1>10. Cancelled'
  BY <1>1, <1>5, Locks DEF Cancelled
<1>11. Closing'
  BY <1>1, <1>2 DEF Closing
<1>12. ReadsReady'
  BY <1>1, <1>6 DEF ReadsReady, clock
<1> QED BY <1>3, <1>4, <1>5, <1>7, <1>8, <1>9, <1>10, <1>11, <1>12

LEMMA PreemptReturnKeeps ==
  ASSUME PoolInv, NEW r \in Req, PreemptReturn(r)
  PROVE  PoolInv' /\ get'[r].state = "none" /\ \A y \in Req : y # r => get'[y] = get[y]
<1> USE DEF PoolInv
<1>1. /\ lock = Waits("get", r) /\ get[r].state # "writing"
      /\ get' = [get EXCEPT ![r] = NoGet] /\ written' = [written EXCEPT ![r] = {}]
      /\ invalid' = Without(invalid, {r}) /\ lock' = Free
      /\ UNCHANGED <<saveVars, loads, getLane, life, clock>>
  BY DEF PreemptReturn
<1>2. /\ life = "open" /\ get[r].state # "queued"
      /\ \A y \in Req : lock # Waits("put", y) /\ (y # r => lock # Waits("get", y))
  BY <1>1, Locks DEF Closing, Cancelled
<1>3. /\ get' \in [Req -> GetJob] /\ get'[r].state = "none"
      /\ \A y \in Req : y # r => get'[y] = get[y]
  BY <1>1, NoGetTyped DEF LoadsInv, LoadsTyped
<1>4. QueuedGets' = QueuedGets
  BY <1>2, <1>3 DEF QueuedGets
<1>5. SavesInv' /\ Reading' = Reading
  BY <1>1, <1>2, SavesFrame DEF saveVars
<1>6. LoadsInv'
  <2>1. DOMAIN invalid' \subseteq Req /\ \A y \in DOMAIN invalid' : invalid'[y] \subseteq Blocks
    BY <1>1 DEF LoadsInv, LoadsTyped, Without
  <2>2. LoadsTyped'
    BY <1>1, <1>3, <2>1 DEF LoadsInv, LoadsTyped
  <2>3. GetsHeld'
    BY <1>1, <1>2, <1>3 DEF LoadsInv, GetsHeld
  <2>4. GetLaneInv'
    BY <1>1, <1>4 DEF LoadsInv, GetLaneInv
  <2> QED BY <2>2, <2>3, <2>4 DEF LoadsInv
<1>7. RestTyped'
  BY <1>1 DEF RestTyped, clock, saveVars, LockKind
<1>8. Cancelled'
  <2>1. lock' \in {Free, <<"reset">>}
    BY <1>1
  <2> QED BY <1>1, Locks DEF Cancelled
<1>9. Closing'
  BY <1>1, <1>2 DEF Closing
<1>10. ReadsReady'
  BY <1>1, <1>5 DEF ReadsReady, clock, saveVars
<1> QED BY <1>3, <1>5, <1>6, <1>7, <1>8, <1>9, <1>10

LEMMA ResetKeeps ==
  ASSUME PoolInv, ResetBegin \/ ResetEnd
  PROVE  PoolInv'
<1> USE DEF PoolInv
<1>1. /\ lock \in {Free, <<"reset">>} /\ lock' \in {Free, <<"reset">>}
      /\ UNCHANGED <<saveVars, loadVars, life, clock>>
  BY DEF ResetBegin, ResetEnd
<1>2. \A y \in Req : lock # Waits("put", y) /\ lock # Waits("get", y)
  BY <1>1, NotWaiting
<1>3. SavesInv' /\ Reading' = Reading
  BY <1>1, <1>2, SavesFrame DEF saveVars
<1>4. LoadsInv' /\ Writing' = Writing
  BY <1>1, <1>2, LoadsFrame DEF loadVars
<1>5. RestTyped'
  BY <1>1 DEF RestTyped, clock, saveVars, LockKind
<1>6. Cancelled'
  BY <1>1, Locks DEF Cancelled
<1>7. Closing'
  BY <1>1, <1>4 DEF Closing, Dropped, saveVars, loadVars
<1>8. ReadsReady'
  BY <1>1, <1>3 DEF ReadsReady, clock, saveVars
<1> QED BY <1>3, <1>4, <1>5, <1>6, <1>7, <1>8

LEMMA ResetAdvanceKeeps ==
  ASSUME PoolInv, NEW r \in Req, ResetAdvance(r)
  PROVE  /\ PoolInv' /\ DOMAIN saves' = DOMAIN saves
         /\ \A y \in Req : put[y].state = "reading" \/ put'[y].state = "reading" => put'[y] = put[y]
<1> DEFINE S == {r}  over == {}
<1> USE DEF PoolInv
<1>1. /\ lock = <<"reset">> /\ r \in DOMAIN saves /\ AdvanceSaves(S, saves, over)
      /\ UNCHANGED <<owed, loadVars, lock, life, clock>>
  BY DEF ResetAdvance
<1>2. \A y \in Req : lock # Waits("put", y) /\ lock # Waits("get", y)
  BY <1>1, NotWaiting
<1>3. PutHeld(saves)
  BY <1>2 DEF SavesInv, PutsHeld, PutHeld
<1>4. S \subseteq DOMAIN saves /\ over \subseteq S /\ over = {}
  BY <1>1
<1>5. \A y \in over : ~Settled(y, saves[y]).running /\ saves[y].pending = << >>
  OBVIOUS
<1> HIDE DEF S, over
<1>6. /\ DOMAIN saves \subseteq Req /\ \A y \in DOMAIN saves : saves[y] \in SoundSave
      /\ put \in [Req -> SoundPut] /\ PutLaneInv
  BY DEF SavesInv, SavesTyped
<1>7. /\ SavesTyped' /\ PutLaneInv' /\ DOMAIN saves' = DOMAIN saves \ over
      /\ \A y \in Req : put'[y].state # "none" => y \in DOMAIN saves' /\ saves'[y].running
      /\ \A y \in Req : put[y].state = "reading" \/ put'[y].state = "reading" => put'[y] = put[y]
      /\ Dropped(saves) => Dropped(saves') /\ putLane' = putLane
  BY <1>1, <1>3, <1>4, <1>5, <1>6, AdvanceSavesKeeps
<1>8. SavesInv'
  BY <1>7 DEF SavesInv, PutsHeld
<1>9. LoadsInv' /\ Writing' = Writing
  BY <1>1, LoadsFrame DEF loadVars
<1>10. RestTyped'
  BY <1>1 DEF RestTyped, clock, LockKind
<1>11. Cancelled'
  BY <1>1, <1>2 DEF Cancelled
<1>12. Closing'
  <2>1. (life # "open" => Dropped(saves')) /\ (life \in {"puts", "closed"} => putLane' = << >>)
    BY <1>7 DEF Closing, RestTyped
  <2> QED BY <1>1, <1>9, <2>1 DEF Closing, Dropped, loadVars
<1>13. ReadsReady'
  BY <1>1, <1>7 DEF ReadsReady, Reading, clock
<1> QED BY <1>4, <1>7, <1>8, <1>9, <1>10, <1>11, <1>12, <1>13

-----------------------------------------------------------------------------
(* Every step keeps the invariant: close. *)

LEMMA CloseKeeps ==
  ASSUME PoolInv, Close
  PROVE  /\ PoolInv' /\ DOMAIN saves' = DOMAIN saves /\ Writing' = Writing
         /\ \A r \in Req : get'[r].state # "none" => get'[r] = get[r]
<1> USE DEF PoolInv
<1>1. /\ Idle /\ life' = "closing" /\ getLane' = << >>
      /\ saves' = [r \in DOMAIN saves |-> [saves[r] EXCEPT !.pending = << >>]]
      /\ get' = [r \in Req |-> IF get[r].state = "queued" THEN NoGet ELSE get[r]]
      /\ UNCHANGED <<put, putLane, owed, loads, invalid, written, lock, clock>>
  BY DEF Close
<1>2. lock = Free /\ \A y \in Req : lock # Waits("put", y) /\ lock # Waits("get", y)
  BY <1>1, NotWaiting DEF Idle
<1>3. /\ DOMAIN saves' = DOMAIN saves
      /\ \A r \in DOMAIN saves' : /\ saves'[r] \in SoundSave /\ saves'[r].pending = << >>
                                  /\ (saves'[r].running <=> saves[r].running)
  <2> SUFFICES ASSUME NEW r \in DOMAIN saves
               PROVE  /\ saves'[r] \in SoundSave /\ saves'[r].pending = << >>
                      /\ (saves'[r].running <=> saves[r].running)
    BY <1>1
  <2>1. saves[r] \in SoundSave /\ saves'[r] = [saves[r] EXCEPT !.pending = << >>]
    BY <1>1 DEF SavesInv, SavesTyped
  <2>2. saves'[r] = [running |-> saves[r].running, pending |-> << >>, failed |-> saves[r].failed]
    BY <2>1 DEF SoundSave
  <2>3. saves'[r] \in SoundSave
    BY <2>1, <2>2, EmptySeq DEF SoundSave
  <2> QED BY <2>2, <2>3
<1>4. /\ get' \in [Req -> GetJob]
      /\ \A r \in Req : get'[r] = IF get[r].state = "queued" THEN NoGet ELSE get[r]
  BY <1>1, NoGetTyped DEF LoadsInv, LoadsTyped
<1>5. QueuedPuts' = QueuedPuts /\ Reading' = Reading /\ Writing' = Writing
  BY <1>1, <1>4, NoGetTyped DEF QueuedPuts, Reading, Writing
<1>6. SavesInv'
  <2>1. SavesTyped'
    BY <1>1, <1>3 DEF SavesInv, SavesTyped
  <2>2. PutsHeld'
    <3> SUFFICES ASSUME NEW y \in Req, put'[y].state # "none"
                 PROVE  y \in DOMAIN saves' /\ saves'[y].running
      BY DEF PutsHeld
    <3>1. put[y].state # "none" /\ lock # Waits("put", y)
      BY <1>1, <1>2
    <3>2. y \in DOMAIN saves /\ saves[y].running
      BY <3>1 DEF SavesInv, PutsHeld
    <3> QED BY <1>3, <3>2
  <2>3. PutLaneInv'
    BY <1>1, <1>5 DEF SavesInv, PutLaneInv
  <2> QED BY <2>1, <2>2, <2>3 DEF SavesInv
<1>7. LoadsInv'
  <2>1. LoadsTyped'
    BY <1>1, <1>4 DEF LoadsInv, LoadsTyped
  <2>2. GetsHeld'
    BY <1>1, <1>4, NoGetTyped DEF LoadsInv, GetsHeld
  <2>3. GetLaneInv'
    BY <1>1, EmptySeq DEF GetLaneInv, Distinct
  <2> QED BY <2>1, <2>2, <2>3 DEF LoadsInv
<1>8. RestTyped'
  BY <1>1 DEF RestTyped, clock, LockKind
<1>9. Cancelled'
  BY <1>1, <1>2 DEF Cancelled
<1>10. Closing'
  BY <1>1, <1>2, <1>3 DEF Closing, Dropped
<1>11. ReadsReady'
  BY <1>1, <1>5 DEF ReadsReady, clock
<1> QED BY <1>3, <1>4, <1>5, <1>6, <1>7, <1>8, <1>9, <1>10, <1>11, NoGetTyped

LEMMA ShutPutsKeeps ==
  ASSUME PoolInv, ShutPuts
  PROVE  /\ PoolInv' /\ Reading' = Reading
         /\ \A r \in Req : put'[r].state = "none" <=> put[r].state = "none"
<1> USE DEF PoolInv
<1>1. /\ life = "closing" /\ Writing = {} /\ life' = "puts" /\ putLane' = << >>
      /\ put' = [r \in Req |-> IF put[r].state = "queued" THEN [put[r] EXCEPT !.state = "failed"]
                               ELSE put[r]]
      /\ UNCHANGED <<saves, owed, loadVars, lock, clock>>
  BY DEF ShutPuts
<1>2. ASSUME NEW r \in Req
      PROVE  /\ put'[r] \in SoundPut /\ put'[r].event = put[r].event
             /\ IF put[r].state = "queued" THEN put'[r].state = "failed" ELSE put'[r] = put[r]
  <2>1. put[r] \in SoundPut
    BY DEF SavesInv, SavesTyped
  <2> QED BY <1>1, <2>1 DEF SoundPut
<1>3. lock \in {Free, <<"reset">>} /\ getLane = << >> /\ Dropped(saves)
  BY <1>1 DEF Closing
<1>4. Reading' = Reading /\ \A r \in Req : put'[r].state = "none" <=> put[r].state = "none"
  BY <1>2 DEF Reading
<1>5. SavesInv'
  <2>1. SavesTyped'
    BY <1>1, <1>2 DEF SavesInv, SavesTyped
  <2>2. PutsHeld'
    BY <1>1, <1>4 DEF SavesInv, PutsHeld
  <2>3. PutLaneInv'
    BY <1>1, EmptySeq DEF PutLaneInv, Distinct
  <2> QED BY <2>1, <2>2, <2>3 DEF SavesInv
<1>6. LoadsInv' /\ Writing' = Writing
  BY <1>1, LoadsFrame DEF loadVars
<1>7. RestTyped'
  BY <1>1 DEF RestTyped, clock, LockKind
<1>8. Cancelled'
  <2>1. \A y \in Req : lock' # Waits("put", y) /\ lock' # Waits("get", y)
    BY <1>1, <1>3, NotWaiting
  <2> QED BY <2>1 DEF Cancelled
<1>9. Closing'
  BY <1>1, <1>3, <1>6 DEF Closing, Dropped, loadVars
<1>10. ReadsReady'
  BY <1>1, <1>2, <1>4 DEF ReadsReady, Reading, clock
<1> QED BY <1>4, <1>5, <1>6, <1>7, <1>8, <1>9, <1>10

LEMMA CloseStoreKeeps ==
  ASSUME PoolInv, CloseStore
  PROVE  /\ PoolInv' /\ DOMAIN saves' = {} /\ DOMAIN loads' = {}
         /\ Reading' = {} /\ Writing' = {} /\ Reading = {} /\ Writing = {}
         /\ \A r \in Req : put'[r].state = "none" /\ get'[r].state = "none"
<1> USE DEF PoolInv
<1>1. /\ life = "puts" /\ ~PutBusy /\ life' = "closed"
      /\ saves' = << >> /\ loads' = << >> /\ invalid' = << >>
      /\ put' = [r \in Req |-> NoPut] /\ get' = [r \in Req |-> NoGet]
      /\ owed' = [r \in Req |-> {}] /\ written' = [r \in Req |-> {}]
      /\ UNCHANGED <<putLane, getLane, lock, clock>>
  BY DEF CloseStore
<1>2. /\ lock \in {Free, <<"reset">>} /\ getLane = << >> /\ putLane = << >> /\ Writing = {}
  BY <1>1 DEF Closing
<1>3. Reading = {}
  BY <1>1 DEF Reading, PutBusy
<1>4. DOMAIN saves' = {} /\ DOMAIN loads' = {} /\ DOMAIN invalid' = {}
  BY <1>1
<1>5. /\ put' \in [Req -> SoundPut] /\ get' \in [Req -> GetJob]
      /\ \A r \in Req : put'[r].state = "none" /\ get'[r].state = "none"
  BY <1>1, NoPutSound, NoGetTyped
<1>6. Reading' = {} /\ Writing' = {}
  BY <1>5 DEF Reading, Writing
<1>7. SavesInv'
  <2>1. SavesTyped' /\ PutsHeld'
    BY <1>4, <1>5 DEF SavesTyped, PutsHeld
  <2>2. PutLaneInv'
    BY <1>1, <1>2, EmptySeq DEF PutLaneInv, Distinct
  <2> QED BY <2>1, <2>2 DEF SavesInv
<1>8. LoadsInv'
  <2>1. LoadsTyped' /\ GetsHeld'
    BY <1>1, <1>4, <1>5 DEF LoadsTyped, GetsHeld
  <2>2. GetLaneInv'
    BY <1>1, <1>2, EmptySeq DEF GetLaneInv, Distinct
  <2> QED BY <2>1, <2>2 DEF LoadsInv
<1>9. RestTyped'
  BY <1>1 DEF RestTyped, clock, LockKind
<1>10. Cancelled'
  BY <1>5 DEF Cancelled
<1>11. Closing'
  BY <1>1, <1>2, <1>4, <1>6 DEF Closing, Dropped
<1>12. ReadsReady'
  BY <1>6 DEF ReadsReady
<1> QED BY <1>2, <1>3, <1>4, <1>5, <1>6, <1>7, <1>8, <1>9, <1>10, <1>11, <1>12

-----------------------------------------------------------------------------
(* The theorems. *)

LEMMA PoolInitInv == PoolInit => PoolInv
<1> SUFFICES ASSUME PoolInit PROVE PoolInv
  OBVIOUS
<1>1. /\ DOMAIN saves = {} /\ DOMAIN loads = {} /\ DOMAIN invalid = {}
      /\ put \in [Req -> SoundPut] /\ get \in [Req -> GetJob]
      /\ \A r \in Req : put[r].state = "none" /\ get[r].state = "none"
  BY NoPutSound, NoGetTyped DEF PoolInit
<1>2. SavesInv
  <2>1. PutLaneInv
    BY EmptySeq DEF PoolInit, PutLaneInv, Distinct
  <2> QED BY <1>1, <2>1 DEF SavesInv, SavesTyped, PutsHeld
<1>3. LoadsInv
  <2>1. GetLaneInv
    BY EmptySeq DEF PoolInit, GetLaneInv, Distinct
  <2> QED BY <1>1, <2>1 DEF PoolInit, LoadsInv, LoadsTyped, GetsHeld
<1>4. RestTyped
  BY PoolAssumption DEF PoolInit, RestTyped, LockKind
<1>5. Cancelled /\ Closing /\ ReadsReady
  BY <1>1 DEF PoolInit, Cancelled, Closing, ReadsReady, Reading
<1> QED BY <1>2, <1>3, <1>4, <1>5 DEF PoolInv

LEMMA PoolStutterInv ==
  ASSUME PoolInv, UNCHANGED poolVars
  PROVE  PoolInv'
<1> USE DEF PoolInv, poolVars, saveVars, loadVars
<1>1. SavesInv' /\ Reading' = Reading
  BY SavesFrame
<1>2. LoadsInv' /\ Writing' = Writing
  BY LoadsFrame
<1>3. RestTyped'
  BY DEF RestTyped, clock, LockKind
<1>4. Cancelled'
  BY DEF Cancelled
<1>5. Closing'
  BY <1>2 DEF Closing, Dropped
<1>6. ReadsReady'
  BY <1>1 DEF ReadsReady, clock
<1> QED BY <1>1, <1>2, <1>3, <1>4, <1>5, <1>6

LEMMA PoolNextInv ==
  ASSUME PoolInv, [PoolNext]_poolVars
  PROVE  PoolInv'
<1>1. CASE WorkerCall
  <2>1. ASSUME NEW r \in Req, NEW range \in LoadRange, Load(r, range) PROVE PoolInv'
    <3>1. range \in TokenRange
      BY PoolAssumption
    <3> QED BY <2>1, <3>1, LoadKeeps
  <2>2. ASSUME NEW r \in Req, NEW x \in SaveInput, Save(r, x[1], x[2]) PROVE PoolInv'
    <3>1. x[1] \in SaveRange /\ x[2] \in Line
      BY PoolAssumption
    <3> QED BY <2>2, <3>1, SaveKeeps
  <2>3. ASSUME PollAny PROVE PoolInv'
    BY <2>3, PollKeeps DEF PollAny
  <2> QED BY <1>1, <2>1, <2>2, <2>3, TakeErrorsKeeps, CloseKeeps, PreemptKeeps DEF WorkerCall
<1>2. CASE ResetBegin
  BY <1>2, ResetKeeps
<1>3. CASE LockHolder
  BY <1>3, ResetKeeps, FenceLoadsKeeps, PreemptReturnKeeps, ResetAdvanceKeeps DEF LockHolder
<1>4. CASE Closer
  BY <1>4, ShutPutsKeeps, CloseStoreKeeps DEF Closer
<1>5. CASE PutWorker
  <2>1. ASSUME NEW r \in Req, PutStep(r) PROVE PoolInv'
    BY <2>1, PutReadKeeps, PutEndsKeeps DEF PutStep, PutSkip, PutReturn
  <2> QED BY <1>5, <2>1, StartPutKeeps DEF PutWorker
<1>6. CASE StartGet
  BY <1>6, StartGetKeeps
<1>7. ASSUME NEW r \in Req, GetStep(r) PROVE PoolInv'
  BY <1>7, GetReturnKeeps DEF GetStep
<1>8. ASSUME NEW s \in Signal, Fire(s) PROVE PoolInv'
  BY <1>8, FireKeeps
<1>9. CASE UNCHANGED poolVars
  BY <1>9, PoolStutterInv
<1> QED BY <1>1, <1>2, <1>3, <1>4, <1>5, <1>6, <1>7, <1>8, <1>9 DEF PoolNext

\* The inductive invariant: a PUT or a GET under way is known to the dictionaries
\* or waited for by preempt(), a lane holds what is queued, each once, and what a
\* PUT reads has been completed by the device.
THEOREM PoolInvariant == PoolSpec => []PoolInv
<1>1. PoolInit => PoolInv
  BY PoolInitInv
<1>2. PoolInv /\ [PoolNext]_poolVars => PoolInv'
  BY PoolNextInv
<1> QED BY <1>1, <1>2, PTL DEF PoolSpec

\* The bookkeeping of the pool is well formed in every reachable state.
THEOREM PoolTypes == PoolSpec => []PoolTypeOK
<1>1. PoolInv => PoolTypeOK
  BY PoolInvTypes
<1> QED BY <1>1, PoolInvariant, PTL

\* A PUT reads the blocks of the saves merged into it (_merge) only when the
\* device has completed every one of them.
THEOREM PutsReadReadyBlocks == PoolSpec => []ReadsReadyBlocks
<1>1. PoolInv => ReadsReadyBlocks
  <2> SUFFICES ASSUME PoolInv, NEW r \in Req, put[r].state = "reading",
                      NEW p \in put[r].event.parts
               PROVE  p.sig \in fired
    BY DEF ReadsReadyBlocks
  <2>1. put[r].event \in SoundEvent
    BY DEF PoolInv, SavesInv, SavesTyped, SoundPut
  <2>2. p.sig \in put[r].event.sigs
    BY <2>1 DEF SoundEvent, Sound
  <2>3. put[r].event.sigs \subseteq fired
    BY DEF PoolInv, ReadsReady, Reading
  <2> QED BY <2>2, <2>3
<1> QED BY <1>1, PoolInvariant, PTL

\* However often saves are merged, an event selects the chunks of the saves it
\* stands for and no other, all on one version of the prompt.
THEOREM MergesAreExact == PoolSpec => []MergesExactly
<1>1. PoolInv => MergesExactly
  <2> SUFFICES ASSUME PoolInv, NEW r \in Req, NEW e \in Held(r) PROVE Sound(e)
    BY DEF MergesExactly, Sound
  <2>1. CASE e = put[r].event
    BY <2>1 DEF PoolInv, SavesInv, SavesTyped, SoundPut, SoundEvent
  <2>2. CASE r \in DOMAIN saves /\ e \in Range(saves[r].pending)
    <3>1. saves[r].pending \in Seq(SoundEvent)
      BY <2>2 DEF PoolInv, SavesInv, SavesTyped, SoundSave
    <3>2. e \in SoundEvent
      BY <2>2, <3>1, LenProperties, ElementOfSeq DEF Range
    <3> QED BY <3>2 DEF SoundEvent
  <2> QED BY <2>1, <2>2 DEF Held
<1> QED BY <1>1, PoolInvariant, PTL

-----------------------------------------------------------------------------
(***************************************************************************)
(* The pool implements StoreLease.  A request's saves are out while they   *)
(* are in _save_states or preempt() waits for their PUT; loads likewise.   *)
(***************************************************************************)
SavesOut == DOMAIN saves \cup {x \in Req : lock = Waits("put", x) /\ put[x].state # "none"}
LoadsOut == DOMAIN loads \cup {x \in Req : lock = Waits("get", x) /\ get[x].state # "none"}

LEMMA LentAndIO ==
  /\ Lent = ({"save"} \X SavesOut) \cup ({"load"} \X LoadsOut)
  /\ StoreIO = ({"save"} \X Reading) \cup ({"load"} \X Writing)
  /\ Lent' = ({"save"} \X SavesOut') \cup ({"load"} \X LoadsOut')
  /\ StoreIO' = ({"save"} \X Reading') \cup ({"load"} \X Writing')
<1>1. /\ Lent = ({"save"} \X SavesOut) \cup ({"load"} \X LoadsOut)
      /\ Lent' = ({"save"} \X SavesOut') \cup ({"load"} \X LoadsOut')
  BY DEF Lent, SavesOut, LoadsOut
<1>2. /\ StoreIO = ({"save"} \X Reading) \cup ({"load"} \X Writing)
      /\ StoreIO' = ({"save"} \X Reading') \cup ({"load"} \X Writing')
  BY DEF StoreIO, Reading
<1> QED BY <1>1, <1>2

\* A Store call only works for what is out.
LEMMA IOIsOut ==
  ASSUME PoolInv
  PROVE  /\ Reading \subseteq SavesOut /\ Writing \subseteq LoadsOut
         /\ SavesOut \subseteq Req /\ LoadsOut \subseteq Req
BY DEF PoolInv, SavesInv, LoadsInv, SavesTyped, LoadsTyped, PutsHeld, GetsHeld,
       SavesOut, LoadsOut, Reading, Writing

\* The kinds of steps.
LEMMA Lends ==
  ASSUME NEW x \in {"save", "load"} \X Req, Lent' = Lent \cup {x}, StoreIO' = StoreIO
  PROVE  [Lease!Next]_(Lease!leaseVars)
BY DEF Lease!Next, Lease!Lend, Lease!leaseVars

LEMMA Begins ==
  ASSUME NEW x \in {"save", "load"} \X Req, x \in Lent \ StoreIO,
         StoreIO' = StoreIO \cup {x}, Lent' = Lent
  PROVE  [Lease!Next]_(Lease!leaseVars)
BY DEF Lease!Next, Lease!Begin, Lease!leaseVars

LEMMA Ends ==
  ASSUME NEW x \in {"save", "load"} \X Req, x \in StoreIO, StoreIO' = StoreIO \ {x}, Lent' = Lent
  PROVE  [Lease!Next]_(Lease!leaseVars)
BY DEF Lease!Next, Lease!End, Lease!leaseVars

LEMMA ComesBack ==
  ASSUME PoolInv, PoolInv', SavesOut' \subseteq SavesOut, LoadsOut' \subseteq LoadsOut,
         Reading' = Reading, Writing' = Writing
  PROVE  [Lease!Next]_(Lease!leaseVars)
<1> DEFINE back == Lent \ Lent'
<1>1. StoreIO' = StoreIO /\ Lent' \subseteq Lent
  BY LentAndIO
<1>2. Reading' \subseteq SavesOut' /\ Writing' \subseteq LoadsOut'
  BY DEF PoolInv, SavesInv, LoadsInv, SavesTyped, LoadsTyped, PutsHeld, GetsHeld,
         SavesOut, LoadsOut, Reading, Writing
<1>3. StoreIO \subseteq Lent'
  BY <1>2, LentAndIO
<1>4. Lent \subseteq {"save", "load"} \X Req
  BY IOIsOut, LentAndIO
<1>5. back \subseteq Lent \ StoreIO /\ Lent' = Lent \ back /\ back \in SUBSET ({"save", "load"} \X Req)
  BY <1>1, <1>3, <1>4
<1>6. Lease!TakeBack(back)
  BY <1>1, <1>5 DEF Lease!TakeBack
<1> QED BY <1>5, <1>6 DEF Lease!Next

\* What a step that leaves a side alone does to it.
LEMMA SavesOutSame ==
  ASSUME UNCHANGED <<saves, put>>, lock' = lock \/ \A r \in Req : /\ lock # Waits("put", r)
                                                                  /\ lock' # Waits("put", r)
  PROVE  SavesOut' = SavesOut /\ Reading' = Reading
BY DEF SavesOut, Reading

LEMMA LoadsOutSame ==
  ASSUME UNCHANGED <<loads, get>>, lock' = lock \/ \A r \in Req : /\ lock # Waits("get", r)
                                                                  /\ lock' # Waits("get", r)
  PROVE  LoadsOut' = LoadsOut /\ Writing' = Writing
BY DEF LoadsOut, Writing

\* Each call of the worker is a step of the lease.
LEMMA WorkerCallLeases ==
  ASSUME PoolInv, PoolInv', WorkerCall
  PROVE  [Lease!Next]_(Lease!leaseVars)
<1>1. ASSUME NEW r \in Req, NEW range \in LoadRange, Load(r, range)
      PROVE  [Lease!Next]_(Lease!leaseVars)
  <2>1. DOMAIN loads' = DOMAIN loads \cup {r} /\ Reading' = Reading /\ Writing' = Writing
    <3>1. range \in TokenRange
      BY PoolAssumption
    <3> QED BY <1>1, <3>1, LoadKeeps
  <2>2. lock = Free /\ UNCHANGED <<saves, put, lock>>
    BY <1>1 DEF Load, Idle, saveVars
  <2>3. \A y \in Req : lock # Waits("get", y) /\ lock' # Waits("get", y)
    BY <2>2, NotWaiting
  <2>4. LoadsOut' = LoadsOut \cup {r}
    BY <2>1, <2>3 DEF LoadsOut
  <2>5. SavesOut' = SavesOut
    BY <2>2, SavesOutSame
  <2>6. Lent' = Lent \cup {<<"load", r>>} /\ StoreIO' = StoreIO
    BY <2>1, <2>4, <2>5, LentAndIO
  <2> QED BY <2>6, Lends
<1>2. ASSUME NEW r \in Req, NEW x \in SaveInput, Save(r, x[1], x[2])
      PROVE  [Lease!Next]_(Lease!leaseVars)
  <2>1. /\ DOMAIN saves' = DOMAIN saves \cup {r}
        /\ \A y \in Req : put[y].state = "reading" \/ put'[y].state = "reading" => put'[y] = put[y]
    <3>1. x[1] \in SaveRange /\ x[2] \in Line
      BY PoolAssumption
    <3> QED BY <1>2, <3>1, SaveKeeps
  <2>2. lock = Free /\ UNCHANGED <<loads, get, lock>>
    BY <1>2 DEF Save, Idle, loadVars
  <2>3. \A y \in Req : lock # Waits("put", y) /\ lock' # Waits("put", y)
    BY <2>2, NotWaiting
  <2>4. SavesOut' = SavesOut \cup {r} /\ Reading' = Reading
    BY <2>1, <2>3 DEF SavesOut, Reading
  <2>5. LoadsOut' = LoadsOut /\ Writing' = Writing
    BY <2>2, LoadsOutSame
  <2>6. Lent' = Lent \cup {<<"save", r>>} /\ StoreIO' = StoreIO
    BY <2>4, <2>5, LentAndIO
  <2> QED BY <2>6, Lends
<1>3. ASSUME NEW late, Poll(late)
      PROVE  [Lease!Next]_(Lease!leaseVars)
  <2> DEFINE got  == {r \in DOMAIN loads : get[r].state = "done"}
             over == {r \in DOMAIN saves : SavesOver(r)}
  <2>1. /\ DOMAIN saves' = DOMAIN saves \ over /\ DOMAIN loads' = DOMAIN loads \ got
        /\ \A r \in Req : put[r].state = "reading" \/ put'[r].state = "reading" => put'[r] = put[r]
        /\ \A r \in Req : IF r \in got THEN get'[r].state = "none" ELSE get'[r] = get[r]
    BY <1>3, PollSteps
  <2>2. \A r \in got : get[r].state = "done"
    OBVIOUS
  <2> HIDE DEF got, over
  <2>3. lock = Free /\ lock' = lock
    BY <1>3 DEF Poll, Idle
  <2>4. \A y \in Req : /\ lock' # Waits("put", y) /\ lock' # Waits("get", y)
    BY <2>3, NotWaiting
  <2>5. SavesOut' \subseteq SavesOut /\ Reading' = Reading
    BY <2>1, <2>4 DEF SavesOut, Reading
  <2>6. LoadsOut' \subseteq LoadsOut /\ Writing' = Writing
    BY <2>1, <2>2, <2>4 DEF LoadsOut, Writing
  <2> QED BY <2>5, <2>6, ComesBack
<1>4. CASE TakeErrors
  <2>1. UNCHANGED <<saves, put, loads, get, lock>>
    BY <1>4 DEF TakeErrors, saveVars
  <2> QED BY <2>1, SavesOutSame, LoadsOutSame, ComesBack
<1>5. CASE Close
  <2>1. DOMAIN saves' = DOMAIN saves /\ Writing' = Writing /\ UNCHANGED <<put, loads>>
        /\ lock = Free /\ lock' = lock
    BY <1>5, CloseKeeps DEF Close, Idle
  <2>2. \A y \in Req : /\ lock' # Waits("put", y) /\ lock' # Waits("get", y)
    BY <2>1, NotWaiting
  <2>3. SavesOut' \subseteq SavesOut /\ LoadsOut' \subseteq LoadsOut /\ Reading' = Reading
    BY <2>1, <2>2 DEF SavesOut, LoadsOut, Reading
  <2> QED BY <2>1, <2>3, ComesBack
<1>6. ASSUME NEW r \in Req, Preempt(r)
      PROVE  [Lease!Next]_(Lease!leaseVars)
  <2>1. /\ DOMAIN saves' = DOMAIN saves \ {r}
        /\ put'[r].state = "none" \/ put'[r] = put[r]
        /\ \A y \in Req : y # r => put'[y] = put[y]
    BY <1>6, PreemptKeeps
  <2>2. lock = Free /\ lock' = Waits("put", r) /\ UNCHANGED <<loads, get>>
    BY <1>6 DEF Preempt, Idle, loadVars
  <2>3. put[r].state = "none" \/ r \in DOMAIN saves
    BY <2>2, NotWaiting DEF PoolInv, SavesInv, PutsHeld
  <2>4. \A y \in Req : /\ lock # Waits("get", y) /\ lock' # Waits("get", y)
                       /\ y # r => lock' # Waits("put", y)
    BY <2>2, NotWaiting, Locks
  <2>5. SavesOut' \subseteq SavesOut
    BY <2>1, <2>3, <2>4 DEF SavesOut
  <2>6. Reading' = Reading
    <3>1. put[r].state = "reading" => put'[r] = put[r]
      BY <1>6, NoPutSound DEF Preempt, PoolInv, SavesInv, SavesTyped
    <3> QED BY <2>1, <3>1 DEF Reading
  <2>7. LoadsOut' = LoadsOut /\ Writing' = Writing
    BY <2>2, <2>4, LoadsOutSame
  <2> QED BY <2>5, <2>6, <2>7, ComesBack
<1> QED BY <1>1, <1>2, <1>3, <1>4, <1>5, <1>6 DEF WorkerCall, PollAny

\* So is each step of whoever waits.
LEMMA WaitersLease ==
  ASSUME PoolInv, PoolInv', ResetBegin \/ LockHolder \/ Closer
  PROVE  [Lease!Next]_(Lease!leaseVars)
<1>1. CASE ResetBegin \/ ResetEnd
  <2>1. /\ lock \in {Free, <<"reset">>} /\ lock' \in {Free, <<"reset">>}
        /\ UNCHANGED <<saves, put, loads, get>>
    BY <1>1 DEF ResetBegin, ResetEnd, saveVars, loadVars
  <2>2. \A r \in Req : /\ lock # Waits("put", r) /\ lock' # Waits("put", r)
                       /\ lock # Waits("get", r) /\ lock' # Waits("get", r)
    BY <2>1, Locks
  <2> QED BY <2>1, <2>2, SavesOutSame, LoadsOutSame, ComesBack
<1>2. ASSUME NEW r \in Req, ResetAdvance(r)
      PROVE  [Lease!Next]_(Lease!leaseVars)
  <2>1. /\ DOMAIN saves' = DOMAIN saves
        /\ \A y \in Req : put[y].state = "reading" \/ put'[y].state = "reading" => put'[y] = put[y]
    BY <1>2, ResetAdvanceKeeps
  <2>2. lock = <<"reset">> /\ lock' = lock /\ UNCHANGED <<loads, get>>
    BY <1>2 DEF ResetAdvance, loadVars
  <2>3. \A y \in Req : lock' # Waits("put", y)
    BY <2>2, NotWaiting
  <2>4. SavesOut' \subseteq SavesOut /\ Reading' = Reading
    BY <2>1, <2>3 DEF SavesOut, Reading
  <2> QED BY <2>2, <2>4, LoadsOutSame, ComesBack
<1>3. ASSUME NEW r \in Req, FenceLoads(r)
      PROVE  [Lease!Next]_(Lease!leaseVars)
  <2>1. /\ DOMAIN loads' = DOMAIN loads \ {r}
        /\ put'[r].state = "none" /\ \A y \in Req : y # r => put'[y] = put[y]
        /\ get'[r].state = "none" \/ get'[r] = get[r]
        /\ \A y \in Req : y # r => get'[y] = get[y]
    BY <1>3, FenceLoadsKeeps
  <2>2. /\ lock = Waits("put", r) /\ lock' = Waits("get", r)
        /\ put[r].state \notin {"checking", "reading"} /\ saves' = saves
        /\ get[r].state = "writing" => get'[r] = get[r]
    BY <1>3 DEF FenceLoads, PoolInv, LoadsInv, LoadsTyped
  <2>3. \A y \in Req : /\ lock # Waits("get", y) /\ lock' # Waits("put", y)
                       /\ y # r => lock' # Waits("get", y)
    BY <2>2, Locks
  <2>4. SavesOut' \subseteq SavesOut /\ Reading' = Reading
    BY <2>1, <2>2, <2>3 DEF SavesOut, Reading
  <2>5. get[r].state = "none" \/ r \in DOMAIN loads
    BY <2>3 DEF PoolInv, LoadsInv, GetsHeld
  <2>6. LoadsOut' \subseteq LoadsOut /\ Writing' = Writing
    BY <2>1, <2>2, <2>3, <2>5 DEF LoadsOut, Writing
  <2> QED BY <2>4, <2>6, ComesBack
<1>4. ASSUME NEW r \in Req, PreemptReturn(r)
      PROVE  [Lease!Next]_(Lease!leaseVars)
  <2>1. get'[r].state = "none" /\ \A y \in Req : y # r => get'[y] = get[y]
    BY <1>4, PreemptReturnKeeps
  <2>2. /\ lock = Waits("get", r) /\ lock' = Free /\ get[r].state # "writing"
        /\ UNCHANGED <<saves, put, loads>>
    BY <1>4 DEF PreemptReturn, saveVars
  <2>3. \A y \in Req : /\ lock # Waits("put", y) /\ lock' # Waits("put", y)
                       /\ lock' # Waits("get", y)
    BY <2>2, Locks
  <2>4. LoadsOut' \subseteq LoadsOut /\ Writing' = Writing
    BY <2>1, <2>2, <2>3 DEF LoadsOut, Writing
  <2> QED BY <2>2, <2>3, <2>4, SavesOutSame, ComesBack
<1>5. CASE ShutPuts
  <2>1. Reading' = Reading /\ \A r \in Req : put'[r].state = "none" <=> put[r].state = "none"
    BY <1>5, ShutPutsKeeps
  <2>2. UNCHANGED <<saves, loads, get, lock>>
    BY <1>5 DEF ShutPuts, loadVars
  <2>3. SavesOut' = SavesOut
    BY <2>1, <2>2 DEF SavesOut
  <2> QED BY <2>1, <2>2, <2>3, LoadsOutSame, ComesBack
<1>6. CASE CloseStore
  <2>1. /\ DOMAIN saves' = {} /\ DOMAIN loads' = {}
        /\ Reading' = {} /\ Writing' = {} /\ Reading = {} /\ Writing = {}
        /\ \A r \in Req : put'[r].state = "none" /\ get'[r].state = "none"
    BY <1>6, CloseStoreKeeps
  <2>2. SavesOut' = {} /\ LoadsOut' = {}
    BY <2>1 DEF SavesOut, LoadsOut
  <2> QED BY <2>1, <2>2, ComesBack
<1> QED BY <1>1, <1>2, <1>3, <1>4, <1>5, <1>6 DEF LockHolder, Closer

\* And each step of the executors and the device.
LEMMA ExecutorsLease ==
  ASSUME PoolInv, PoolInv',
         PutWorker \/ StartGet \/ (\E r \in Req : GetStep(r)) \/ \E s \in Signal : Fire(s)
  PROVE  [Lease!Next]_(Lease!leaseVars)
<1>1. CASE StartPut
  <2>1. Reading' = Reading /\ \A y \in Req : put'[y].state = "none" <=> put[y].state = "none"
    BY <1>1, StartPutKeeps
  <2>2. UNCHANGED <<saves, loads, get, lock>>
    BY <1>1 DEF StartPut, loadVars
  <2>3. SavesOut' = SavesOut
    BY <2>1, <2>2 DEF SavesOut
  <2> QED BY <2>1, <2>2, <2>3, LoadsOutSame, ComesBack
<1>2. ASSUME NEW r \in Req, put[r].state \in {"checking", "reading"},
             NEW x \in {"reading", "ok", "failed"}, put' = [put EXCEPT ![r].state = x],
             UNCHANGED <<saves, loads, get, lock>>
      PROVE  /\ SavesOut' = SavesOut /\ LoadsOut' = LoadsOut /\ Writing' = Writing
             /\ Reading' = IF x = "reading" THEN Reading \cup {r} ELSE Reading \ {r}
  <2>1. put'[r].state = x /\ \A y \in Req : y # r => put'[y] = put[y]
    BY <1>2, PutStateChange DEF PoolInv, SavesInv, SavesTyped
  <2>2. SavesOut' = SavesOut
    BY <1>2, <2>1 DEF SavesOut
  <2>3. Reading' = IF x = "reading" THEN Reading \cup {r} ELSE Reading \ {r}
    BY <2>1 DEF Reading
  <2> QED BY <1>2, <2>2, <2>3, LoadsOutSame
<1>3. ASSUME NEW r \in Req, PutRead(r)
      PROVE  [Lease!Next]_(Lease!leaseVars)
  <2>1. /\ SavesOut' = SavesOut /\ LoadsOut' = LoadsOut /\ Writing' = Writing
        /\ Reading' = Reading \cup {r}
    BY <1>2, <1>3 DEF PutRead, loadVars
  <2>2. r \in SavesOut \ Reading
    <3>1. put[r].state = "checking"
      BY <1>3 DEF PutRead
    <3> QED BY <3>1 DEF PoolInv, SavesInv, PutsHeld, SavesOut, Reading
  <2>3. <<"save", r>> \in Lent \ StoreIO /\ StoreIO' = StoreIO \cup {<<"save", r>>} /\ Lent' = Lent
    BY <2>1, <2>2, LentAndIO
  <2> QED BY <2>3, Begins
<1>4. ASSUME NEW r \in Req, NEW state \in {"ok", "failed"}, PutSkip(r, state)
      PROVE  [Lease!Next]_(Lease!leaseVars)
  <2>1. put[r].state = "checking"
    BY <1>4 DEF PutSkip
  <2>2. /\ SavesOut' = SavesOut /\ LoadsOut' = LoadsOut /\ Writing' = Writing
        /\ Reading' = Reading \ {r}
    BY <1>2, <1>4, <2>1 DEF PutSkip, PutEnds, loadVars
  <2>3. Reading' = Reading
    BY <2>1, <2>2 DEF Reading
  <2> QED BY <2>2, <2>3, ComesBack
<1>5. ASSUME NEW r \in Req, NEW state \in {"ok", "failed"}, PutReturn(r, state)
      PROVE  [Lease!Next]_(Lease!leaseVars)
  <2>1. put[r].state = "reading" /\ r \in Reading
    BY <1>5 DEF PutReturn, Reading
  <2>2. /\ SavesOut' = SavesOut /\ LoadsOut' = LoadsOut /\ Writing' = Writing
        /\ Reading' = Reading \ {r}
    BY <1>2, <1>5, <2>1 DEF PutReturn, PutEnds, loadVars
  <2>3. <<"save", r>> \in StoreIO /\ StoreIO' = StoreIO \ {<<"save", r>>} /\ Lent' = Lent
    BY <2>1, <2>2, LentAndIO
  <2> QED BY <2>3, Ends
<1>6. CASE StartGet
  <2>1. PICK r \in Req : /\ get[r].state = "queued" /\ get'[r].state = "writing"
                         /\ \A y \in Req : y # r => get'[y] = get[y]
    BY <1>6, StartGetKeeps
  <2>2. UNCHANGED <<saves, put, loads, lock>>
    BY <1>6 DEF StartGet, saveVars
  <2>3. r \in LoadsOut \ Writing /\ LoadsOut' = LoadsOut /\ Writing' = Writing \cup {r}
    BY <2>1, <2>2 DEF PoolInv, LoadsInv, GetsHeld, LoadsOut, Writing
  <2>4. SavesOut' = SavesOut /\ Reading' = Reading
    BY <2>2, SavesOutSame
  <2>5. <<"load", r>> \in Lent \ StoreIO /\ StoreIO' = StoreIO \cup {<<"load", r>>} /\ Lent' = Lent
    BY <2>3, <2>4, LentAndIO
  <2> QED BY <2>5, Begins
<1>7. ASSUME NEW r \in Req, GetStep(r)
      PROVE  [Lease!Next]_(Lease!leaseVars)
  <2>1. PICK bad \in SUBSET RangeBlocks(get[r].from, get[r].to) : GetReturn(r, bad)
    BY <1>7 DEF GetStep
  <2>2. get'[r].state = "done" /\ \A y \in Req : y # r => get'[y] = get[y]
    BY <2>1, GetReturnKeeps
  <2>3. get[r].state = "writing" /\ UNCHANGED <<saves, put, loads, lock>>
    BY <2>1 DEF GetReturn, saveVars
  <2>4. r \in Writing /\ LoadsOut' = LoadsOut /\ Writing' = Writing \ {r}
    BY <2>2, <2>3 DEF LoadsOut, Writing
  <2>5. SavesOut' = SavesOut /\ Reading' = Reading
    BY <2>3, SavesOutSame
  <2>6. <<"load", r>> \in StoreIO /\ StoreIO' = StoreIO \ {<<"load", r>>} /\ Lent' = Lent
    BY <2>4, <2>5, LentAndIO
  <2> QED BY <2>6, Ends
<1>8. ASSUME NEW s \in Signal, Fire(s)
      PROVE  [Lease!Next]_(Lease!leaseVars)
  <2>1. UNCHANGED <<saves, put, loads, get, lock>>
    BY <1>8 DEF Fire, saveVars, loadVars
  <2> QED BY <2>1, SavesOutSame, LoadsOutSame, ComesBack
<1> QED BY <1>1, <1>3, <1>4, <1>5, <1>6, <1>7, <1>8 DEF PutWorker, PutStep

(***************************************************************************)
(* The pool keeps the lending contract: PUT reads and GET writes touch only *)
(* what is on loan, and poll, preempt() and close() give nothing back under *)
(* a running Store call.                                                    *)
(***************************************************************************)
THEOREM PoolKeepsLease == PoolSpec => KeepsLease
<1>1. PoolInit => Lease!Init
  BY NoPutSound, NoGetTyped DEF PoolInit, Lease!Init, Lent, StoreIO, Writing
<1>2. ASSUME PoolInv, PoolInv', [PoolNext]_poolVars
      PROVE  [Lease!Next]_(Lease!leaseVars)
  <2>1. CASE UNCHANGED poolVars
    <3>1. UNCHANGED <<saves, put, loads, get, lock>>
      BY <2>1 DEF poolVars, saveVars, loadVars
    <3> QED BY <1>2, <3>1, SavesOutSame, LoadsOutSame, ComesBack
  <2>2. CASE PoolNext
    BY <1>2, <2>2, WorkerCallLeases, WaitersLease, ExecutorsLease DEF PoolNext
  <2> QED BY <1>2, <2>1, <2>2
<1> QED BY <1>1, <1>2, PoolInvariant, PTL DEF PoolSpec, KeepsLease, Lease!Spec

-----------------------------------------------------------------------------
(***************************************************************************)
(* What the results of the pool are worth: a SaveResult without error      *)
(* means that everything accepted is stored, and a LoadResult offers only  *)
(* bytes that were written.  The invariant above says who holds what; here *)
(* it is joined by an account of the blocks.                               *)
(***************************************************************************)

-----------------------------------------------------------------------------
(* The work of a request's saves. *)

\* The blocks of the pending events of a list, and of a PUT under way.
BlocksOf(pending) == UNION {Chunks(e) : e \in Range(pending)}
UnderWay(p) == IF p.state \in {"none", "ok", "failed"} THEN {} ELSE Chunks(p.event)

LEMMA InWorkIs ==
  ASSUME NEW r
  PROVE  /\ InWork(r) = BlocksOf(saves[r].pending) \cup UnderWay(put[r])
         /\ InWork(r)' = BlocksOf(saves'[r].pending) \cup UnderWay(put'[r])
BY DEF InWork, BlocksOf, UnderWay, Ended

LEMMA BlocksOfEmpty == BlocksOf(<< >>) = {}
BY DEF BlocksOf, Range

\* Submitting the first event of a list moves its blocks.
LEMMA BlocksOfHead ==
  ASSUME NEW pending \in Seq(SoundEvent), pending # << >>
  PROVE  BlocksOf(pending) = Chunks(Head(pending)) \cup BlocksOf(Tail(pending))
<1>1. /\ Len(pending) \in Nat \ {0} /\ DOMAIN pending = 1 .. Len(pending)
      /\ Head(pending) = pending[1] /\ Tail(pending) \in Seq(SoundEvent)
      /\ Len(Tail(pending)) = Len(pending) - 1
      /\ \A i \in 1 .. Len(Tail(pending)) : Tail(pending)[i] = pending[i + 1]
  BY HeadTailProperties, EmptySeq, LenProperties
<1>2. DOMAIN Tail(pending) = 1 .. Len(pending) - 1
  BY <1>1, LenProperties
<1>3. Range(pending) = {Head(pending)} \cup Range(Tail(pending))
  <2>1. \A i \in 2 .. Len(pending) : pending[i] = Tail(pending)[i - 1]
    BY <1>1
  <2>2. \A i \in 1 .. Len(pending) : pending[i] \in {Head(pending)} \cup Range(Tail(pending))
    <3> SUFFICES ASSUME NEW i \in 1 .. Len(pending), i # 1
                 PROVE  pending[i] \in Range(Tail(pending))
      BY <1>1
    <3>1. i - 1 \in DOMAIN Tail(pending) /\ pending[i] = Tail(pending)[i - 1]
      BY <1>1, <1>2, <2>1
    <3> QED BY <3>1 DEF Range
  <2>3. \A i \in 1 .. Len(pending) - 1 : Tail(pending)[i] \in Range(pending)
    BY <1>1 DEF Range
  <2>4. Head(pending) \in Range(pending)
    BY <1>1 DEF Range
  <2> QED BY <1>1, <1>2, <2>2, <2>3, <2>4 DEF Range
<1> QED BY <1>3 DEF BlocksOf

\* One more event adds its blocks.
LEMMA BlocksOfMore ==
  ASSUME NEW S, NEW pending \in Seq(S), NEW more \in Seq(S)
  PROVE  BlocksOf(pending \o more) = BlocksOf(pending) \cup BlocksOf(more)
<1>1. Range(pending \o more) = Range(pending) \cup Range(more)
  BY RangeConcatenation
<1> QED BY <1>1 DEF BlocksOf

LEMMA BlocksOfOne ==
  ASSUME NEW e
  PROVE  BlocksOf(<<e>>) = Chunks(e)
<1>1. Range(<<e>>) = {e}
  BY DEF Range
<1> QED BY <1>1 DEF BlocksOf

\* Merging keeps the blocks of both.
LEMMA MergedBlocks ==
  ASSUME NEW old \in SoundEvent, NEW new \in SoundEvent, CanMerge(old, new)
  PROVE  Chunks(Merged(old, new)) = Chunks(old) \cup Chunks(new)
<1> DEFINE m == Merged(old, new)
<1>1. m.parts = old.parts \cup new.parts
  BY DEF Merged, SoundEvent, Event
<1>2. Sound(m) /\ Sound(old) /\ Sound(new)
  BY MergedSound DEF SoundEvent
<1> HIDE DEF m
<1>3. (UNION {Chunks(p) : p \in m.parts}) =
        (UNION {Chunks(p) : p \in old.parts}) \cup (UNION {Chunks(p) : p \in new.parts})
  BY <1>1
<1> QED BY <1>2, <1>3 DEF Sound, m

LEMMA WithPendingBlocks ==
  ASSUME NEW pending \in Seq(SoundEvent), NEW e \in SoundEvent
  PROVE  BlocksOf(WithPending(pending, e)) = BlocksOf(pending) \cup Chunks(e)
<1>1. CASE pending # << >> /\ CanMerge(Last(pending), e)
  <2> DEFINE n    == Len(pending)
             last == Last(pending)
             m    == Merged(last, e)
             head == Front(pending)
  <2>1. n \in Nat \ {0} /\ last \in SoundEvent /\ last = pending[n]
    BY <1>1, EmptySeq, ElementOfSeq DEF Last
  <2>2. head \in Seq(SoundEvent) /\ Len(head) = n - 1
        /\ \A i \in 1 .. n - 1 : head[i] = pending[i]
    <3>1. \A i \in 1 .. n - 1 : pending[i] \in SoundEvent
      BY <2>1, ElementOfSeq
    <3> HIDE DEF n, last
    <3>2. head = SubSeq(pending, 1, n - 1)
      BY DEF Front, n
    <3>3. n - 1 \in Int /\ (IF 1 <= n - 1 THEN (n - 1) - 1 + 1 ELSE 0) = n - 1
      BY <2>1
    <3> HIDE DEF head
    <3> QED BY <2>1, <3>1, <3>2, <3>3, SubSeqProperties
  <2>3. m \in SoundEvent /\ Chunks(m) = Chunks(last) \cup Chunks(e)
    BY <1>1, <2>1, MergedSound, MergedBlocks
  <2>4. WithPending(pending, e) = head \o <<m>>
    BY <1>1 DEF WithPending
  <2> HIDE DEF head, m, last, n
  <2>5. <<m>> \in Seq(SoundEvent) /\ <<last>> \in Seq(SoundEvent)
    BY <2>1, <2>3
  <2>6. pending = head \o <<last>>
    <3>1. /\ head \o <<last>> \in Seq(SoundEvent) /\ Len(head \o <<last>>) = n
          /\ \A i \in 1 .. n : (head \o <<last>>)[i] =
               IF i <= n - 1 THEN head[i] ELSE <<last>>[i - (n - 1)]
      <4>1. Len(<<last>>) = 1
        OBVIOUS
      <4>2. /\ head \o <<last>> \in Seq(SoundEvent)
            /\ Len(head \o <<last>>) = Len(head) + Len(<<last>>)
            /\ \A i \in 1 .. Len(head) + Len(<<last>>) : (head \o <<last>>)[i] =
                 IF i <= Len(head) THEN head[i] ELSE <<last>>[i - Len(head)]
        BY <2>2, <2>5, ConcatProperties
      <4>3. Len(head) + Len(<<last>>) = n
        BY <2>1, <2>2, <4>1
      <4> QED BY <2>2, <4>2, <4>3
    <3>2. \A i \in 1 .. n : (head \o <<last>>)[i] = pending[i]
      <4> SUFFICES ASSUME NEW i \in 1 .. n PROVE (head \o <<last>>)[i] = pending[i]
        OBVIOUS
      <4>1. CASE i <= n - 1
        BY <2>1, <2>2, <3>1, <4>1
      <4>2. CASE i = n
        <5>1. <<last>>[i - (n - 1)] = last
          BY <2>1, <4>2
        <5>2. ~(i <= n - 1)
          BY <2>1, <4>2
        <5>3. (head \o <<last>>)[i] = <<last>>[i - (n - 1)]
          BY <3>1, <5>2
        <5> QED BY <2>1, <4>2, <5>1, <5>3
      <4>3. i <= n - 1 \/ i = n
        BY <2>1
      <4> QED BY <4>1, <4>2, <4>3
    <3> QED BY <3>1, <3>2, SeqEqual DEF n
  <2>7. /\ BlocksOf(head \o <<m>>) = BlocksOf(head) \cup Chunks(m)
        /\ BlocksOf(pending) = BlocksOf(head) \cup Chunks(last)
    <3>1. /\ BlocksOf(head \o <<m>>) = BlocksOf(head) \cup BlocksOf(<<m>>)
          /\ BlocksOf(head \o <<last>>) = BlocksOf(head) \cup BlocksOf(<<last>>)
      <4>1. BlocksOf(head \o <<m>>) = BlocksOf(head) \cup BlocksOf(<<m>>)
        BY <2>2, <2>5, BlocksOfMore, Zenon
      <4>2. BlocksOf(head \o <<last>>) = BlocksOf(head) \cup BlocksOf(<<last>>)
        BY <2>2, <2>5, BlocksOfMore, Zenon
      <4> QED BY <4>1, <4>2
    <3>2. BlocksOf(<<m>>) = Chunks(m) /\ BlocksOf(<<last>>) = Chunks(last)
      BY BlocksOfOne
    <3> QED BY <2>6, <3>1, <3>2
  <2> QED BY <2>3, <2>4, <2>7
<1>2. CASE ~(pending # << >> /\ CanMerge(Last(pending), e))
  <2>1. WithPending(pending, e) = pending \o <<e>>
    BY <1>2, AppendIsConcat DEF WithPending
  <2>2. <<e>> \in Seq(SoundEvent)
    OBVIOUS
  <2>3. BlocksOf(pending \o <<e>>) = BlocksOf(pending) \cup BlocksOf(<<e>>)
    BY <2>2, BlocksOfMore
  <2> QED BY <2>1, <2>3, BlocksOfOne
<1> QED BY <1>1, <1>2

\* _advance_save moves the blocks of a request's saves and drops none, and it
\* remembers an error.
LEMMA AdvanceSavesWork ==
  ASSUME NEW f, DOMAIN f \subseteq Req, \A r \in DOMAIN f : f[r] \in SoundSave,
         put \in [Req -> SoundPut], PutHeld(f),
         NEW S, S \subseteq DOMAIN f, NEW over,
         AdvanceSaves(S, f, over), NEW r \in DOMAIN f \ over
  PROVE  /\ f[r].failed \/ put[r].state = "failed" => saves'[r].failed \/ put'[r].state = "failed"
         /\ BlocksOf(saves'[r].pending) \cup UnderWay(put'[r])
              = BlocksOf(f[r].pending) \cup UnderWay(put[r])
<1> DEFINE s     == Settled(r, f[r])
           after == [y \in S |-> Settled(y, f[y])]
<1>1. /\ saves'[r] = IF r \in S THEN Advanced(after[r]) ELSE f[r]
      /\ put'[r] = IF r \in S /\ Submits(after[r])
                   THEN [state |-> "queued", event |-> Head(after[r].pending)]
                   ELSE IF r \in S /\ Ended(r) THEN NoPut ELSE put[r]
  BY DEF AdvanceSaves
<1>2. CASE r \notin S
  BY <1>1, <1>2
<1>3. CASE r \in S
  <2>1. after[r] = s
    BY <1>3
  <2> HIDE DEF after
  <2>2. /\ f[r] \in SoundSave /\ put[r] \in SoundPut /\ r \in Req
        /\ s \in SoundSave /\ s.pending = f[r].pending
        /\ s.running <=> (f[r].running /\ ~Ended(r))
    BY SettledSound
  <2>3. /\ Advanced(s).failed = s.failed
        /\ f[r].failed \/ put[r].state = "failed" => s.failed
    <3>1. Advanced(s).failed = s.failed
      BY <2>2 DEF Advanced, SoundSave
    <3>2. CASE f[r].running /\ Ended(r)
      <4> DEFINE bad == f[r].failed \/ put[r].state = "failed"
      <4>1. s = [f[r] EXCEPT !.running = FALSE, !.failed = bad]
        BY <3>2 DEF Settled
      <4> HIDE DEF bad
      <4>2. s.failed = bad
        BY <2>2, <4>1 DEF SoundSave
      <4> QED BY <3>1, <4>2 DEF bad
    <3>3. CASE ~(f[r].running /\ Ended(r))
      <4>1. s = f[r]
        BY <3>3 DEF Settled
      <4>2. put[r].state # "failed"
        BY <2>2, <3>3 DEF Ended, PutHeld
      <4> QED BY <3>1, <4>1, <4>2
    <3> QED BY <3>2, <3>3
  <2>4. (f[r].failed \/ put[r].state = "failed") => saves'[r].failed
    BY <1>1, <1>3, <2>1, <2>3
  <2>5. BlocksOf(saves'[r].pending) \cup UnderWay(put'[r])
          = BlocksOf(f[r].pending) \cup UnderWay(put[r])
    <3>1. CASE Submits(s)
      <4>1. ~s.running /\ s.pending # << >>
        BY <3>1 DEF Submits
      <4>2. put[r].state \in {"none", "ok", "failed"}
        BY <2>2, <4>1 DEF PutHeld, Ended
      <4>3. saves'[r].pending = Tail(s.pending)
        <5> DEFINE rest == Tail(s.pending)
        <5>1. saves'[r] = [s EXCEPT !.running = TRUE, !.pending = rest]
          BY <1>1, <1>3, <2>1, <3>1 DEF Advanced
        <5> HIDE DEF rest, s
        <5>2. saves'[r].pending = rest
          BY <2>2, <5>1 DEF SoundSave
        <5> QED BY <5>2 DEF rest
      <4>4. put'[r] = [state |-> "queued", event |-> Head(s.pending)]
        BY <1>1, <1>3, <2>1, <3>1
      <4>5. UnderWay(put[r]) = {} /\ UnderWay(put'[r]) = Chunks(Head(s.pending))
        BY <4>2, <4>4 DEF UnderWay
      <4>6. BlocksOf(s.pending) = Chunks(Head(s.pending)) \cup BlocksOf(Tail(s.pending))
        BY <2>2, <4>1, BlocksOfHead DEF SoundSave
      <4> HIDE DEF s
      <4> QED BY <2>2, <4>3, <4>5, <4>6
    <3>2. CASE ~Submits(s)
      <4>1. saves'[r].pending = f[r].pending
        BY <1>1, <1>3, <2>1, <2>2, <3>2 DEF Advanced
      <4>2. UnderWay(put'[r]) = UnderWay(put[r])
        <5>1. put'[r] = IF Ended(r) THEN NoPut ELSE put[r]
          BY <1>1, <1>3, <2>1, <3>2
        <5> QED BY <5>1, NoPutSound DEF Ended, UnderWay
      <4> QED BY <4>1, <4>2
    <3> QED BY <3>1, <3>2
  <2> QED BY <2>4, <2>5
<1> QED BY <1>2, <1>3

-----------------------------------------------------------------------------
(***************************************************************************)
(* The account of saves: a request without saves is owed nothing, what a   *)
(* request with saves is owed is still in work, or its failure is known.   *)
(* preempt() waits for a PUT only after it has dropped the saves.          *)
(***************************************************************************)
Accounted(r) == saves[r].failed \/ put[r].state = "failed" \/ owed[r] \subseteq InWork(r)
OwedInv == /\ \A r \in Req : r \notin DOMAIN saves => owed[r] = {}
           /\ \A r \in Req : lock = Waits("put", r) => r \notin DOMAIN saves
           /\ life = "open" => \A r \in DOMAIN saves : Accounted(r)

\* Steps that do nothing to a request's saves.
LEMMA OwedFrame ==
  ASSUME OwedInv, UNCHANGED <<saves, put, owed, life>>,
         lock' = lock \/ \A r \in Req : lock' # Waits("put", r)
  PROVE  OwedInv'
BY DEF OwedInv, Accounted, InWork, Ended

LEMMA SaveOwed ==
  ASSUME PoolInv, OwedInv, NEW r \in Req, NEW range \in SaveRange, NEW line \in Line,
         Save(r, range, line)
  PROVE  OwedInv'
<1> DEFINE part == [from |-> range.from, to |-> range.to, line |-> line, sig |-> numSaves + 1]
           e    == [from |-> range.from, to |-> range.to, line |-> line,
                    sigs |-> {part.sig}, parts |-> {part}]
           new  == IF r \in DOMAIN saves
                   THEN [saves[r] EXCEPT !.pending = WithPending(@, e)]
                   ELSE [running |-> FALSE, pending |-> <<e>>, failed |-> FALSE]
           f    == With(saves, r, new)
<1>1. /\ Idle /\ numSaves < MaxSaves
      /\ AdvanceSaves({r}, f, {})
      /\ owed' = [owed EXCEPT ![r] = @ \cup Chunks(e)]
      /\ UNCHANGED <<lock, life>>
  BY DEF Save
<1>2. numSaves + 1 \in Signal
  BY <1>1, PoolAssumption DEF Signal, PoolInv, RestTyped
<1>3. e \in SoundEvent
  BY <1>2, NewEventSound
<1> HIDE DEF e
<1>4. /\ new \in SoundSave
      /\ r \in DOMAIN saves => /\ new.running = saves[r].running /\ new.failed = saves[r].failed
                               /\ BlocksOf(new.pending) = BlocksOf(saves[r].pending) \cup Chunks(e)
      /\ r \notin DOMAIN saves => BlocksOf(new.pending) = Chunks(e)
  <2>1. CASE r \in DOMAIN saves
    <3>1. saves[r] \in SoundSave /\ saves[r].pending \in Seq(SoundEvent)
      BY <2>1 DEF PoolInv, SavesInv, SavesTyped, SoundSave
    <3> DEFINE longer == WithPending(saves[r].pending, e)
    <3>2. /\ longer \in Seq(SoundEvent)
          /\ BlocksOf(longer) = BlocksOf(saves[r].pending) \cup Chunks(e)
      BY <1>3, <3>1, WithPendingSound, WithPendingBlocks
    <3>3. new = [saves[r] EXCEPT !.pending = longer]
      BY <2>1
    <3> HIDE DEF longer, new
    <3>4. /\ new \in SoundSave /\ new.pending = longer
          /\ new.running = saves[r].running /\ new.failed = saves[r].failed
      BY <3>1, <3>2, <3>3 DEF SoundSave
    <3> QED BY <2>1, <3>2, <3>4
  <2>2. CASE r \notin DOMAIN saves
    <3>1. new = [running |-> FALSE, pending |-> <<e>>, failed |-> FALSE]
      BY <2>2
    <3>2. <<e>> \in Seq(SoundEvent)
      BY <1>3
    <3> HIDE DEF new
    <3>3. new \in SoundSave /\ new.pending = <<e>>
      BY <3>1, <3>2 DEF SoundSave
    <3> QED BY <2>2, <3>3, BlocksOfOne
  <2> QED BY <2>1, <2>2
<1> HIDE DEF new
<1>5. /\ DOMAIN f = DOMAIN saves \cup {r} /\ f[r] = new
      /\ \A y \in DOMAIN saves : y # r => f[y] = saves[y]
  BY DEF With
<1> HIDE DEF f
<1>6. /\ DOMAIN f \subseteq Req /\ \A y \in DOMAIN f : f[y] \in SoundSave
      /\ put \in [Req -> SoundPut]
  BY <1>4, <1>5 DEF PoolInv, SavesInv, SavesTyped
<1>7. lock = Free /\ life = "open" /\ \A y \in Req : lock' # Waits("put", y) /\ lock # Waits("put", y)
  BY <1>1, NotWaiting DEF Idle
<1>8. PutHeld(f)
  BY <1>4, <1>5, <1>7 DEF PoolInv, SavesInv, PutsHeld, PutHeld
<1>9. DOMAIN saves' = DOMAIN f
  BY <1>5, SaveKeeps
<1>10. ASSUME NEW y \in DOMAIN f
       PROVE  Accounted(y)'
  <2>1. /\ f[y].failed \/ put[y].state = "failed" => saves'[y].failed \/ put'[y].state = "failed"
        /\ BlocksOf(saves'[y].pending) \cup UnderWay(put'[y])
             = BlocksOf(f[y].pending) \cup UnderWay(put[y])
    <3> DEFINE S == {r}  over == {}
    <3>1. S \subseteq DOMAIN f /\ y \in DOMAIN f \ over /\ AdvanceSaves(S, f, over)
      BY <1>1, <1>5
    <3> HIDE DEF S, over
    <3> QED BY <1>6, <1>8, <3>1, AdvanceSavesWork
  <2>2. /\ y \in Req
        /\ owed'[y] = IF y = r THEN owed[y] \cup Chunks(e) ELSE owed[y]
    BY <1>1, <1>6 DEF PoolInv, RestTyped
  <2>3. \/ f[y].failed \/ put[y].state = "failed"
        \/ owed'[y] \subseteq BlocksOf(f[y].pending) \cup UnderWay(put[y])
    <3>1. CASE y \in DOMAIN saves
      <4>1. saves[y].failed \/ put[y].state = "failed"
            \/ owed[y] \subseteq BlocksOf(saves[y].pending) \cup UnderWay(put[y])
        BY <1>7, <3>1, InWorkIs DEF OwedInv, Accounted
      <4> QED BY <1>4, <1>5, <2>2, <3>1, <4>1
    <3>2. CASE y \notin DOMAIN saves
      <4>1. y = r /\ owed[y] = {}
        BY <1>5, <2>2, <3>2 DEF OwedInv
      <4> QED BY <1>4, <1>5, <2>2, <3>2, <4>1
    <3> QED BY <3>1, <3>2
  <2> QED BY <2>1, <2>3, InWorkIs DEF Accounted
<1>11. \A y \in Req : y \notin DOMAIN saves' => owed'[y] = {}
  BY <1>1, <1>5, <1>9 DEF OwedInv, PoolInv, RestTyped
<1> QED BY <1>7, <1>9, <1>10, <1>11 DEF OwedInv

LEMMA PutsOwed ==
  ASSUME PoolInv, OwedInv, PutWorker
  PROVE  OwedInv'
<1>1. ASSUME NEW r \in Req, NEW x \in {"checking", "reading"},
             put[r].state \in {"queued", "checking", "reading"},
             put' = [put EXCEPT ![r].state = x], UNCHANGED <<saves, owed, lock, life>>
      PROVE  OwedInv'
  <2>1. /\ put'[r].state = x /\ put'[r].event = put[r].event
        /\ \A y \in Req : y # r => put'[y] = put[y]
    BY <1>1, PutStateChange DEF PoolInv, SavesInv, SavesTyped
  <2>2. \A y \in Req : /\ UnderWay(put'[y]) = UnderWay(put[y])
                       /\ put[y].state = "failed" <=> put'[y].state = "failed"
    BY <1>1, <2>1 DEF UnderWay
  <2>3. \A y \in DOMAIN saves : Accounted(y) => Accounted(y)'
    <3> SUFFICES ASSUME NEW y \in DOMAIN saves, Accounted(y) PROVE Accounted(y)'
      OBVIOUS
    <3>1. y \in Req
      BY DEF PoolInv, SavesInv, SavesTyped
    <3> QED BY <1>1, <2>2, <3>1, InWorkIs DEF Accounted
  <2> QED BY <1>1, <2>3 DEF OwedInv
<1>2. ASSUME NEW r \in Req, NEW x \in {"ok", "failed"},
             put[r].state \in {"checking", "reading"}, PutEnds(r, x)
      PROVE  OwedInv'
  <2>1. /\ put' = [put EXCEPT ![r].state = x]
        /\ owed' = [owed EXCEPT ![r] = IF x = "ok" THEN owed[r] \ Chunks(put[r].event) ELSE owed[r]]
        /\ UNCHANGED <<saves, lock, life>>
    BY <1>2 DEF PutEnds, PoolInv, RestTyped
  <2>2. put'[r].state = x /\ \A y \in Req : y # r => put'[y] = put[y]
    BY <1>2, <2>1, PutStateChange DEF PoolInv, SavesInv, SavesTyped
  <2>3. /\ \A y \in Req : y # r => owed'[y] = owed[y]
        /\ owed'[r] = IF x = "ok" THEN owed[r] \ Chunks(put[r].event) ELSE owed[r]
    BY <2>1 DEF PoolInv, RestTyped
  <2>4. UnderWay(put[r]) = Chunks(put[r].event) /\ UnderWay(put'[r]) = {}
    BY <1>2, <2>2 DEF UnderWay
  <2>5. \A y \in DOMAIN saves : Accounted(y) => Accounted(y)'
    <3> SUFFICES ASSUME NEW y \in DOMAIN saves, Accounted(y) PROVE Accounted(y)'
      OBVIOUS
    <3>1. y \in Req /\ put[r].state # "failed"
      BY <1>2 DEF PoolInv, SavesInv, SavesTyped
    <3>2. CASE y # r
      BY <2>1, <2>2, <2>3, <3>1, <3>2, InWorkIs DEF Accounted
    <3>3. CASE y = r /\ x = "failed"
      BY <2>2, <3>3 DEF Accounted
    <3>4. CASE y = r /\ x = "ok"
      <4>1. saves[r].failed \/ owed[r] \subseteq BlocksOf(saves[r].pending) \cup Chunks(put[r].event)
        BY <2>4, <3>1, <3>4, InWorkIs DEF Accounted
      <4>2. saves'[r].failed \/ owed'[r] \subseteq BlocksOf(saves'[r].pending) \cup UnderWay(put'[r])
        BY <2>1, <2>3, <2>4, <3>4, <4>1
      <4> QED BY <3>4, <4>2, InWorkIs DEF Accounted
    <3> QED BY <3>2, <3>3, <3>4
  <2>6. \A y \in Req : owed[y] = {} => owed'[y] = {}
    BY <2>3
  <2> QED BY <2>1, <2>5, <2>6 DEF OwedInv
<1>3. CASE StartPut
  <2>1. Head(putLane) \in QueuedPuts
    BY <1>3, TailLane DEF StartPut, PoolInv, SavesInv, PutLaneInv
  <2> QED BY <1>1, <1>3, <2>1 DEF StartPut, QueuedPuts
<1>4. ASSUME NEW r \in Req, PutStep(r)
      PROVE  OwedInv'
  BY <1>1, <1>2, <1>4 DEF PutStep, PutRead, PutSkip, PutReturn
<1> QED BY <1>3, <1>4 DEF PutWorker

LEMMA PollOwed ==
  ASSUME PoolInv, OwedInv, NEW late, Poll(late)
  PROVE  OwedInv'
<1> DEFINE over == {r \in DOMAIN saves : SavesOver(r)}
           S    == DOMAIN saves
<1>1. /\ Idle /\ UNCHANGED <<lock, life>> /\ AdvanceSaves(S, saves, over)
      /\ owed' = [r \in Req |-> IF r \in over THEN {} ELSE owed[r]]
  BY DEF Poll
<1>2. DOMAIN saves' = DOMAIN saves \ over
  BY PollSteps
<1>3. lock = Free /\ life = "open" /\ \A y \in Req : lock # Waits("put", y)
  BY <1>1, NotWaiting DEF Idle
<1>4. PutHeld(saves)
  BY <1>3 DEF PoolInv, SavesInv, PutsHeld, PutHeld
<1> HIDE DEF over
<1>5. ASSUME NEW r \in DOMAIN saves \ over
      PROVE  Accounted(r)'
  <2>1. /\ saves[r].failed \/ put[r].state = "failed" => saves'[r].failed \/ put'[r].state = "failed"
        /\ BlocksOf(saves'[r].pending) \cup UnderWay(put'[r])
             = BlocksOf(saves[r].pending) \cup UnderWay(put[r])
    <3>1. /\ DOMAIN saves \subseteq Req /\ \A y \in DOMAIN saves : saves[y] \in SoundSave
          /\ put \in [Req -> SoundPut] /\ S \subseteq DOMAIN saves
      BY DEF PoolInv, SavesInv, SavesTyped
    <3> HIDE DEF S
    <3> QED BY <1>1, <1>4, <3>1, AdvanceSavesWork
  <2>2. Accounted(r) /\ owed'[r] = owed[r]
    BY <1>1, <1>3 DEF OwedInv, PoolInv, SavesInv, SavesTyped
  <2> QED BY <2>1, <2>2, InWorkIs DEF Accounted
<1> QED BY <1>1, <1>2, <1>3, <1>5 DEF OwedInv

LEMMA FencesOwed ==
  ASSUME PoolInv, OwedInv, NEW r \in Req, Preempt(r) \/ FenceLoads(r) \/ PreemptReturn(r)
  PROVE  OwedInv'
<1>1. CASE Preempt(r)
  <2>1. DOMAIN saves' = DOMAIN saves \ {r} /\ \A y \in Req : y # r => put'[y] = put[y]
    BY <1>1, PreemptKeeps
  <2>2. /\ lock' = Waits("put", r) /\ life = "open" /\ life' = life
        /\ \A y \in DOMAIN saves' : saves'[y] = saves[y]
        /\ owed' = [owed EXCEPT ![r] = {}]
    BY <1>1 DEF Preempt, Without, Idle
  <2>3. owed'[r] = {} /\ \A y \in Req : y # r => owed'[y] = owed[y]
    BY <2>2 DEF PoolInv, RestTyped
  <2>4. \A y \in DOMAIN saves' : Accounted(y)'
    <3> SUFFICES ASSUME NEW y \in DOMAIN saves' PROVE Accounted(y)'
      OBVIOUS
    <3>1. y \in DOMAIN saves /\ y \in Req /\ y # r
      BY <2>1 DEF PoolInv, SavesInv, SavesTyped
    <3>2. Accounted(y)
      BY <2>2, <3>1 DEF OwedInv
    <3> QED BY <2>1, <2>2, <2>3, <3>1, <3>2, InWorkIs DEF Accounted
  <2>5. \A y \in Req : lock' = Waits("put", y) => y = r
    BY <2>2, Locks
  <2> QED BY <2>1, <2>2, <2>3, <2>4, <2>5 DEF OwedInv
<1>2. CASE FenceLoads(r)
  <2>1. \A y \in Req : y # r => put'[y] = put[y]
    BY <1>2, FenceLoadsKeeps
  <2>2. lock = Waits("put", r) /\ lock' = Waits("get", r) /\ UNCHANGED <<saves, owed, life>>
    BY <1>2 DEF FenceLoads
  <2>3. r \notin DOMAIN saves /\ \A y \in Req : lock' # Waits("put", y)
    BY <2>2, Locks DEF OwedInv
  <2>4. \A y \in DOMAIN saves : Accounted(y) => Accounted(y)'
    <3> SUFFICES ASSUME NEW y \in DOMAIN saves, Accounted(y) PROVE Accounted(y)'
      OBVIOUS
    <3>1. put'[y] = put[y]
      BY <2>1, <2>3 DEF PoolInv, SavesInv, SavesTyped
    <3> QED BY <2>2, <3>1, InWorkIs DEF Accounted
  <2> QED BY <2>2, <2>3, <2>4 DEF OwedInv
<1>3. CASE PreemptReturn(r)
  <2>1. lock' = Free /\ UNCHANGED <<saves, put, owed, life>>
    BY <1>3 DEF PreemptReturn, saveVars
  <2>2. \A y \in Req : lock' # Waits("put", y)
    BY <2>1, Locks
  <2> QED BY <2>1, <2>2, OwedFrame
<1> QED BY <1>1, <1>2, <1>3

LEMMA ResetOwed ==
  ASSUME PoolInv, OwedInv, NEW r \in Req, ResetAdvance(r)
  PROVE  OwedInv'
<1> DEFINE S == {r}  over == {}
<1>1. /\ lock = <<"reset">> /\ AdvanceSaves(S, saves, over) /\ UNCHANGED <<owed, lock, life>>
      /\ S \subseteq DOMAIN saves
  BY DEF ResetAdvance
<1>2. \A y \in Req : lock # Waits("put", y)
  BY <1>1, NotWaiting
<1>3. PutHeld(saves)
  BY <1>2 DEF PoolInv, SavesInv, PutsHeld, PutHeld
<1>4. DOMAIN saves' = DOMAIN saves
  BY ResetAdvanceKeeps
<1>5. \A y \in DOMAIN saves : Accounted(y) => Accounted(y)'
  <2> SUFFICES ASSUME NEW y \in DOMAIN saves, Accounted(y) PROVE Accounted(y)'
    OBVIOUS
  <2>1. /\ DOMAIN saves \subseteq Req /\ \A x \in DOMAIN saves : saves[x] \in SoundSave
        /\ put \in [Req -> SoundPut] /\ y \in DOMAIN saves \ over
    BY DEF PoolInv, SavesInv, SavesTyped
  <2> HIDE DEF S, over
  <2>2. /\ saves[y].failed \/ put[y].state = "failed" => saves'[y].failed \/ put'[y].state = "failed"
        /\ BlocksOf(saves'[y].pending) \cup UnderWay(put'[y])
             = BlocksOf(saves[y].pending) \cup UnderWay(put[y])
    BY <1>1, <1>3, <2>1, AdvanceSavesWork
  <2> QED BY <1>1, <2>2, InWorkIs DEF Accounted
<1> QED BY <1>1, <1>2, <1>4, <1>5 DEF OwedInv

LEMMA OwedNext ==
  ASSUME PoolInv, OwedInv, [PoolNext]_poolVars
  PROVE  OwedInv'
<1>1. CASE WorkerCall
  <2>1. ASSUME NEW r \in Req, NEW x \in SaveInput, Save(r, x[1], x[2]) PROVE OwedInv'
    <3>1. x[1] \in SaveRange /\ x[2] \in Line
      BY PoolAssumption
    <3> QED BY <2>1, <3>1, SaveOwed
  <2>2. CASE PollAny
    BY <2>2, PollOwed DEF PollAny
  <2>3. CASE Close
    <3>1. /\ DOMAIN saves' = DOMAIN saves /\ life' # "open" /\ UNCHANGED <<owed, lock>>
      BY <2>3, CloseKeeps DEF Close
    <3> QED BY <3>1 DEF OwedInv
  <2>4. ASSUME NEW r \in Req, Preempt(r) PROVE OwedInv'
    BY <2>4, FencesOwed
  <2>5. CASE TakeErrors \/ \E r \in Req, range \in LoadRange : Load(r, range)
    <3>1. UNCHANGED <<saves, put, owed, life, lock>>
      BY <2>5 DEF TakeErrors, Load, saveVars
    <3> QED BY <3>1, OwedFrame
  <2> QED BY <1>1, <2>1, <2>2, <2>3, <2>4, <2>5 DEF WorkerCall
<1>2. CASE ResetBegin \/ ResetEnd
  <2>1. UNCHANGED <<saves, put, owed, life>> /\ lock' \in {Free, <<"reset">>}
    BY <1>2 DEF ResetBegin, ResetEnd, saveVars
  <2>2. \A r \in Req : lock' # Waits("put", r)
    BY <2>1, Locks
  <2> QED BY <2>1, <2>2, OwedFrame
<1>3. ASSUME NEW r \in Req, FenceLoads(r) \/ PreemptReturn(r) PROVE OwedInv'
  BY <1>3, FencesOwed
<1>4. ASSUME NEW r \in Req, ResetAdvance(r) PROVE OwedInv'
  BY <1>4, ResetOwed
<1>5. CASE ShutPuts
  BY <1>5 DEF ShutPuts, OwedInv
<1>6. CASE CloseStore
  <2>1. DOMAIN saves' = {}
    BY <1>6, CloseStoreKeeps
  <2> QED BY <1>6, <2>1 DEF CloseStore, OwedInv
<1>7. CASE PutWorker
  BY <1>7, PutsOwed
<1>8. CASE StartGet \/ (\E r \in Req : GetStep(r)) \/ (\E s \in Signal : Fire(s)) \/ UNCHANGED poolVars
  <2>1. UNCHANGED <<saves, put, owed, life, lock>>
    BY <1>8 DEF StartGet, GetStep, GetReturn, Fire, poolVars, saveVars
  <2> QED BY <2>1, OwedFrame
<1> QED BY <1>1, <1>2, <1>3, <1>4, <1>5, <1>6, <1>7, <1>8 DEF PoolNext, LockHolder, Closer

\* The account of saves, of save(), _merge, _advance_save and preempt(): what a
\* request is owed is pending or under way unless one of its PUTs failed.
THEOREM OwedInvariant == PoolSpec => []OwedInv
<1>1. PoolInit => OwedInv
  <2> SUFFICES ASSUME PoolInit PROVE OwedInv
    OBVIOUS
  <2>1. DOMAIN saves = {} /\ \A r \in Req : owed[r] = {}
    BY DEF PoolInit
  <2> QED BY <2>1 DEF OwedInv
<1>2. PoolInv /\ OwedInv /\ [PoolNext]_poolVars => OwedInv'
  BY OwedNext
<1> QED BY <1>1, <1>2, PoolInvariant, PTL DEF PoolSpec

\* No save is lost between save() and the end of its PUT, however PUTs fail
\* and saves are merged.
THEOREM SavesAreNotLost == PoolSpec => []NoSaveLost
<1>1. OwedInv => NoSaveLost
  BY DEF OwedInv, Accounted, NoSaveLost
<1> QED BY <1>1, OwedInvariant, PTL

-----------------------------------------------------------------------------
(* Results are given by poll alone, while the pool is open and unlocked. *)

LEMMA OnlyPollGivesBack ==
  ASSUME PoolInv, [PoolNext]_poolVars, Polled
  PROVE  PollAny \/ (DOMAIN saves \subseteq DOMAIN saves' /\ DOMAIN loads \subseteq DOMAIN loads')
<1> DEFINE Keeps == DOMAIN saves \subseteq DOMAIN saves' /\ DOMAIN loads \subseteq DOMAIN loads'
<1>1. ASSUME NEW r \in Req, NEW x \in SaveInput, Save(r, x[1], x[2]) PROVE Keeps
  <2>1. x[1] \in SaveRange /\ x[2] \in Line
    BY PoolAssumption
  <2>2. DOMAIN saves' = DOMAIN saves \cup {r}
    BY <1>1, <2>1, SaveKeeps
  <2> QED BY <1>1, <2>2 DEF Save, loadVars
<1>2. ASSUME NEW r \in Req, NEW range \in LoadRange, Load(r, range) PROVE Keeps
  BY <1>2 DEF Load, With, saveVars
<1>3. CASE Close
  BY <1>3 DEF Close, Polled
<1>4. ASSUME NEW r \in Req, Preempt(r) \/ FenceLoads(r) PROVE FALSE
  BY <1>4, Locks DEF Preempt, FenceLoads, Polled
<1>5. ASSUME NEW r \in Req, PreemptReturn(r) PROVE Keeps
  BY <1>5 DEF PreemptReturn, saveVars
<1>6. ASSUME NEW r \in Req, ResetAdvance(r) PROVE FALSE
  BY <1>6, Locks DEF ResetAdvance, Polled
<1>7. CASE TakeErrors \/ ResetBegin \/ ResetEnd
  BY <1>7 DEF TakeErrors, ResetBegin, ResetEnd, saveVars, loadVars
<1>8. CASE Closer
  BY <1>8 DEF Closer, ShutPuts, CloseStore, Polled
<1>9. CASE PutWorker
  BY <1>9 DEF PutWorker, StartPut, PutStep, PutRead, PutSkip, PutReturn, PutEnds, loadVars
<1>10. CASE StartGet \/ (\E r \in Req : GetStep(r)) \/ (\E s \in Signal : Fire(s)) \/ UNCHANGED poolVars
  BY <1>10 DEF StartGet, GetStep, GetReturn, Fire, poolVars, saveVars, loadVars
<1> QED BY <1>1, <1>2, <1>3, <1>4, <1>5, <1>6, <1>7, <1>8, <1>9, <1>10
        DEF PoolNext, WorkerCall, LockHolder

\* A SaveResult without error means that every save accepted since the last one
\* is in the Store.
THEOREM SaveResultsAreHonest == PoolSpec => SaveResultHonest
<1>1. ASSUME PoolInv, OwedInv, [PoolNext]_poolVars, Polled,
             NEW r \in DOMAIN saves \ DOMAIN saves'
      PROVE  SaveFailed(r) \/ owed[r] = {}
  <2>1. PICK late : Poll(late)
    BY <1>1, OnlyPollGivesBack DEF PollAny
  <2>2. SavesOver(r)
    BY <1>1, <2>1, PollSteps
  <2>3. r \in Req /\ saves[r] \in SoundSave /\ put \in [Req -> SoundPut]
    BY <1>1 DEF PoolInv, SavesInv, SavesTyped
  <2>4. /\ ~Settled(r, saves[r]).running /\ saves[r].pending = << >>
        /\ saves[r].running => Ended(r)
    BY <2>2, <2>3, SettledSound DEF SavesOver
  <2>5. lock = Free /\ life = "open"
    BY <2>1 DEF Poll, Idle
  <2>6. put[r].state # "none" => saves[r].running
    BY <1>1, <2>3, <2>5, NotWaiting DEF PoolInv, SavesInv, PutsHeld
  <2>7. InWork(r) = {}
    BY <2>4, <2>6, InWorkIs, BlocksOfEmpty DEF UnderWay, Ended
  <2>8. saves[r].failed \/ put[r].state = "failed" \/ owed[r] = {}
    BY <1>1, <2>5, <2>7 DEF OwedInv, Accounted
  <2>9. (saves[r].failed \/ put[r].state = "failed") => SaveFailed(r)
    <3>1. CASE saves[r].running /\ Ended(r)
      <4> DEFINE bad == saves[r].failed \/ put[r].state = "failed"
      <4>1. Settled(r, saves[r]) = [saves[r] EXCEPT !.running = FALSE, !.failed = bad]
        BY <3>1 DEF Settled
      <4> HIDE DEF bad
      <4>2. Settled(r, saves[r]).failed = bad
        BY <2>3, <4>1 DEF SoundSave
      <4> QED BY <4>2 DEF bad, SaveFailed
    <3>2. CASE ~(saves[r].running /\ Ended(r))
      <4>1. Settled(r, saves[r]) = saves[r] /\ put[r].state # "failed"
        BY <2>6, <3>2 DEF Settled, Ended
      <4> QED BY <4>1 DEF SaveFailed
    <3> QED BY <3>1, <3>2
  <2> QED BY <2>8, <2>9
<1>2. PoolInv /\ OwedInv /\ [PoolNext]_poolVars =>
        [Polled => \A r \in DOMAIN saves \ DOMAIN saves' :
           SaveFailed(r) \/ owed[r] = {}]_poolVars
  BY <1>1
<1> QED BY <1>2, PoolInvariant, OwedInvariant, PTL DEF PoolSpec, SaveResultHonest

-----------------------------------------------------------------------------
(***************************************************************************)
(* The account of loads: what a GET that has ended did not fail to fetch   *)
(* is written, and errors not taken yet are of loads that are over.        *)
(***************************************************************************)
Filled(r)  == get[r].state = "done" => written[r] = RangeBlocks(get[r].from, get[r].to) \ get[r].bad
LoadedInv == /\ \A r \in Req : Filled(r) /\ get[r].from <= get[r].to
             /\ DOMAIN loads \cap DOMAIN invalid = {}

\* A step that starts, drops or leaves alone what has not ended.
LEMMA LoadedFrame ==
  ASSUME LoadedInv, DOMAIN loads' \cap DOMAIN invalid' = {},
         \A r \in Req : \/ get'[r] = get[r] /\ written'[r] = written[r]
                        \/ get'[r].state # "done" /\ get'[r].from <= get'[r].to
  PROVE  LoadedInv'
BY DEF LoadedInv, Filled

LEMMA LoadedNext ==
  ASSUME PoolInv, LoadedInv, [PoolNext]_poolVars
  PROVE  LoadedInv'
<1>1. NoGet.state # "done" /\ NoGet.from <= NoGet.to
  BY DEF NoGet
<1>2. get \in [Req -> GetJob] /\ written \in [Req -> SUBSET Blocks]
      /\ DOMAIN loads \cap DOMAIN invalid = {}
      /\ \A r \in Req : get[r].from <= get[r].to
  BY DEF PoolInv, LoadsInv, LoadsTyped, LoadedInv
<1>3. ASSUME NEW r \in Req, NEW range \in LoadRange, Load(r, range) PROVE LoadedInv'
  <2> DEFINE job == [state |-> "queued", from |-> range.from, to |-> range.to, bad |-> {}]
  <2>1. range \in TokenRange
    BY PoolAssumption
  <2>2. job.state # "done" /\ job.from <= job.to
    BY <2>1 DEF TokenRange
  <2>3. /\ get' = [get EXCEPT ![r] = job] /\ written' = [written EXCEPT ![r] = {}]
        /\ r \notin DOMAIN invalid /\ DOMAIN loads' = DOMAIN loads \cup {r} /\ invalid' = invalid
    BY <1>3 DEF Load, With
  <2> HIDE DEF job
  <2>4. DOMAIN loads' \cap DOMAIN invalid' = {}
    BY <1>2, <2>3
  <2>5. \A y \in Req : IF y = r THEN get'[y] = job ELSE get'[y] = get[y] /\ written'[y] = written[y]
    BY <1>2, <2>3
  <2> QED BY <2>2, <2>4, <2>5, LoadedFrame
<1>4. CASE StartGet
  <2>1. PICK r \in Req : /\ get[r].state = "queued" /\ get'[r].state = "writing"
                         /\ \A y \in Req : y # r => get'[y] = get[y]
    BY <1>4, StartGetKeeps
  <2>2. /\ get' = [get EXCEPT ![Head(getLane)].state = "writing"]
        /\ UNCHANGED <<loads, invalid, written>>
    BY <1>4 DEF StartGet
  <2>3. get'[r].from <= get'[r].to
    <3> DEFINE h == Head(getLane)
    <3>1. get' = [get EXCEPT ![h] = [get[h] EXCEPT !.state = "writing"]]
      BY <2>2
    <3> HIDE DEF h
    <3>2. h = r
      BY <1>2, <2>1, <3>1
    <3>3. get[r] \in GetJob /\ get'[r] = [get[r] EXCEPT !.state = "writing"]
      BY <1>2, <3>1, <3>2
    <3>4. get'[r].from = get[r].from /\ get'[r].to = get[r].to
      BY <3>3 DEF GetJob
    <3> QED BY <1>2, <3>4
  <2> QED BY <1>2, <2>1, <2>2, <2>3, LoadedFrame
<1>5. ASSUME NEW r \in Req, GetStep(r) PROVE LoadedInv'
  <2>1. PICK bad \in SUBSET RangeBlocks(get[r].from, get[r].to) : GetReturn(r, bad)
    BY <1>5 DEF GetStep
  <2>2. /\ get' = [get EXCEPT ![r] = [get[r] EXCEPT !.state = "done", !.bad = bad]]
        /\ written' = [written EXCEPT ![r] = RangeBlocks(get[r].from, get[r].to) \ bad]
        /\ UNCHANGED <<loads, invalid>>
    BY <1>2, <2>1 DEF GetReturn
  <2>3. get'[r] = [get[r] EXCEPT !.state = "done", !.bad = bad] /\ get[r] \in GetJob
        /\ written'[r] = RangeBlocks(get[r].from, get[r].to) \ bad
        /\ \A y \in Req : y # r => get'[y] = get[y] /\ written'[y] = written[y]
    BY <1>2, <2>2
  <2>4. get'[r].bad = bad /\ get'[r].from = get[r].from /\ get'[r].to = get[r].to
    BY <2>3 DEF GetJob
  <2>5. \A y \in Req : Filled(y)' /\ get'[y].from <= get'[y].to
    BY <1>2, <2>3, <2>4 DEF LoadedInv, Filled
  <2> QED BY <1>2, <2>2, <2>5 DEF LoadedInv
<1>6. CASE PollAny
  <2>1. PICK late : Poll(late)
    BY <1>6 DEF PollAny
  <2> DEFINE got  == {r \in DOMAIN loads : get[r].state = "done"}
             hurt == {r \in got : Outcome(r).invalid # {}}
  <2>2. /\ DOMAIN loads' = DOMAIN loads \ got /\ DOMAIN invalid' = hurt \cup DOMAIN invalid
        /\ get' = [r \in Req |-> IF r \in got THEN NoGet ELSE get[r]]
        /\ written' = [r \in Req |-> IF r \in got THEN {} ELSE written[r]]
    BY <2>1 DEF Poll
  <2>3. hurt \subseteq got
    OBVIOUS
  <2> HIDE DEF got, hurt
  <2>4. DOMAIN loads' \cap DOMAIN invalid' = {}
    BY <1>2, <2>2, <2>3
  <2>5. \A r \in Req : IF r \in got THEN get'[r] = NoGet
                       ELSE get'[r] = get[r] /\ written'[r] = written[r]
    BY <2>2
  <2> QED BY <1>1, <2>4, <2>5, LoadedFrame
<1>7. CASE TakeErrors
  <2>1. DOMAIN invalid' = {} /\ UNCHANGED <<get, written, loads>>
    BY <1>7 DEF TakeErrors
  <2> QED BY <2>1, LoadedFrame
<1>8. ASSUME NEW r \in Req, FenceLoads(r) PROVE LoadedInv'
  <2>1. /\ DOMAIN loads' \subseteq DOMAIN loads /\ UNCHANGED <<invalid, written>>
        /\ get' = [get EXCEPT ![r] = IF get[r].state = "queued" THEN NoGet ELSE get[r]]
    BY <1>8 DEF FenceLoads, Without
  <2>2. \A y \in Req : get'[y] = NoGet \/ get'[y] = get[y]
    BY <1>2, <2>1
  <2> QED BY <1>1, <1>2, <2>1, <2>2, LoadedFrame
<1>9. ASSUME NEW r \in Req, PreemptReturn(r) PROVE LoadedInv'
  <2>1. /\ loads' = loads /\ DOMAIN invalid' \subseteq DOMAIN invalid
        /\ get' = [get EXCEPT ![r] = NoGet] /\ written' = [written EXCEPT ![r] = {}]
    BY <1>9 DEF PreemptReturn, Without
  <2>2. \A y \in Req : get'[y] = NoGet \/ (get'[y] = get[y] /\ written'[y] = written[y])
    BY <1>2, <2>1
  <2> QED BY <1>1, <1>2, <2>1, <2>2, LoadedFrame
<1>10. CASE Close
  <2>1. /\ UNCHANGED <<loads, invalid, written>>
        /\ get' = [r \in Req |-> IF get[r].state = "queued" THEN NoGet ELSE get[r]]
    BY <1>10 DEF Close
  <2> QED BY <1>1, <1>2, <2>1, LoadedFrame
<1>11. CASE CloseStore
  <2>1. DOMAIN loads' = {} /\ \A r \in Req : get'[r] = NoGet
    BY <1>11 DEF CloseStore
  <2> QED BY <1>1, <2>1, LoadedFrame
<1>12. ASSUME UNCHANGED <<loads, get, invalid, written>> PROVE LoadedInv'
  BY <1>2, <1>12, LoadedFrame
<1>13. ASSUME NEW r \in Req,
              Preempt(r) \/ ResetAdvance(r) \/ \E x \in SaveInput : Save(r, x[1], x[2])
       PROVE  LoadedInv'
  BY <1>12, <1>13 DEF Preempt, ResetAdvance, Save, loadVars
<1>14. CASE ResetBegin \/ ResetEnd \/ ShutPuts \/ PutWorker \/ (\E s \in Signal : Fire(s))
              \/ UNCHANGED poolVars
  <2>1. UNCHANGED loadVars
    BY <1>14 DEF ResetBegin, ResetEnd, ShutPuts, PutWorker, StartPut, PutStep, PutRead, PutSkip,
                 PutReturn, PutEnds, Fire, poolVars
  <2> QED BY <1>12, <2>1 DEF loadVars
<1> QED BY <1>3, <1>4, <1>5, <1>6, <1>7, <1>8, <1>9, <1>10, <1>11, <1>13, <1>14
        DEF PoolNext, WorkerCall, LockHolder, Closer

\* The account of loads, of load(), _load and take_errors(), in every reachable
\* state.
THEOREM LoadedInvariant == PoolSpec => []LoadedInv
<1>1. PoolInit => LoadedInv
  <2> SUFFICES ASSUME PoolInit PROVE LoadedInv
    OBVIOUS
  <2>1. DOMAIN loads = {} /\ \A r \in Req : get[r] = NoGet
    BY DEF PoolInit
  <2>2. NoGet.state # "done" /\ NoGet.from <= NoGet.to
    BY DEF NoGet
  <2> QED BY <2>1, <2>2 DEF LoadedInv, Filled
<1>2. PoolInv /\ LoadedInv /\ [PoolNext]_poolVars => LoadedInv'
  BY LoadedNext
<1> QED BY <1>1, <1>2, PoolInvariant, PTL DEF PoolSpec

-----------------------------------------------------------------------------
(* What a LoadResult says. *)

\* The prefix of a LoadResult is written, take_errors will name every block
\* beyond it, and a load that was seen to be late offers nothing.
THEOREM LoadResultsAreHonest == PoolSpec => LoadResultHonest
<1>1. ASSUME PoolInv, LoadedInv, [PoolNext]_poolVars, Polled,
             NEW r \in DOMAIN loads \ DOMAIN loads'
      PROVE  LET x == Outcome(r)
                 named == IF r \in DOMAIN invalid' THEN invalid'[r] ELSE {}
             IN  /\ RangeBlocks(x.from, x.tokens) \subseteq written[r]
                 /\ RangeBlocks(x.tokens, x.to) \subseteq named
                 /\ named # {} => x.error
                 /\ loads[r] => x.tokens = x.from
  <2> DEFINE job    == get[r]
             prefix == LoadedPrefix(job.from, job.to, job.bad)
             tokens == IF loads[r] THEN job.from ELSE prefix
             named  == IF r \in DOMAIN invalid' THEN invalid'[r] ELSE {}
  <2>1. PICK late : Poll(late)
    BY <1>1, OnlyPollGivesBack DEF PollAny
  <2>2. get[r].state = "done"
    BY <1>1, <2>1, PollSteps
  <2>3. /\ r \in Req /\ job \in GetJob /\ loads[r] \in BOOLEAN /\ r \notin DOMAIN invalid
        /\ written[r] = RangeBlocks(job.from, job.to) \ job.bad /\ job.from <= job.to
    BY <1>1, <2>2 DEF PoolInv, LoadsInv, LoadsTyped, LoadedInv, Filled
  <2>4. Outcome(r) = [from |-> job.from, to |-> job.to, tokens |-> tokens,
                      error |-> loads[r] \/ job.bad # {}, invalid |-> RangeBlocks(tokens, job.to)]
    BY DEF Outcome
  <2>5. named = RangeBlocks(tokens, job.to)
    <3> DEFINE got  == {y \in DOMAIN loads : get[y].state = "done"}
               hurt == {y \in got : Outcome(y).invalid # {}}
    <3>1. invalid' = [y \in hurt \cup DOMAIN invalid |->
                       IF y \in hurt THEN Outcome(y).invalid ELSE invalid[y]]
      BY <2>1 DEF Poll
    <3>2. r \in got /\ (r \in hurt <=> Outcome(r).invalid # {})
      BY <2>2
    <3>3. Outcome(r).invalid = RangeBlocks(tokens, job.to)
      BY <2>4
    <3> HIDE DEF hurt, got, tokens
    <3> QED BY <2>3, <3>1, <3>2, <3>3
  <2> HIDE DEF job, named
  <2>6. job.from \in Nat /\ job.to \in Nat
    BY <2>3, PoolAssumption DEF GetJob
  <2>7. /\ prefix \in Nat
        /\ RangeBlocks(job.from, prefix) \subseteq RangeBlocks(job.from, job.to) \ job.bad
        /\ job.bad = {} => prefix = job.to
    BY <2>3, <2>6, PrefixIsGood
  <2>8. RangeBlocks(job.from, tokens) \subseteq written[r]
    BY <2>3, <2>6, <2>7, EmptyRange
  <2>9. named # {} => loads[r] \/ job.bad # {}
    BY <2>3, <2>5, <2>6, <2>7, EmptyRange
  <2>10. loads[r] => tokens = job.from
    OBVIOUS
  <2> HIDE DEF tokens, prefix
  <2>11. /\ Outcome(r).from = job.from /\ Outcome(r).to = job.to
         /\ Outcome(r).tokens = tokens
    <3> HIDE DEF job
    <3> QED BY <2>4
  <2>12. named # {} => Outcome(r).error
    <3> DEFINE failed == loads[r] \/ job.bad # {}
    <3>1. Outcome(r) = [from |-> job.from, to |-> job.to, tokens |-> tokens,
                        error |-> failed, invalid |-> RangeBlocks(tokens, job.to)]
      BY <2>4
    <3>2. named # {} => failed
      BY <2>9
    <3> HIDE DEF failed, job
    <3>3. Outcome(r).error = failed
      BY <3>1
    <3> QED BY <3>2, <3>3
  <2> QED BY <2>5, <2>8, <2>10, <2>11, <2>12 DEF named
<1>2. PoolInv /\ LoadedInv /\ [PoolNext]_poolVars =>
        [Polled => \A r \in DOMAIN loads \ DOMAIN loads' :
           LET x == Outcome(r)
               named == IF r \in DOMAIN invalid' THEN invalid'[r] ELSE {}
           IN  /\ RangeBlocks(x.from, x.tokens) \subseteq written[r]
               /\ RangeBlocks(x.tokens, x.to) \subseteq named
               /\ named # {} => x.error
               /\ loads[r] => x.tokens = x.from]_poolVars
  BY <1>1
<1> QED BY <1>2, PoolInvariant, LoadedInvariant, PTL DEF PoolSpec, LoadResultHonest

-----------------------------------------------------------------------------
(***************************************************************************)
(* The service that the pool gives the worker (PoolService).  Beyond the   *)
(* invariant this needs to know what preempt() has already taken from the  *)
(* dictionaries while it waits, and that a GET has a range.                *)
(***************************************************************************)
FenceInv(r) ==
  /\ lock \in {Waits("put", r), Waits("get", r)} => r \notin DOMAIN saves
  /\ lock = Waits("get", r) => r \notin DOMAIN loads /\ put[r].state = "none"
RangeInv(r) == get[r].state # "none" => get[r].from < get[r].to
ServeInv == \A r \in Req : FenceInv(r) /\ RangeInv(r)

NoneHeld == [state |-> "none", from |-> 0, to |-> 0, upto |-> 0]
LoadMoves(r) ==
  LET a == LoadView(r)
      b == LoadView(r)'
  IN  \/ b = a
      \/ a = NoneHeld /\ r \notin Preempting' /\ b.state = "busy" /\ b.from < b.to
      \/ /\ a.state = "busy" /\ b.upto \in a.from .. a.to
         /\ b = [state |-> "done", from |-> a.from, to |-> a.to, upto |-> b.upto]
      \/ b = NoneHeld /\ (a.state = "done" \/ r \in Preempting')
SaveMoves(r) ==
  LET a == SaveView(r)
      b == SaveView(r)'
  IN  \/ b = a
      \/ r \notin Preempting' /\ b = "busy"
      \/ a = "busy" /\ b = "done"
      \/ b = "none" /\ (a = "done" \/ r \in Preempting')
\* After a fence nothing is left.
FenceEmpties(r) ==
  r \in Preempting /\ r \notin Preempting' => LoadView(r)' = NoneHeld /\ SaveView(r)' = "none"
ItemMoves(r) == LoadMoves(r) /\ SaveMoves(r) /\ FenceEmpties(r)

\* How far a load that has ended says it got.
Told(r) == IF loads[r] THEN get[r].from ELSE LoadedPrefix(get[r].from, get[r].to, get[r].bad)
LEMMA ToldInRange ==
  ASSUME NEW from \in 0 .. MaxToken, NEW to \in 0 .. MaxToken, from <= to, NEW bad, NEW late \in BOOLEAN,
         NEW told, told = IF late THEN from ELSE LoadedPrefix(from, to, bad)
  PROVE  told \in from .. to /\ told \in 0 .. MaxToken
<1>1. from \in Nat /\ to \in Nat /\ MaxToken \in Nat
  BY PoolAssumption
<1> DEFINE prefix == LoadedPrefix(from, to, bad)
<1>2. prefix \in Nat /\ from <= prefix
  BY <1>1, LoadedPrefixAfterFrom
<1>3. prefix <= to
  BY <1>1, PrefixIsGood
<1> HIDE DEF prefix
<1>4. told = IF late THEN from ELSE prefix
  BY DEF prefix
<1> QED BY <1>1, <1>2, <1>3, <1>4

\* What a load looks like from outside, by the state of its GET.
LEMMA LoadViewIs ==
  ASSUME NEW r
  PROVE  /\ get[r].state \in {"queued", "writing"} =>
              LoadView(r) = [state |-> "busy", from |-> get[r].from, to |-> get[r].to,
                             upto |-> get[r].from]
         /\ get[r].state = "done" /\ r \in DOMAIN loads =>
              LoadView(r) = [state |-> "done", from |-> get[r].from, to |-> get[r].to, upto |-> Told(r)]
         /\ (get[r].state = "done" /\ r \notin DOMAIN loads) \/ get[r].state = "none" =>
              LoadView(r) = NoneHeld
BY DEF LoadView, Outcome, Told, NoneHeld

LEMMA LoadViewIsNext ==
  ASSUME NEW r
  PROVE  /\ get'[r].state \in {"queued", "writing"} =>
              LoadView(r)' = [state |-> "busy", from |-> get'[r].from, to |-> get'[r].to,
                              upto |-> get'[r].from]
         /\ get'[r].state = "done" /\ r \in DOMAIN loads' =>
              LoadView(r)' = [state |-> "done", from |-> get'[r].from, to |-> get'[r].to,
                              upto |-> Told(r)']
         /\ (get'[r].state = "done" /\ r \notin DOMAIN loads') \/ get'[r].state = "none" =>
              LoadView(r)' = NoneHeld
BY DEF LoadView, Outcome, Told, NoneHeld

\* Nothing is left of the saves s with the PUT p.
Over(s, p) == s.pending = << >> /\ (s.running => p.state \in {"ok", "failed"})

LEMMA SettledParts ==
  ASSUME NEW s \in SoundSave, NEW bad
  PROVE  LET t == [s EXCEPT !.running = FALSE, !.failed = bad]
         IN  t.running = FALSE /\ t.pending = s.pending
BY DEF SoundSave

LEMMA SaveViewIs ==
  ASSUME SavesTyped, NEW r \in Req
  PROVE  /\ r \in DOMAIN saves => SaveView(r) = IF Over(saves[r], put[r]) THEN "done" ELSE "busy"
         /\ r \notin DOMAIN saves =>
              SaveView(r) = IF put[r].state \in {"checking", "reading"} THEN "busy" ELSE "none"
<1>1. ASSUME r \in DOMAIN saves PROVE SavesOver(r) <=> Over(saves[r], put[r])
  <2> DEFINE s == saves[r]
             bad == s.failed \/ put[r].state = "failed"
  <2>1. s \in SoundSave
    BY <1>1 DEF SavesTyped
  <2>2. Settled(r, s) = IF s.running /\ Ended(r) THEN [s EXCEPT !.running = FALSE, !.failed = bad] ELSE s
    BY DEF Settled
  <2>3. SavesOver(r) <=> ~Settled(r, s).running /\ Settled(r, s).pending = << >>
    BY DEF SavesOver
  <2> HIDE DEF s, bad
  <2>4. Settled(r, s).pending = s.pending /\ (Settled(r, s).running <=> s.running /\ ~Ended(r))
    BY <2>1, <2>2, SettledParts DEF SoundSave
  <2> QED BY <2>3, <2>4 DEF Over, Ended, s
<1> QED BY <1>1 DEF SaveView

LEMMA SaveViewIsNext ==
  ASSUME SavesTyped', NEW r \in Req
  PROVE  /\ r \in DOMAIN saves' => SaveView(r)' = IF Over(saves'[r], put'[r]) THEN "done" ELSE "busy"
         /\ r \notin DOMAIN saves' =>
              SaveView(r)' = IF put'[r].state \in {"checking", "reading"} THEN "busy" ELSE "none"
<1>1. ASSUME r \in DOMAIN saves' PROVE SavesOver(r)' <=> Over(saves'[r], put'[r])
  <2> DEFINE s == saves'[r]
             bad == s.failed \/ put'[r].state = "failed"
             t == Settled(r, saves[r])'
  <2>1. s \in SoundSave
    BY <1>1 DEF SavesTyped
  <2>2. t = IF s.running /\ Ended(r)' THEN [s EXCEPT !.running = FALSE, !.failed = bad] ELSE s
    BY DEF Settled, Ended
  <2>3. SavesOver(r)' <=> ~t.running /\ t.pending = << >>
    BY DEF SavesOver
  <2> HIDE DEF s, bad, t
  <2>4. t.pending = s.pending /\ (t.running <=> s.running /\ ~Ended(r)')
    BY <2>1, <2>2, SettledParts DEF SoundSave
  <2> QED BY <2>3, <2>4 DEF Over, Ended, s
<1> QED BY <1>1 DEF SaveView

\* _advance_save changes the view of nobody whose saves it does not collect.
LEMMA AdvanceSavesServes ==
  ASSUME NEW f, DOMAIN f \subseteq Req, \A y \in DOMAIN f : f[y] \in SoundSave,
         put \in [Req -> SoundPut],
         NEW S, S \subseteq DOMAIN f, NEW over, over \subseteq S,
         AdvanceSaves(S, f, over), NEW r \in Req
  PROVE  /\ r \notin S => put'[r] = put[r] /\ (r \in DOMAIN f => saves'[r] = f[r])
         /\ r \in S \ over => (Over(saves'[r], put'[r]) <=> Over(f[r], put[r]))
<1> DEFINE after == [y \in S |-> Settled(y, f[y])]
           started == {y \in S : Submits(after[y])}
<1>1. /\ saves' = [y \in DOMAIN f \ over |-> IF y \in S THEN Advanced(after[y]) ELSE f[y]]
      /\ put' = [y \in Req |->
                   IF y \in started
                   THEN [state |-> "queued", event |-> Head(after[y].pending)]
                   ELSE IF y \in S /\ Ended(y) THEN NoPut ELSE put[y]]
  BY DEF AdvanceSaves
<1>2. r \in started <=> r \in S /\ Submits(after[r])
  OBVIOUS
<1>3. r \in S => after[r] = Settled(r, f[r])
  OBVIOUS
<1> HIDE DEF after, started
<1>4. ASSUME r \notin S PROVE put'[r] = put[r] /\ (r \in DOMAIN f => saves'[r] = f[r])
  BY <1>1, <1>2, <1>4
<1>5. ASSUME r \in S \ over PROVE Over(saves'[r], put'[r]) <=> Over(f[r], put[r])
  <2> DEFINE s == f[r]  t == after[r]
  <2>1. /\ s \in SoundSave /\ t \in SoundSave /\ t.pending = s.pending
        /\ t.running <=> (s.running /\ ~Ended(r))
    BY <1>3, <1>5, SettledSound
  <2>2. saves'[r] = Advanced(t)
    BY <1>1, <1>5
  <2>3. CASE Submits(t)
    <3>1. Advanced(t).running /\ put'[r].state = "queued"
      BY <1>1, <1>2, <1>5, <2>1, <2>3, AdvancedSound
    <3>2. s.pending # << >>
      BY <2>1, <2>3 DEF Submits
    <3> QED BY <2>2, <3>1, <3>2 DEF Over
  <2>4. CASE ~Submits(t)
    <3>1. saves'[r] = t
      BY <2>2, <2>4 DEF Advanced
    <3>2. CASE Ended(r) /\ s.running
      <4>1. ~t.running
        BY <2>1, <3>2
      <4> QED BY <2>1, <3>1, <3>2, <4>1 DEF Over, Ended
    <3>3. CASE Ended(r) /\ ~s.running
      BY <2>1, <3>1, <3>3 DEF Over
    <3>4. CASE ~Ended(r)
      <4>1. put'[r] = put[r]
        BY <1>1, <1>2, <2>4, <3>4
      <4> QED BY <2>1, <3>1, <3>4, <4>1 DEF Over, Ended
    <3> QED BY <3>2, <3>3, <3>4
  <2> QED BY <2>3, <2>4
<1> QED BY <1>4, <1>5

\* What a step may leave alone.
LEMMA LoadsSame ==
  ASSUME NEW r, get'[r] = get[r], r \in DOMAIN loads' <=> r \in DOMAIN loads,
         r \in DOMAIN loads => loads'[r] = loads[r]
  PROVE  LoadView(r)' = LoadView(r) /\ LoadMoves(r) /\ (RangeInv(r) => RangeInv(r)')
<1>1. LoadView(r)' = LoadView(r)
  BY DEF LoadView, Outcome
<1> QED BY <1>1 DEF LoadMoves, RangeInv

LEMMA SavesSame ==
  ASSUME NEW r, put'[r] = put[r], r \in DOMAIN saves' <=> r \in DOMAIN saves,
         r \in DOMAIN saves => saves'[r] = saves[r]
  PROVE  SaveView(r)' = SaveView(r) /\ SaveMoves(r)
<1>1. SaveView(r)' = SaveView(r)
  BY DEF SaveView, SavesOver, Settled, Ended
<1> QED BY <1>1 DEF SaveMoves

LEMMA FenceSame ==
  ASSUME UNCHANGED <<lock, life>>
  PROVE  Preempting' = Preempting /\ \A r \in Req : FenceEmpties(r)
BY DEF Preempting, FenceEmpties

\* While the worker thread is between two calls nothing is fenced.
LEMMA IdleUnfenced ==
  ASSUME Idle
  PROVE  Preempting = {} /\ \A y \in Req : lock # Waits("put", y) /\ lock # Waits("get", y)
<1>1. \A y \in Req : lock # Waits("put", y) /\ lock # Waits("get", y)
  BY NotWaiting DEF Idle
<1> QED BY <1>1 DEF Preempting, Idle

-----------------------------------------------------------------------------
(* Every call and every thread serves: calls of the worker thread. *)

LEMMA LoadServes ==
  ASSUME PoolInv, ServeInv, NEW r \in Req, NEW range \in TokenRange, Load(r, range)
  PROVE  ServeInv' /\ \A y \in Req : ItemMoves(y)
<1> DEFINE job == [state |-> "queued", from |-> range.from, to |-> range.to, bad |-> {}]
<1>1. /\ Idle /\ r \notin DOMAIN loads /\ loads' = With(loads, r, FALSE)
      /\ get' = [get EXCEPT ![r] = job] /\ UNCHANGED <<saves, put, lock, life>>
  BY DEF Load, saveVars
<1>2. job.state = "queued" /\ job.from = range.from /\ job.to = range.to /\ range.from < range.to
  BY DEF TokenRange
<1> HIDE DEF job
<1>3. Preempting = {} /\ \A y \in Req : lock # Waits("put", y) /\ lock # Waits("get", y)
  BY <1>1, IdleUnfenced
<1>4. get \in [Req -> GetJob] /\ get[r].state = "none"
  BY <1>1, <1>3 DEF PoolInv, LoadsInv, LoadsTyped, GetsHeld
<1>5. get'[r] = job /\ \A y \in Req : y # r => get'[y] = get[y]
  BY <1>1, <1>4
<1>6. \A y \in Req : y # r => (y \in DOMAIN loads' <=> y \in DOMAIN loads)
                             /\ (y \in DOMAIN loads => loads'[y] = loads[y])
  BY <1>1 DEF With
<1>7. Preempting' = {} /\ \A y \in Req : FenceEmpties(y)
  BY <1>1, <1>3, FenceSame
<1>8. \A y \in Req : SaveMoves(y)
  BY <1>1, SavesSame
<1>9. LoadMoves(r)
  <2>1. LoadView(r) = NoneHeld
    BY <1>4, LoadViewIs
  <2>2. LoadView(r)' = [state |-> "busy", from |-> range.from, to |-> range.to, upto |-> range.from]
    BY <1>2, <1>5, LoadViewIsNext
  <2> QED BY <1>2, <1>7, <2>1, <2>2 DEF LoadMoves
<1>10. RangeInv(r)'
  BY <1>2, <1>5 DEF RangeInv
<1>11. \A y \in Req : y # r => LoadMoves(y) /\ RangeInv(y)'
  BY <1>5, <1>6, LoadsSame DEF ServeInv
<1>12. \A y \in Req : FenceInv(y)'
  BY <1>1, <1>3 DEF FenceInv
<1> QED BY <1>7, <1>8, <1>9, <1>10, <1>11, <1>12 DEF ServeInv, ItemMoves

LEMMA SaveServes ==
  ASSUME PoolInv, PoolInv', ServeInv, NEW r \in Req, NEW range \in SaveRange, NEW line \in Line,
         Save(r, range, line)
  PROVE  ServeInv' /\ \A y \in Req : ItemMoves(y)
<1> DEFINE part == [from |-> range.from, to |-> range.to, line |-> line, sig |-> numSaves + 1]
           e    == [from |-> range.from, to |-> range.to, line |-> line,
                    sigs |-> {part.sig}, parts |-> {part}]
           new  == IF r \in DOMAIN saves
                   THEN [saves[r] EXCEPT !.pending = WithPending(@, e)]
                   ELSE [running |-> FALSE, pending |-> <<e>>, failed |-> FALSE]
           f    == With(saves, r, new)
<1>1. /\ Idle /\ AdvanceSaves({r}, f, {}) /\ UNCHANGED <<loads, get, lock, life>>
  BY DEF Save, loadVars
<1>2. Preempting = {} /\ \A y \in Req : lock # Waits("put", y) /\ lock # Waits("get", y)
  BY <1>1, IdleUnfenced
<1>3. SavesTyped /\ SavesTyped'
  BY DEF PoolInv, SavesInv
<1>4. numSaves + 1 \in Signal
  BY PoolAssumption DEF Save, Signal, PoolInv, RestTyped
<1>5. e \in SoundEvent
  BY <1>4, NewEventSound
<1> HIDE DEF e
<1>6. new \in SoundSave /\ new.pending # << >>
  <2>1. CASE r \in DOMAIN saves
    <3> DEFINE longer == WithPending(saves[r].pending, e)
    <3>1. saves[r] \in SoundSave
      BY <1>3, <2>1 DEF SavesTyped
    <3>2. longer \in Seq(SoundEvent) /\ longer # << >>
      BY <1>5, <3>1, WithPendingSound DEF SoundSave
    <3>3. new = [saves[r] EXCEPT !.pending = longer]
      BY <2>1
    <3> HIDE DEF longer, new
    <3> QED BY <3>1, <3>2, <3>3 DEF SoundSave
  <2>2. CASE r \notin DOMAIN saves
    <3>1. new = [running |-> FALSE, pending |-> <<e>>, failed |-> FALSE]
      BY <2>2
    <3>2. <<e>> \in Seq(SoundEvent) /\ <<e>> # << >>
      BY <1>5
    <3> HIDE DEF new
    <3> QED BY <3>1, <3>2 DEF SoundSave
  <2> QED BY <2>1, <2>2
<1> HIDE DEF new
<1>7. /\ DOMAIN f = DOMAIN saves \cup {r} /\ f[r] = new
      /\ \A y \in DOMAIN saves : y # r => f[y] = saves[y]
  BY DEF With
<1> HIDE DEF f
<1>8. DOMAIN f \subseteq Req /\ \A y \in DOMAIN f : f[y] \in SoundSave
  BY <1>3, <1>6, <1>7 DEF SavesTyped
<1>9. DOMAIN saves' = DOMAIN f
  BY <1>1 DEF AdvanceSaves
<1>10. /\ \A y \in Req : y # r => put'[y] = put[y] /\ (y \in DOMAIN f => saves'[y] = f[y])
       /\ Over(saves'[r], put'[r]) <=> Over(f[r], put[r])
  <2> DEFINE S == {r}  over == {}
  <2>1. S \subseteq DOMAIN f /\ over \subseteq S /\ AdvanceSaves(S, f, over) /\ r \in S \ over
    BY <1>1, <1>7
  <2>2. \A y \in Req : y # r => y \notin S
    OBVIOUS
  <2>3. put \in [Req -> SoundPut]
    BY <1>3 DEF SavesTyped
  <2> HIDE DEF S, over
  <2> QED BY <1>8, <2>1, <2>2, <2>3, AdvanceSavesServes
<1>11. Preempting' = {} /\ \A y \in Req : FenceEmpties(y)
  BY <1>1, <1>2, FenceSame
<1>12. SaveMoves(r)
  <2>1. ~Over(saves'[r], put'[r])
    BY <1>6, <1>7, <1>10 DEF Over
  <2>2. SaveView(r)' = "busy"
    BY <1>3, <1>7, <1>9, <2>1, SaveViewIsNext
  <2> QED BY <1>11, <2>2 DEF SaveMoves
<1>13. \A y \in Req : y # r => SaveMoves(y)
  BY <1>7, <1>9, <1>10, SavesSame
<1>14. \A y \in Req : LoadMoves(y) /\ RangeInv(y)'
  BY <1>1, LoadsSame DEF ServeInv
<1>15. \A y \in Req : FenceInv(y)'
  BY <1>1, <1>2 DEF FenceInv
<1> QED BY <1>11, <1>12, <1>13, <1>14, <1>15 DEF ServeInv, ItemMoves

LEMMA PollServes ==
  ASSUME PoolInv, PoolInv', ServeInv, NEW late, Poll(late)
  PROVE  ServeInv' /\ \A y \in Req : ItemMoves(y)
<1> DEFINE got  == {r \in DOMAIN loads : get[r].state = "done"}
           over == {r \in DOMAIN saves : SavesOver(r)}
<1>1. /\ Idle /\ AdvanceSaves(DOMAIN saves, saves, over) /\ UNCHANGED <<lock, life>>
      /\ late \subseteq DOMAIN loads \ got
      /\ loads' = [r \in DOMAIN loads \ got |-> loads[r] \/ r \in late]
      /\ get' = [r \in Req |-> IF r \in got THEN NoGet ELSE get[r]]
  BY DEF Poll
<1>2. Preempting = {} /\ \A y \in Req : lock # Waits("put", y) /\ lock # Waits("get", y)
  BY <1>1, IdleUnfenced
<1>3. SavesTyped /\ SavesTyped' /\ LoadsTyped
  BY DEF PoolInv, SavesInv, LoadsInv
<1>4. /\ DOMAIN saves' = DOMAIN saves \ over
      /\ \A r \in Req : put'[r].state # "none" => r \in DOMAIN saves' /\ saves'[r].running
  BY PollSteps
<1>5. Preempting' = {} /\ \A y \in Req : FenceEmpties(y)
  BY <1>1, <1>2, FenceSame
<1>6. \A y \in Req : FenceInv(y)'
  BY <1>1, <1>2 DEF FenceInv
<1>7. ASSUME NEW y \in Req PROVE LoadMoves(y) /\ RangeInv(y)'
  <2>1. CASE y \in got
    <3>1. LoadView(y).state = "done"
      BY <2>1, LoadViewIs
    <3>2. get'[y] = NoGet
      BY <1>1, <2>1
    <3>3. LoadView(y)' = NoneHeld
      BY <3>2, NoGetTyped, LoadViewIsNext
    <3> QED BY <3>1, <3>2, <3>3, NoGetTyped DEF LoadMoves, RangeInv
  <2>2. CASE y \notin got
    <3>1. get'[y] = get[y] /\ (y \in DOMAIN loads' <=> y \in DOMAIN loads)
      BY <1>1, <2>2
    <3>2. RangeInv(y)'
      BY <3>1 DEF ServeInv, RangeInv
    <3>3. get[y] \in GetJob
      BY <1>3 DEF LoadsTyped
    <3>4. CASE get[y].state = "done"
      <4>1. LoadView(y) = NoneHeld
        BY <2>2, <3>4, LoadViewIs
      <4>2. LoadView(y)' = NoneHeld
        BY <2>2, <3>1, <3>4, LoadViewIsNext
      <4> QED BY <3>2, <4>1, <4>2 DEF LoadMoves
    <3>5. CASE get[y].state = "none"
      <4>1. LoadView(y)' = LoadView(y)
        BY <3>1, <3>5, LoadViewIs, LoadViewIsNext
      <4> QED BY <3>2, <4>1 DEF LoadMoves
    <3>6. CASE get[y].state \in {"queued", "writing"}
      <4>1. LoadView(y)' = LoadView(y)
        BY <3>1, <3>6, LoadViewIs, LoadViewIsNext
      <4> QED BY <3>2, <4>1 DEF LoadMoves
    <3> QED BY <3>3, <3>4, <3>5, <3>6 DEF GetJob
  <2> QED BY <2>1, <2>2
<1>8. ASSUME NEW y \in Req PROVE SaveMoves(y)
  <2>1. /\ y \notin DOMAIN saves => put'[y] = put[y]
        /\ y \in DOMAIN saves \ over => (Over(saves'[y], put'[y]) <=> Over(saves[y], put[y]))
    <3>1. DOMAIN saves \subseteq Req /\ (\A x \in DOMAIN saves : saves[x] \in SoundSave)
          /\ put \in [Req -> SoundPut] /\ over \subseteq DOMAIN saves
      BY <1>3 DEF SavesTyped
    <3> HIDE DEF over
    <3> QED BY <1>1, <3>1, AdvanceSavesServes
  <2>2. CASE y \notin DOMAIN saves
    BY <1>4, <2>1, <2>2, SavesSame
  <2>3. CASE y \in DOMAIN saves /\ y \notin over
    <3>1. SaveView(y)' = SaveView(y)
      BY <1>3, <1>4, <2>1, <2>3, SaveViewIs, SaveViewIsNext
    <3> QED BY <3>1 DEF SaveMoves
  <2>4. CASE y \in over
    <3>1. SaveView(y) = "done"
      BY <2>4 DEF SaveView
    <3>2. y \notin DOMAIN saves' /\ put'[y].state = "none"
      BY <1>4, <2>4
    <3>3. SaveView(y)' = "none"
      BY <1>3, <3>2, SaveViewIsNext
    <3> QED BY <3>1, <3>3 DEF SaveMoves
  <2> QED BY <2>2, <2>3, <2>4
<1> HIDE DEF got, over
<1> QED BY <1>5, <1>6, <1>7, <1>8 DEF ServeInv, ItemMoves

LEMMA PreemptServes ==
  ASSUME PoolInv, PoolInv', ServeInv, NEW r \in Req, Preempt(r)
  PROVE  ServeInv' /\ \A y \in Req : ItemMoves(y)
<1>1. /\ Idle /\ saves' = Without(saves, {r}) /\ lock' = Waits("put", r)
      /\ put' = [put EXCEPT ![r] = IF put[r].state = "queued" THEN NoPut ELSE put[r]]
      /\ UNCHANGED <<loads, get, life>>
  BY DEF Preempt, loadVars, PoolInv, SavesInv, SavesTyped
<1>2. Preempting = {} /\ \A y \in Req : lock # Waits("put", y) /\ lock # Waits("get", y)
  BY <1>1, IdleUnfenced
<1>3. SavesTyped /\ SavesTyped' /\ PutsHeld
  BY DEF PoolInv, SavesInv
<1>4. r \in Preempting' /\ \A y \in Req : FenceEmpties(y)
  BY <1>1, <1>2 DEF Preempting, FenceEmpties
<1>5. DOMAIN saves' = DOMAIN saves \ {r} /\ \A y \in DOMAIN saves' : saves'[y] = saves[y]
  BY <1>1 DEF Without
<1>6. \A y \in Req : FenceInv(y)'
  BY <1>1, <1>5, Locks DEF FenceInv
<1>7. \A y \in Req : LoadMoves(y) /\ RangeInv(y)'
  BY <1>1, LoadsSame DEF ServeInv
<1>8. \A y \in Req : y # r => SaveMoves(y)
  <2>1. \A y \in Req : y # r => put'[y] = put[y]
    BY <1>1, <1>3 DEF SavesTyped
  <2> QED BY <1>5, <2>1, SavesSame
<1>9. SaveMoves(r)
  <2>1. SaveView(r)' \in {"busy", "none"}
    BY <1>3, <1>5, SaveViewIsNext
  <2>2. SaveView(r)' = "busy" => SaveView(r) = "busy"
    <3> SUFFICES ASSUME SaveView(r)' = "busy" PROVE SaveView(r) = "busy"
      OBVIOUS
    <3>1. put'[r].state \in {"checking", "reading"}
      BY <1>3, <1>5, SaveViewIsNext
    <3>2. put'[r] = put[r] \/ put'[r] = NoPut
      BY <1>1, <1>3 DEF SavesTyped
    <3>3. put[r].state \in {"checking", "reading"}
      BY <3>1, <3>2, NoPutSound
    <3>4. r \in DOMAIN saves /\ saves[r].running
      BY <1>2, <1>3, <3>3 DEF PutsHeld
    <3>5. ~Over(saves[r], put[r])
      BY <3>3, <3>4 DEF Over
    <3> QED BY <1>3, <3>4, <3>5, SaveViewIs
  <2> QED BY <1>4, <2>1, <2>2 DEF SaveMoves
<1> QED BY <1>4, <1>6, <1>7, <1>8, <1>9 DEF ServeInv, ItemMoves

LEMMA CloseServes ==
  ASSUME PoolInv, PoolInv', ServeInv, Close
  PROVE  ServeInv' /\ \A y \in Req : ItemMoves(y)
<1>1. /\ Idle /\ life' = "closing" /\ UNCHANGED <<put, loads, lock>>
      /\ saves' = [r \in DOMAIN saves |-> [saves[r] EXCEPT !.pending = << >>]]
      /\ get' = [r \in Req |-> IF get[r].state = "queued" THEN NoGet ELSE get[r]]
  BY DEF Close
<1>2. Preempting = {} /\ \A y \in Req : lock # Waits("put", y) /\ lock # Waits("get", y)
  BY <1>1, IdleUnfenced
<1>3. SavesTyped /\ SavesTyped'
  BY DEF PoolInv, SavesInv
<1>4. Preempting' = Req /\ \A y \in Req : FenceEmpties(y)
  BY <1>1 DEF Preempting, FenceEmpties
<1>5. \A y \in Req : FenceInv(y)'
  BY <1>1, <1>2 DEF FenceInv
<1>6. ASSUME NEW y \in Req PROVE LoadMoves(y) /\ RangeInv(y)'
  <2>1. CASE get[y].state = "queued"
    <3>1. get'[y] = NoGet
      BY <1>1, <2>1
    <3>2. LoadView(y)' = NoneHeld
      BY <3>1, NoGetTyped, LoadViewIsNext
    <3> QED BY <1>4, <3>1, <3>2, NoGetTyped DEF LoadMoves, RangeInv
  <2>2. CASE get[y].state # "queued"
    BY <1>1, <2>2, LoadsSame DEF ServeInv
  <2> QED BY <2>1, <2>2
<1>7. ASSUME NEW y \in Req PROVE SaveMoves(y)
  <2>1. CASE y \notin DOMAIN saves
    <3>1. y \notin DOMAIN saves'
      BY <1>1, <2>1
    <3> QED BY <1>1, <2>1, <3>1, SavesSame
  <2>2. CASE y \in DOMAIN saves
    <3>1. saves[y] \in SoundSave /\ saves'[y] = [saves[y] EXCEPT !.pending = << >>] /\ y \in DOMAIN saves'
      BY <1>1, <1>3, <2>2 DEF SavesTyped
    <3>2. saves'[y].running = saves[y].running
      BY <3>1 DEF SoundSave
    <3>3. Over(saves[y], put[y]) => Over(saves'[y], put'[y])
      <4>1. saves'[y].pending = << >>
        BY <3>1 DEF SoundSave
      <4> QED BY <1>1, <3>2, <4>1 DEF Over
    <3>4. SaveView(y)' = SaveView(y) \/ (SaveView(y) = "busy" /\ SaveView(y)' = "done")
      BY <1>3, <2>2, <3>1, <3>3, SaveViewIs, SaveViewIsNext
    <3> QED BY <3>4 DEF SaveMoves
  <2> QED BY <2>1, <2>2
<1> QED BY <1>4, <1>5, <1>6, <1>7 DEF ServeInv, ItemMoves

-----------------------------------------------------------------------------
(* Whoever waits, and the closing thread. *)

LEMMA FenceLoadsServes ==
  ASSUME PoolInv, PoolInv', ServeInv, NEW r \in Req, FenceLoads(r)
  PROVE  ServeInv' /\ \A y \in Req : ItemMoves(y)
<1>1. /\ lock = Waits("put", r) /\ put[r].state \notin {"checking", "reading"}
      /\ put' = [put EXCEPT ![r] = NoPut] /\ loads' = Without(loads, {r})
      /\ get' = [get EXCEPT ![r] = IF get[r].state = "queued" THEN NoGet ELSE get[r]]
      /\ lock' = Waits("get", r) /\ UNCHANGED <<saves, life>>
  BY DEF FenceLoads, PoolInv, LoadsInv, LoadsTyped
<1>2. SavesTyped /\ SavesTyped' /\ LoadsTyped /\ life = "open" /\ r \notin DOMAIN saves
  BY <1>1, Locks DEF PoolInv, SavesInv, LoadsInv, Closing, ServeInv, FenceInv
<1>3. /\ \A y \in Req : y # r => put'[y] = put[y] /\ get'[y] = get[y]
      /\ put'[r].state = "none"
      /\ get'[r] = IF get[r].state = "queued" THEN NoGet ELSE get[r]
  BY <1>1, <1>2, NoPutSound DEF SavesTyped, LoadsTyped
<1>4. DOMAIN loads' = DOMAIN loads \ {r} /\ \A y \in DOMAIN loads' : loads'[y] = loads[y]
  BY <1>1 DEF Without
<1>5. Preempting = {r} /\ Preempting' = {r} /\ \A y \in Req : FenceEmpties(y)
  BY <1>1, <1>2, Locks DEF Preempting, FenceEmpties
<1>6. \A y \in Req : FenceInv(y)'
  <2> SUFFICES ASSUME NEW y \in Req PROVE FenceInv(y)'
    OBVIOUS
  <2>1. lock' # Waits("put", y) /\ (lock' = Waits("get", y) => y = r)
    BY <1>1, Locks
  <2> QED BY <1>1, <1>2, <1>3, <1>4, <2>1 DEF FenceInv
<1>7. \A y \in Req : y # r => LoadMoves(y) /\ RangeInv(y)'
  BY <1>3, <1>4, LoadsSame DEF ServeInv
<1>8. LoadMoves(r) /\ RangeInv(r)'
  <2>1. get[r] \in GetJob /\ RangeInv(r)
    BY <1>2 DEF LoadsTyped, ServeInv
  <2>2. CASE get[r].state = "queued"
    <3>1. LoadView(r)' = NoneHeld
      BY <1>3, <2>2, NoGetTyped, LoadViewIsNext
    <3> QED BY <1>3, <1>5, <2>2, <3>1, NoGetTyped DEF LoadMoves, RangeInv
  <2>3. CASE get[r].state = "writing"
    <3>1. get'[r] = get[r]
      BY <1>3, <2>3
    <3>2. LoadView(r)' = LoadView(r)
      BY <2>3, <3>1, LoadViewIs, LoadViewIsNext
    <3> QED BY <2>1, <3>1, <3>2 DEF LoadMoves, RangeInv
  <2>4. CASE get[r].state \in {"none", "done"}
    <3>1. get'[r] = get[r] /\ r \notin DOMAIN loads'
      BY <1>3, <1>4, <2>4
    <3>2. LoadView(r)' = NoneHeld
      BY <2>4, <3>1, LoadViewIsNext
    <3> QED BY <1>5, <2>1, <3>1, <3>2 DEF LoadMoves, RangeInv
  <2> QED BY <2>1, <2>2, <2>3, <2>4 DEF GetJob
<1>9. \A y \in Req : y # r => SaveMoves(y)
  BY <1>1, <1>3, SavesSame
<1>10. SaveMoves(r)
  <2>1. SaveView(r)' = "none"
    BY <1>1, <1>2, <1>3, SaveViewIsNext
  <2> QED BY <1>5, <2>1 DEF SaveMoves
<1> QED BY <1>5, <1>6, <1>7, <1>8, <1>9, <1>10 DEF ServeInv, ItemMoves

LEMMA PreemptReturnServes ==
  ASSUME PoolInv, PoolInv', ServeInv, NEW r \in Req, PreemptReturn(r)
  PROVE  ServeInv' /\ \A y \in Req : ItemMoves(y)
<1>1. /\ lock = Waits("get", r) /\ get[r].state # "writing"
      /\ get' = [get EXCEPT ![r] = NoGet] /\ lock' = Free
      /\ UNCHANGED <<saves, put, loads, life>>
  BY DEF PreemptReturn, saveVars
<1>2. /\ SavesTyped /\ SavesTyped' /\ LoadsTyped /\ life = "open" /\ get[r].state # "queued"
      /\ r \notin DOMAIN saves /\ r \notin DOMAIN loads /\ put[r].state = "none"
  BY <1>1, Locks DEF PoolInv, SavesInv, LoadsInv, Closing, Cancelled, ServeInv, FenceInv
<1>3. get'[r] = NoGet /\ \A y \in Req : y # r => get'[y] = get[y]
  BY <1>1, <1>2 DEF LoadsTyped
<1>4. Preempting = {r} /\ Preempting' = {}
  BY <1>1, <1>2, Locks DEF Preempting
<1>5. \A y \in Req : FenceInv(y)'
  BY <1>1, Locks DEF FenceInv
<1>6. \A y \in Req : y # r => LoadMoves(y) /\ RangeInv(y)'
  BY <1>1, <1>3, LoadsSame DEF ServeInv
<1>7. LoadView(r) = NoneHeld /\ LoadView(r)' = NoneHeld
  <2>1. get[r].state \in {"none", "done"}
    BY <1>1, <1>2 DEF LoadsTyped, GetJob
  <2> QED BY <1>2, <1>3, <2>1, NoGetTyped, LoadViewIs, LoadViewIsNext
<1>8. LoadMoves(r) /\ RangeInv(r)'
  BY <1>3, <1>7, NoGetTyped DEF LoadMoves, RangeInv
<1>9. \A y \in Req : SaveMoves(y)
  BY <1>1, SavesSame
<1>10. SaveView(r)' = "none"
  BY <1>1, <1>2, SaveViewIsNext
<1>11. \A y \in Req : FenceEmpties(y)
  BY <1>4, <1>7, <1>10 DEF FenceEmpties
<1> QED BY <1>5, <1>6, <1>8, <1>9, <1>11 DEF ServeInv, ItemMoves

LEMMA ResetAdvanceServes ==
  ASSUME PoolInv, PoolInv', ServeInv, NEW r \in Req, ResetAdvance(r)
  PROVE  ServeInv' /\ \A y \in Req : ItemMoves(y)
<1>1. /\ lock = <<"reset">> /\ r \in DOMAIN saves /\ AdvanceSaves({r}, saves, {})
      /\ UNCHANGED <<loads, get, lock, life>>
  BY DEF ResetAdvance, loadVars
<1>2. \A y \in Req : lock # Waits("put", y) /\ lock # Waits("get", y)
  BY <1>1, NotWaiting
<1>3. SavesTyped /\ SavesTyped' /\ DOMAIN saves' = DOMAIN saves
  BY ResetAdvanceKeeps DEF PoolInv, SavesInv
<1>4. /\ \A y \in Req : y # r => put'[y] = put[y] /\ (y \in DOMAIN saves => saves'[y] = saves[y])
      /\ Over(saves'[r], put'[r]) <=> Over(saves[r], put[r])
  <2> DEFINE S == {r}  over == {}
  <2>1. S \subseteq DOMAIN saves /\ over \subseteq S /\ AdvanceSaves(S, saves, over) /\ r \in S \ over
    BY <1>1
  <2>2. \A y \in Req : y # r => y \notin S
    OBVIOUS
  <2>3. DOMAIN saves \subseteq Req /\ (\A y \in DOMAIN saves : saves[y] \in SoundSave)
        /\ put \in [Req -> SoundPut]
    BY <1>3 DEF SavesTyped
  <2> HIDE DEF S, over
  <2> QED BY <2>1, <2>2, <2>3, AdvanceSavesServes
<1>5. SaveMoves(r)
  <2>1. SaveView(r)' = SaveView(r)
    BY <1>1, <1>3, <1>4, SaveViewIs, SaveViewIsNext
  <2> QED BY <2>1 DEF SaveMoves
<1>6. \A y \in Req : y # r => SaveMoves(y)
  BY <1>3, <1>4, SavesSame
<1>7. \A y \in Req : LoadMoves(y) /\ RangeInv(y)'
  BY <1>1, LoadsSame DEF ServeInv
<1>8. \A y \in Req : FenceInv(y)'
  BY <1>1, <1>2 DEF FenceInv
<1>9. \A y \in Req : FenceEmpties(y)
  BY <1>1, FenceSame
<1> QED BY <1>5, <1>6, <1>7, <1>8, <1>9 DEF ServeInv, ItemMoves

LEMMA ShutPutsServes ==
  ASSUME PoolInv, PoolInv', ServeInv, ShutPuts
  PROVE  ServeInv' /\ \A y \in Req : ItemMoves(y)
<1>1. /\ life = "closing" /\ life' = "puts" /\ UNCHANGED <<saves, loads, get, lock>>
      /\ put' = [r \in Req |-> IF put[r].state = "queued" THEN [put[r] EXCEPT !.state = "failed"]
                               ELSE put[r]]
  BY DEF ShutPuts, loadVars
<1>2. SavesTyped /\ SavesTyped' /\ PutsHeld /\ \A y \in Req : lock # Waits("put", y) /\ lock # Waits("get", y)
  BY <1>1, NotWaiting DEF PoolInv, SavesInv, Closing
<1>3. Preempting' = Req /\ \A y \in Req : FenceEmpties(y)
  BY <1>1 DEF Preempting, FenceEmpties
<1>4. \A y \in Req : FenceInv(y)'
  BY <1>1, <1>2 DEF FenceInv
<1>5. \A y \in Req : LoadMoves(y) /\ RangeInv(y)'
  BY <1>1, LoadsSame DEF ServeInv
<1>6. ASSUME NEW y \in Req PROVE SaveMoves(y)
  <2>1. CASE put[y].state # "queued"
    <3>1. put'[y] = put[y]
      BY <1>1, <2>1
    <3> QED BY <1>1, <3>1, SavesSame
  <2>2. CASE put[y].state = "queued"
    <3>1. y \in DOMAIN saves /\ saves[y].running
      BY <1>2, <2>2 DEF PutsHeld
    <3>2. ~Over(saves[y], put[y])
      BY <2>2, <3>1 DEF Over
    <3>3. SaveView(y) = "busy"
      BY <1>2, <3>1, <3>2, SaveViewIs
    <3>4. SaveView(y)' \in {"busy", "done"}
      BY <1>1, <1>2, <3>1, SaveViewIsNext
    <3> QED BY <3>3, <3>4 DEF SaveMoves
  <2> QED BY <2>1, <2>2
<1> QED BY <1>3, <1>4, <1>5, <1>6 DEF ServeInv, ItemMoves

LEMMA CloseStoreServes ==
  ASSUME PoolInv, PoolInv', ServeInv, CloseStore
  PROVE  ServeInv' /\ \A y \in Req : ItemMoves(y)
<1>1. /\ life' = "closed" /\ DOMAIN saves' = {} /\ DOMAIN loads' = {}
      /\ \A r \in Req : put'[r] = NoPut /\ get'[r] = NoGet
  BY DEF CloseStore
<1>2. SavesTyped'
  BY DEF PoolInv, SavesInv
<1>3. Preempting' = Req /\ \A y \in Req : FenceEmpties(y)
  BY <1>1 DEF Preempting, FenceEmpties
<1>4. \A y \in Req : FenceInv(y)' /\ RangeInv(y)'
  BY <1>1, NoPutSound, NoGetTyped DEF FenceInv, RangeInv
<1>5. \A y \in Req : LoadView(y)' = NoneHeld
  BY <1>1, NoGetTyped, LoadViewIsNext
<1>6. \A y \in Req : SaveView(y)' = "none"
  BY <1>1, <1>2, NoPutSound, SaveViewIsNext
<1> QED BY <1>3, <1>4, <1>5, <1>6 DEF ServeInv, ItemMoves, LoadMoves, SaveMoves

-----------------------------------------------------------------------------
(* The executors. *)

\* A PUT of r gets on, or ends.
LEMMA PutServes ==
  ASSUME PoolInv, PoolInv', ServeInv, NEW r \in Req,
         put[r].state \in {"queued", "checking", "reading"},
         put'[r].state \in {"checking", "reading", "ok", "failed"},
         \A y \in Req : y # r => put'[y] = put[y],
         UNCHANGED <<saves, loads, get, lock, life>>
  PROVE  ServeInv' /\ \A y \in Req : ItemMoves(y)
<1>1. SavesTyped /\ SavesTyped' /\ PutsHeld /\ (lock = Waits("put", r) => put[r].state # "queued")
  BY DEF PoolInv, SavesInv, Cancelled
<1>2. \A y \in Req : FenceEmpties(y)
  BY FenceSame
<1>3. lock # Waits("get", r)
  BY DEF ServeInv, FenceInv
<1>4. \A y \in Req : FenceInv(y)'
  BY <1>3 DEF ServeInv, FenceInv
<1>5. \A y \in Req : LoadMoves(y) /\ RangeInv(y)'
  BY LoadsSame DEF ServeInv
<1>6. \A y \in Req : y # r => SaveMoves(y)
  BY SavesSame
<1>7. SaveMoves(r)
  <2>1. CASE r \in DOMAIN saves
    <3>1. lock # Waits("put", r)
      BY <2>1 DEF ServeInv, FenceInv
    <3>2. saves[r].running
      BY <1>1, <3>1 DEF PutsHeld
    <3>3. SaveView(r) = "busy"
      BY <1>1, <2>1, <3>2, SaveViewIs DEF Over
    <3>4. SaveView(r)' \in {"busy", "done"}
      BY <1>1, <2>1, SaveViewIsNext
    <3> QED BY <3>3, <3>4 DEF SaveMoves
  <2>2. CASE r \notin DOMAIN saves
    <3>1. lock = Waits("put", r)
      BY <1>1, <2>2 DEF PutsHeld
    <3>2. r \in Preempting'
      BY <3>1 DEF Preempting
    <3>3. SaveView(r) = "busy"
      BY <1>1, <2>2, <3>1, SaveViewIs
    <3>4. SaveView(r)' \in {"busy", "none"}
      BY <1>1, <2>2, SaveViewIsNext
    <3> QED BY <3>2, <3>3, <3>4 DEF SaveMoves
  <2> QED BY <2>1, <2>2
<1> QED BY <1>2, <1>4, <1>5, <1>6, <1>7 DEF ServeInv, ItemMoves

LEMMA StartGetServes ==
  ASSUME PoolInv, ServeInv, StartGet
  PROVE  ServeInv' /\ \A y \in Req : ItemMoves(y)
<1>1. PICK r \in Req : /\ get[r].state = "queued" /\ get'[r].state = "writing"
                       /\ \A y \in Req : y # r => get'[y] = get[y]
  BY StartGetKeeps
<1>2. /\ get' = [get EXCEPT ![Head(getLane)].state = "writing"]
      /\ UNCHANGED <<saves, put, loads, lock, life>>
  BY DEF StartGet, saveVars
<1>3. get \in [Req -> GetJob]
  BY DEF PoolInv, LoadsInv, LoadsTyped
<1>4. get'[r].from = get[r].from /\ get'[r].to = get[r].to
  <2> DEFINE h == Head(getLane)
  <2>1. get' = [get EXCEPT ![h] = [get[h] EXCEPT !.state = "writing"]]
    BY <1>2
  <2> HIDE DEF h
  <2>2. h = r
    BY <1>1, <1>3, <2>1
  <2>3. get[r] \in GetJob /\ get'[r] = [get[r] EXCEPT !.state = "writing"]
    BY <1>3, <2>1, <2>2
  <2> QED BY <2>3 DEF GetJob
<1>5. LoadView(r)' = LoadView(r)
  BY <1>1, <1>4, LoadViewIs, LoadViewIsNext
<1>6. \A y \in Req : LoadMoves(y) /\ RangeInv(y)'
  <2>1. LoadMoves(r) /\ RangeInv(r)'
    BY <1>1, <1>4, <1>5 DEF LoadMoves, ServeInv, RangeInv
  <2>2. \A y \in Req : y # r => LoadMoves(y) /\ RangeInv(y)'
    BY <1>1, <1>2, LoadsSame DEF ServeInv
  <2> QED BY <2>1, <2>2
<1>7. \A y \in Req : SaveMoves(y) /\ FenceInv(y)' /\ FenceEmpties(y)
  BY <1>2, SavesSame, FenceSame DEF ServeInv, FenceInv
<1> QED BY <1>6, <1>7 DEF ServeInv, ItemMoves

LEMMA GetReturnServes ==
  ASSUME PoolInv, PoolInv', ServeInv, NEW r \in Req,
         NEW bad \in SUBSET RangeBlocks(get[r].from, get[r].to), GetReturn(r, bad)
  PROVE  ServeInv' /\ \A y \in Req : ItemMoves(y)
<1>1. /\ get[r].state = "writing"
      /\ get' = [get EXCEPT ![r] = [get[r] EXCEPT !.state = "done", !.bad = bad]]
      /\ UNCHANGED <<saves, put, loads, lock, life>>
  BY DEF GetReturn, saveVars, PoolInv, LoadsInv, LoadsTyped
<1>2. LoadsTyped /\ LoadsTyped' /\ GetsHeld /\ get[r] \in GetJob /\ RangeInv(r)
  BY DEF PoolInv, LoadsInv, LoadsTyped, ServeInv
<1>3. get'[r] = [get[r] EXCEPT !.state = "done", !.bad = bad] /\ \A y \in Req : y # r => get'[y] = get[y]
  BY <1>1, <1>2 DEF LoadsTyped
<1>4. get'[r].state = "done" /\ get'[r].from = get[r].from /\ get'[r].to = get[r].to
  BY <1>2, <1>3 DEF GetJob
<1>5. LoadMoves(r)
  <2>1. LoadView(r) = [state |-> "busy", from |-> get[r].from, to |-> get[r].to, upto |-> get[r].from]
    BY <1>1, LoadViewIs
  <2>2. CASE r \in DOMAIN loads
    <3>1. LoadView(r)' = [state |-> "done", from |-> get[r].from, to |-> get[r].to, upto |-> Told(r)']
      BY <1>1, <1>4, <2>2, LoadViewIsNext
    <3>2. Told(r)' \in get[r].from .. get[r].to
      <4> DEFINE from == get'[r].from  to == get'[r].to  late == loads'[r]  told == Told(r)'
      <4>1. from \in 0 .. MaxToken /\ to \in 0 .. MaxToken /\ from < to /\ late \in BOOLEAN
        BY <1>1, <1>2, <1>4, <2>2 DEF LoadsTyped, GetJob, RangeInv
      <4>2. told = IF late THEN from ELSE LoadedPrefix(from, to, get'[r].bad)
        BY DEF Told
      <4>3. from = get[r].from /\ to = get[r].to
        BY <1>4
      <4> HIDE DEF from, to, late, told
      <4>4. from <= to
        BY <4>1, PoolAssumption
      <4>5. told \in from .. to
        BY <4>1, <4>2, <4>4, ToldInRange
      <4> QED BY <4>3, <4>5 DEF told
    <3> QED BY <2>1, <3>1, <3>2 DEF LoadMoves
  <2>3. CASE r \notin DOMAIN loads
    <3>1. lock = Waits("get", r)
      BY <1>1, <1>2, <2>3 DEF GetsHeld
    <3>2. r \in Preempting'
      BY <1>1, <3>1 DEF Preempting
    <3>3. LoadView(r)' = NoneHeld
      BY <1>1, <1>4, <2>3, LoadViewIsNext
    <3> QED BY <3>2, <3>3 DEF LoadMoves
  <2> QED BY <2>2, <2>3
<1>6. RangeInv(r)'
  BY <1>1, <1>2, <1>4 DEF RangeInv
<1>7. \A y \in Req : y # r => LoadMoves(y) /\ RangeInv(y)'
  BY <1>1, <1>3, LoadsSame DEF ServeInv
<1>8. \A y \in Req : SaveMoves(y) /\ FenceInv(y)' /\ FenceEmpties(y)
  BY <1>1, SavesSame, FenceSame DEF ServeInv, FenceInv
<1> QED BY <1>5, <1>6, <1>7, <1>8 DEF ServeInv, ItemMoves

\* Steps that touch no save and no load.
LEMMA OtherServes ==
  ASSUME ServeInv, UNCHANGED <<saves, put, loads, get, life>>,
         \/ lock' = lock
         \/ lock \in {Free, <<"reset">>} /\ lock' \in {Free, <<"reset">>}
  PROVE  ServeInv' /\ \A y \in Req : ItemMoves(y)
<1>1. \A y \in Req : /\ lock = Waits("put", y) <=> lock' = Waits("put", y)
                     /\ lock = Waits("get", y) <=> lock' = Waits("get", y)
  BY Locks
<1>2. Preempting' = Preempting
  BY <1>1 DEF Preempting
<1>3. \A y \in Req : FenceInv(y)' /\ FenceEmpties(y)
  BY <1>1, <1>2 DEF ServeInv, FenceInv, FenceEmpties
<1>4. \A y \in Req : SaveMoves(y) /\ LoadMoves(y) /\ RangeInv(y)'
  BY SavesSame, LoadsSame DEF ServeInv
<1> QED BY <1>3, <1>4 DEF ServeInv, ItemMoves

LEMMA PoolServes ==
  ASSUME PoolInv, PoolInv', ServeInv, [PoolNext]_poolVars
  PROVE  ServeInv' /\ \A y \in Req : ItemMoves(y)
<1>1. CASE WorkerCall
  <2>1. ASSUME NEW r \in Req, NEW range \in LoadRange, Load(r, range)
        PROVE  ServeInv' /\ \A y \in Req : ItemMoves(y)
    <3>1. range \in TokenRange
      BY PoolAssumption
    <3> QED BY <2>1, <3>1, LoadServes
  <2>2. ASSUME NEW r \in Req, NEW x \in SaveInput, Save(r, x[1], x[2])
        PROVE  ServeInv' /\ \A y \in Req : ItemMoves(y)
    <3>1. x[1] \in SaveRange /\ x[2] \in Line
      BY PoolAssumption
    <3> QED BY <2>2, <3>1, SaveServes
  <2>3. ASSUME NEW late, Poll(late) PROVE ServeInv' /\ \A y \in Req : ItemMoves(y)
    BY <2>3, PollServes
  <2>4. CASE TakeErrors
    BY <2>4, OtherServes DEF TakeErrors, saveVars
  <2> QED BY <1>1, <2>1, <2>2, <2>3, <2>4, CloseServes, PreemptServes DEF WorkerCall, PollAny
<1>2. CASE ResetBegin \/ ResetEnd
  BY <1>2, OtherServes DEF ResetBegin, ResetEnd, saveVars, loadVars
<1>3. CASE LockHolder
  BY <1>2, <1>3, FenceLoadsServes, PreemptReturnServes, ResetAdvanceServes DEF LockHolder
<1>4. CASE Closer
  BY <1>4, ShutPutsServes, CloseStoreServes DEF Closer
<1>5. CASE StartPut
  <2> DEFINE r == Head(putLane)
  <2>1. /\ putLane # << >> /\ put' = [put EXCEPT ![r].state = "checking"]
        /\ UNCHANGED <<saves, loads, get, lock, life>>
    BY <1>5 DEF StartPut, loadVars
  <2>2. r \in QueuedPuts
    BY <2>1, TailLane DEF PoolInv, SavesInv, PutLaneInv
  <2> HIDE DEF r
  <2>3. r \in Req /\ put[r].state = "queued"
    BY <2>2 DEF QueuedPuts
  <2>4. put'[r].state = "checking" /\ \A y \in Req : y # r => put'[y] = put[y]
    BY <2>1, <2>3, PutStateChange DEF PoolInv, SavesInv, SavesTyped
  <2> QED BY <2>1, <2>3, <2>4, PutServes
<1>6. ASSUME NEW r \in Req, PutStep(r) PROVE ServeInv' /\ \A y \in Req : ItemMoves(y)
  <2>1. PICK x \in {"reading", "ok", "failed"} :
          /\ put[r].state \in {"checking", "reading"} /\ put' = [put EXCEPT ![r].state = x]
          /\ UNCHANGED <<saves, loads, get, lock, life>>
    BY <1>6 DEF PutStep, PutRead, PutSkip, PutReturn, PutEnds, loadVars
  <2>2. put'[r].state = x /\ \A y \in Req : y # r => put'[y] = put[y]
    BY <2>1, PutStateChange DEF PoolInv, SavesInv, SavesTyped
  <2> QED BY <2>1, <2>2, PutServes
<1>7. CASE StartGet
  BY <1>7, StartGetServes
<1>8. ASSUME NEW r \in Req, GetStep(r) PROVE ServeInv' /\ \A y \in Req : ItemMoves(y)
  BY <1>8, GetReturnServes DEF GetStep
<1>9. CASE (\E s \in Signal : Fire(s)) \/ UNCHANGED poolVars
  <2>1. UNCHANGED <<saves, put, loads, get, lock, life>>
    BY <1>9 DEF Fire, poolVars, saveVars, loadVars
  <2> QED BY <2>1, OtherServes
<1> QED BY <1>1, <1>2, <1>3, <1>4, <1>5, <1>6, <1>7, <1>8, <1>9 DEF PoolNext, PutWorker

-----------------------------------------------------------------------------
(* The contracts. *)

\* Moves of all the requests are a step of the service.
LEMMA MovesServe ==
  ASSUME PoolInv', ServeInv', \A r \in Req : ItemMoves(r)
  PROVE  Service!Next
<1> DEFINE load == [r \in Req |-> LoadView(r)]
           save == [r \in Req |-> SaveView(r)]
<1>1. \A r \in Req : /\ load[r] = LoadView(r) /\ load'[r] = LoadView(r)'
                     /\ save[r] = SaveView(r) /\ save'[r] = SaveView(r)'
  OBVIOUS
<1>2. ASSUME NEW r \in Req
      PROVE  LoadView(r)' \in Service!LoadState /\ SaveView(r)' \in Service!SaveState
  <2>1. SavesTyped' /\ LoadsTyped' /\ get'[r] \in GetJob /\ RangeInv(r)' /\ 0 \in 0 .. MaxToken
    BY PoolAssumption DEF PoolInv, SavesInv, LoadsInv, LoadsTyped, ServeInv
  <2>2. SaveView(r)' \in {"none", "busy", "done"}
    BY <2>1, SaveViewIsNext
  <2>3. CASE get'[r].state \in {"queued", "writing"}
    <3>1. LoadView(r)' = [state |-> "busy", from |-> get'[r].from, to |-> get'[r].to, upto |-> get'[r].from]
      BY <2>3, LoadViewIsNext
    <3> QED BY <2>1, <2>2, <3>1 DEF GetJob, Service!LoadState, Service!SaveState
  <2>4. CASE get'[r].state = "done" /\ r \in DOMAIN loads'
    <3> DEFINE from == get'[r].from  to == get'[r].to  late == loads'[r]  told == Told(r)'
    <3>1. from \in 0 .. MaxToken /\ to \in 0 .. MaxToken /\ from < to /\ late \in BOOLEAN
      BY <2>1, <2>4 DEF LoadsTyped, GetJob, RangeInv
    <3>2. told = IF late THEN from ELSE LoadedPrefix(from, to, get'[r].bad)
      BY DEF Told
    <3>3. LoadView(r)' = [state |-> "done", from |-> from, to |-> to, upto |-> told]
      BY <2>4, LoadViewIsNext
    <3> HIDE DEF from, to, late, told
    <3>4. from <= to
      BY <3>1, PoolAssumption
    <3>5. told \in 0 .. MaxToken
      BY <3>1, <3>2, <3>4, ToldInRange
    <3> QED BY <2>2, <3>1, <3>3, <3>5 DEF Service!LoadState, Service!SaveState
  <2>5. CASE get'[r].state = "none" \/ (get'[r].state = "done" /\ r \notin DOMAIN loads')
    <3>1. LoadView(r)' = NoneHeld
      BY <2>5, LoadViewIsNext
    <3> QED BY <2>1, <2>2, <3>1 DEF NoneHeld, Service!LoadState, Service!SaveState
  <2> QED BY <2>1, <2>3, <2>4, <2>5 DEF GetJob
<1>3. Service!TypeOK'
  <2>1. Preempting' \subseteq Req
    BY DEF Preempting
  <2> QED BY <1>2, <2>1 DEF Service!TypeOK
<1>4. ASSUME NEW r \in Req
      PROVE  /\ \/ load'[r] = load[r] \/ Service!LoadBegins(r) \/ Service!LoadEnds(r)
                \/ Service!LoadOver(r)
             /\ \/ save'[r] = save[r] \/ Service!SaveGiven(r) \/ Service!SavesEnd(r)
                \/ Service!SavesOver(r)
             /\ Service!PreemptReturns(r)
  <2>1. \/ load'[r] = load[r]
        \/ load[r] = NoneHeld /\ r \notin Preempting' /\ load'[r].state = "busy"
           /\ load'[r].from < load'[r].to
        \/ /\ load[r].state = "busy" /\ load'[r].upto \in load[r].from .. load[r].to
           /\ load'[r] = [state |-> "done", from |-> load[r].from, to |-> load[r].to,
                          upto |-> load'[r].upto]
        \/ load'[r] = NoneHeld /\ (load[r].state = "done" \/ r \in Preempting')
    <3> HIDE DEF load
    <3> QED BY <1>1 DEF ItemMoves, LoadMoves
  <2>2. \/ load'[r] = load[r] \/ Service!LoadBegins(r) \/ Service!LoadEnds(r) \/ Service!LoadOver(r)
    BY <2>1 DEF Service!LoadBegins, Service!LoadEnds, Service!LoadOver, Service!NoLoad, NoneHeld
  <2>3. \/ save'[r] = save[r]
        \/ r \notin Preempting' /\ save'[r] = "busy"
        \/ save[r] = "busy" /\ save'[r] = "done"
        \/ save'[r] = "none" /\ (save[r] = "done" \/ r \in Preempting')
    <3> HIDE DEF save
    <3> QED BY <1>1 DEF ItemMoves, SaveMoves
  <2>4. \/ save'[r] = save[r] \/ Service!SaveGiven(r) \/ Service!SavesEnd(r) \/ Service!SavesOver(r)
    BY <2>3 DEF Service!SaveGiven, Service!SavesEnd, Service!SavesOver
  <2>5. Service!PreemptReturns(r)
    BY <1>1 DEF ItemMoves, FenceEmpties, Service!PreemptReturns, Service!NoLoad, NoneHeld
  <2> QED BY <2>2, <2>4, <2>5
<1> QED BY <1>3, <1>4 DEF Service!Next

(***************************************************************************)
(* The pool keeps both contracts: blocks are not given back under a Store  *)
(* call, and the worker gets what it counts on from load(), save(), poll() *)
(* and preempt(), whatever the executors, a reset and close() do meanwhile.*)
(***************************************************************************)
THEOREM PoolKeepsContracts == PoolSpec => KeepsContracts
<1>1. PoolInit => ServeInv /\ Service!Init
  <2> SUFFICES ASSUME PoolInit PROVE ServeInv /\ Service!Init
    OBVIOUS
  <2>1. /\ DOMAIN saves = {} /\ DOMAIN loads = {} /\ lock = Free /\ life = "open"
        /\ \A r \in Req : put[r].state = "none" /\ get[r].state = "none"
    BY NoPutSound, NoGetTyped DEF PoolInit
  <2>2. Preempting = {} /\ \A y \in Req : lock # Waits("put", y) /\ lock # Waits("get", y)
    BY <2>1, IdleUnfenced DEF Idle
  <2>3. ServeInv
    BY <2>1, <2>2 DEF ServeInv, FenceInv, RangeInv
  <2>4. \A r \in Req : LoadView(r) = NoneHeld /\ SaveView(r) = "none"
    BY <2>1, LoadViewIs DEF SaveView
  <2> QED BY <2>2, <2>3, <2>4 DEF Service!Init, Service!NoLoad, NoneHeld
<1>2. PoolInv /\ PoolInv' /\ ServeInv /\ [PoolNext]_poolVars => ServeInv' /\ Service!Next
  BY PoolServes, MovesServe
<1>3. PoolInv /\ PoolInv' /\ ServeInv /\ [PoolNext]_poolVars =>
        ServeInv' /\ [Service!Next]_(Service!serviceVars)
  BY <1>2
<1> QED BY <1>1, <1>3, PoolInvariant, PoolKeepsLease, PTL DEF PoolSpec, KeepsContracts, Service!Spec

=============================================================================
