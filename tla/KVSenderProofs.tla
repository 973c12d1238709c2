--------------------------- MODULE KVSenderProofs ---------------------------
(***************************************************************************)
(* Proofs about KVSender, for every size of the engines, any set of        *)
(* requests and any bounds: IInv is inductive, so the sender never reads   *)
(* source blocks that were released, counts its reads exactly, and frees   *)
(* a request's blocks only when every paired D rank has been written.      *)
(***************************************************************************)
EXTENDS KVSender, FiniteSetTheorems, TLAPS

-----------------------------------------------------------------------------
\* Facts about the rank pairing and the counting of rounds.

\* A P rank serves finitely many D ranks.
LEMMA ServedByFinite ==
  ASSUME NEW p \in PRank
  PROVE  IsFiniteSet(ServedBy(p)) /\ Cardinality(ServedBy(p)) \in Nat
<1>1. IsFiniteSet(ServedBy(p))
  <2>1. CASE PTp >= DTp
    BY <2>1, FS_Singleton DEF ServedBy, TargetRanks
  <2>2. CASE ~(PTp >= DTp)
    <3> DEFINE ratio == DTp \div PTp
               low   == p * ratio
    <3>1. ratio \in Int /\ low \in Int
      BY TpAssumption DEF PRank
    <3>2. ServedBy(p) \subseteq low .. (low + ratio)
      <4>1. ServedBy(p) = {low + offset : offset \in 0 .. ratio - 1}
        BY <2>2 DEF ServedBy, TargetRanks
      <4> HIDE DEF ratio, low
      <4> QED BY <4>1, <3>1
    <3> HIDE DEF ratio, low
    <3>3. IsFiniteSet(low .. (low + ratio))
      BY <3>1, FS_Interval
    <3> QED BY <3>2, <3>3, FS_Subset
  <2> QED BY <2>1, <2>2
<1> QED BY <1>1, FS_CardinalityType

\* Only posted messages have a round, so a count of rounds is a number.
LEMMA HoldersFinite ==
  ASSUME IInv, NEW p \in PRank, NEW r \in Req, NEW g \in Gen
  PROVE  /\ Holders(p, r, g) \subseteq posted
         /\ IsFiniteSet(Holders(p, r, g))
         /\ Cardinality(Holders(p, r, g)) \in Nat
<1>1. Holders(p, r, g) \subseteq posted
  BY DEF IInv, Holders, TaskShape
<1> QED BY <1>1, FS_Subset, FS_CardinalityType DEF IInv

\* sending = 0 means what cancel() and poll() take it to mean.
LEMMA QuietUnheld ==
  ASSUME IInv, NEW p \in PRank, NEW r \in Req, NEW g \in Gen
  PROVE  Quiet(p, r, g) <=> Holders(p, r, g) = {}
BY HoldersFinite, FS_EmptySet DEF IInv, Quiet, SendingBalanced

\* A pinned request is undisturbed when its pinned object is quiet.
LEMMA QuietUndisturbed ==
  ASSUME IInv, NEW p \in PRank, NEW r \in Req, lease[p][r] # NoGen,
         Quiet(p, r, lease[p][r])
  PROVE  Undisturbed(p, r)
<1>1. lease[p][r] \in Gen
  BY DEF IInv, SenderTypeOK, Gen, NoGen
<1>2. Holders(p, r, lease[p][r]) = {}
  BY <1>1, QuietUnheld
<1> QED BY <1>2 DEF IInv, RoundsPinned, Holders, Undisturbed, Ref

\* A request without pinned blocks has no round.
LEMMA UnpinnedUndisturbed ==
  ASSUME IInv, NEW p \in PRank, NEW r \in Req, lease[p][r] = NoGen
  PROVE  Undisturbed(p, r)
<1> SUFFICES ASSUME NEW m \in Msg, m.p = p, r \in task[m].round
             PROVE  FALSE
  BY DEF Undisturbed
<1>1. lease[p][r] = task[m].ref[r]
  BY DEF IInv, RoundsPinned, Ref
<1>2. task[m].ref[r] \in 1 .. made[p][r] /\ made[p][r] \in 0 .. MaxGen
  BY DEF IInv, TaskShape, SenderTypeOK
<1> QED BY <1>1, <1>2, SenderAssumption DEF NoGen

-----------------------------------------------------------------------------
(***************************************************************************)
(* The worker thread changes no task and no counter, and makes objects but *)
(* never unmakes one.                                                      *)
(***************************************************************************)
CountersKept ==
  /\ UNCHANGED <<task, served>>
  /\ \A p \in PRank, r \in Req :
       /\ made[p][r] <= made'[p][r]
       /\ \A g \in Gen : /\ meta'[p][r][g].need = meta[p][r][g].need
                        /\ meta'[p][r][g].sent = meta[p][r][g].sent
                        /\ meta'[p][r][g].sending = meta[p][r][g].sending

TaskPart == /\ WireTypeOK /\ IsFiniteSet(posted) /\ AskedOnce /\ TaskShape
            /\ SendingBalanced /\ NeedResolved /\ ServedAsked /\ SentBounded

\* So the parts of IInv about tasks and counters survive its steps.
LEMMA OwnerKeepsTasks ==
  ASSUME IInv, SenderTypeOK', UNCHANGED wireVars, CountersKept
  PROVE  TaskPart'
<1> USE DEF wireVars, CountersKept
<1>1. WireTypeOK' /\ IsFiniteSet(posted)' /\ AskedOnce'
  BY DEF IInv, WireTypeOK, AskedOnce
<1>2. TaskShape'
  <2> SUFFICES ASSUME NEW m \in Msg, NEW r \in task[m].pending \cup task[m].round
               PROVE  task[m].ref[r] \in 1 .. made'[m.p][r]
    BY DEF IInv, TaskShape, Valid
  <2>1. m.p \in PRank /\ r \in Req
    BY DEF Msg, IInv, SenderTypeOK, Task
  <2>2. task[m].ref[r] \in 1 .. made[m.p][r] /\ made[m.p][r] \in Nat
    BY <2>1, SenderAssumption DEF IInv, TaskShape, SenderTypeOK
  <2>3. made'[m.p][r] \in Nat /\ made[m.p][r] <= made'[m.p][r]
    BY <2>1, SenderAssumption DEF SenderTypeOK
  <2> QED BY <2>2, <2>3
<1>3. SendingBalanced'
  BY DEF IInv, SendingBalanced, Holders
<1>4. NeedResolved'
  BY DEF IInv, NeedResolved
<1>5. ServedAsked'
  BY DEF IInv, ServedAsked
<1>6. SentBounded'
  BY DEF IInv, SentBounded, ServedRanks
<1> QED BY <1>1, <1>2, <1>3, <1>4, <1>5, <1>6 DEF TaskPart

\* A captured object of a live request is one of those made.
LEMMA RefMade ==
  ASSUME IInv, NEW m \in Msg, NEW r \in task[m].pending \cup task[m].round
  PROVE  /\ m.p \in PRank /\ r \in Req /\ r \in m.batch
         /\ Ref(m, r) \in Gen /\ Ref(m, r) <= made[m.p][r]
<1>1. m.p \in PRank /\ r \in Req /\ r \in m.batch
  BY DEF Msg, IInv, SenderTypeOK, Task, TaskShape
<1>2. task[m].ref[r] \in 1 .. made[m.p][r] /\ made[m.p][r] \in 0 .. MaxGen
  BY <1>1 DEF IInv, TaskShape, SenderTypeOK
<1> QED BY <1>1, <1>2, SenderAssumption DEF Ref, Gen

-----------------------------------------------------------------------------
(***************************************************************************)
(* The conjuncts of IInv that speak of one request at one P rank, together.*)
(***************************************************************************)
KeyNumbered(p, r) ==
  /\ slot[p][r] <= made[p][r] /\ lease[p][r] <= made[p][r]
  /\ \A g \in Gen : g > made[p][r] =>
       ~meta[p][r][g].ready /\ meta[p][r][g].sent = 0

KeyReady(p, r) ==
  slot[p][r] # NoGen /\ meta[p][r][slot[p][r]].ready => lease[p][r] = slot[p][r]

KeyPinned(p, r) ==
  lease[p][r] # NoGen =>
    /\ phase[p][r] = "sent"
    /\ meta[p][r][lease[p][r]].owned /\ meta[p][r][lease[p][r]].ready
    /\ slot[p][r] # lease[p][r] =>
         <<r, lease[p][r]>> \in fencing[p] \/ Undisturbed(p, r)

KeyFinished(p, r) ==
  r \in finishedSending[p] =>
    /\ phase[p][r] \in {"sent", "over"}
    /\ Undisturbed(p, r)
    /\ slot[p][r] # NoGen => ~meta[p][r][slot[p][r]].ready
    /\ \A d \in ServedBy(p) : <<d, p, r>> \in served

KeyStranger(p, r) ==
  lease[p][r] # NoGen /\ slot[p][r] \notin {NoGen, lease[p][r]} =>
    \E n \in posted : /\ n.p = p /\ r \in n.batch /\ n.d \in ServedBy(p)
                     /\ task[n].stage # "idle" /\ r \notin task[n].round
                     /\ <<n.d, p, r>> \notin served

KeyInv(p, r) == /\ KeyNumbered(p, r) /\ KeyReady(p, r) /\ KeyPinned(p, r)
                /\ KeyFinished(p, r) /\ KeyStranger(p, r)

KeyPart == \A p \in PRank, r \in Req : KeyInv(p, r)

\* IInv gives KeyInv of every request.
LEMMA KeyInvFrom ==
  ASSUME IInv, NEW p \in PRank, NEW r \in Req
  PROVE  KeyInv(p, r)
<1>1. KeyNumbered(p, r)
  BY DEF IInv, Numbering, KeyNumbered
<1>2. KeyReady(p, r)
  BY DEF IInv, ReadyPinned, KeyReady
<1>3. KeyPinned(p, r)
  BY DEF IInv, PinnedSent, KeyPinned
<1>4. KeyFinished(p, r)
  BY DEF IInv, FinishedQuiet, FinishedMeansServed, KeyFinished
<1>5. KeyStranger(p, r)
  BY DEF IInv, Strangers, KeyStranger
<1> QED BY <1>1, <1>2, <1>3, <1>4, <1>5 DEF KeyInv

\* What a step must establish, part by part.
LEMMA IInvFrom ==
  ASSUME SenderTypeOK', TaskPart', RoundsPinned', FenceShape', KeyPart'
  PROVE  IInv'
<1>1. \A x \in PRank : finishedSending'[x] \subseteq Req
  BY DEF SenderTypeOK
<1>2. \A p \in PRank, r \in Req :
        /\ KeyNumbered(p, r)' /\ KeyReady(p, r)' /\ KeyPinned(p, r)'
        /\ KeyFinished(p, r)' /\ KeyStranger(p, r)'
  BY DEF KeyPart, KeyInv
<1>3. Numbering'
  BY <1>2 DEF KeyNumbered, Numbering
<1>4. ReadyPinned'
  BY <1>2 DEF KeyReady, ReadyPinned
<1>5. PinnedSent'
  BY <1>2 DEF KeyPinned, PinnedSent
<1>6. FinishedQuiet' /\ FinishedMeansServed'
  BY <1>1, <1>2 DEF KeyFinished, FinishedQuiet, FinishedMeansServed
<1>7. Strangers'
  BY <1>2 DEF KeyStranger, Strangers
<1> QED BY <1>3, <1>4, <1>5, <1>6, <1>7 DEF IInv, TaskPart

(***************************************************************************)
(* The frame of a step of the worker thread: a request none of whose       *)
(* objects changes in what KeyInv reads keeps KeyInv.                      *)
(***************************************************************************)
ReadyAsBefore(p, r) ==
  \A g \in Gen : /\ meta'[p][r][g].ready = meta[p][r][g].ready
                 /\ meta[p][r][g].owned => meta'[p][r][g].owned

KeyKept(p, r) ==
  /\ slot'[p][r] = slot[p][r] /\ made'[p][r] = made[p][r]
  /\ lease'[p][r] = lease[p][r] /\ phase'[p][r] = phase[p][r]
  /\ r \in finishedSending'[p] => r \in finishedSending[p]
  /\ lease[p][r] # NoGen =>
       (<<r, lease[p][r]>> \in fencing[p] => <<r, lease[p][r]>> \in fencing'[p])
  /\ ReadyAsBefore(p, r)

\* Nothing that KeyInv reads of the request has changed.
LEMMA KeyFrame ==
  ASSUME IInv, NEW p \in PRank, NEW r \in Req, UNCHANGED wireVars,
         CountersKept, KeyKept(p, r)
  PROVE  KeyInv(p, r)'
<1>1. KeyInv(p, r)
  BY KeyInvFrom
<1>2. (slot[p][r] = NoGen \/ slot[p][r] \in Gen) /\ (lease[p][r] = NoGen \/ lease[p][r] \in Gen)
  BY DEF IInv, SenderTypeOK, Gen, NoGen
<1>3. UNCHANGED <<posted, task, served>> /\ (Undisturbed(p, r) => Undisturbed(p, r)')
  BY DEF CountersKept, wireVars, Undisturbed
<1>4. \A g \in Gen : /\ meta'[p][r][g].ready = meta[p][r][g].ready
                     /\ meta[p][r][g].owned => meta'[p][r][g].owned
                     /\ meta'[p][r][g].sent = meta[p][r][g].sent
  BY DEF KeyKept, ReadyAsBefore, CountersKept
<1>5. KeyNumbered(p, r)'
  BY <1>1, <1>4 DEF KeyInv, KeyNumbered, KeyKept
<1>6. KeyReady(p, r)'
  BY <1>1, <1>2, <1>4 DEF KeyInv, KeyReady, KeyKept
<1>7. KeyPinned(p, r)'
  BY <1>1, <1>2, <1>3, <1>4 DEF KeyInv, KeyPinned, KeyKept
<1>8. KeyFinished(p, r)'
  BY <1>1, <1>2, <1>3, <1>4 DEF KeyInv, KeyFinished, KeyKept
<1>9. KeyStranger(p, r)'
  BY <1>1, <1>3 DEF KeyInv, KeyStranger, KeyKept
<1> QED BY <1>5, <1>6, <1>7, <1>8, <1>9 DEF KeyInv

\* What a fence is about: an object of a request, pinned and out of the dictionary.
LEMMA Fenced ==
  ASSUME IInv, NEW p \in PRank, NEW o \in fencing[p]
  PROVE  /\ o[1] \in Req /\ o[2] \in Gen /\ fencing[p] = {o}
         /\ lease[p][o[1]] = o[2] /\ slot[p][o[1]] # o[2]
<1>1. fencing[p] \in SUBSET (Req \X Gen)
  BY DEF IInv, SenderTypeOK
<1>2. o \in Req \X Gen
  BY <1>1
<1>3. o[1] \in Req /\ o[2] \in Gen
  BY <1>2
<1>4. fencing[p] = {o} /\ lease[p][o[1]] = o[2] /\ slot[p][o[1]] # o[2]
  BY DEF IInv, FenceShape
<1> QED BY <1>3, <1>4

\* And rounds stay pinned when none of their pins moves.
LEMMA OwnerKeepsRounds ==
  ASSUME IInv, CountersKept,
         \A m \in Msg : \A r \in task[m].round : lease'[m.p][r] = lease[m.p][r]
  PROVE  RoundsPinned'
<1> SUFFICES ASSUME NEW m \in Msg, NEW r \in task[m].round
             PROVE  /\ lease'[m.p][r] = task[m].ref[r]
                    /\ meta'[m.p][r][Ref(m, r)].need = Cardinality(ServedBy(m.p))
  BY DEF RoundsPinned, CountersKept, Ref, Captured
<1>1. m.p \in PRank /\ r \in Req /\ Ref(m, r) \in Gen
  BY RefMade
<1> QED BY <1>1 DEF IInv, RoundsPinned, CountersKept, Captured

(***************************************************************************)
(* A step of the worker thread on one request p, r keeps IInv when it      *)
(* leaves the others alone and moves the pin only of an undisturbed one.   *)
(***************************************************************************)
LEMMA OneKeyStep ==
  ASSUME IInv, NEW p \in PRank, NEW r \in Req, UNCHANGED wireVars, CountersKept,
         SenderTypeOK', FenceShape', KeyInv(p, r)',
         lease'[p][r] = lease[p][r] \/ Undisturbed(p, r),
         \A x \in PRank, y \in Req : x # p \/ y # r => KeyKept(x, y)
  PROVE  IInv'
<1>1. KeyPart'
  <2> SUFFICES ASSUME NEW x \in PRank, NEW y \in Req
               PROVE  KeyInv(x, y)'
    BY DEF KeyPart
  <2>1. CASE x = p /\ y = r
    BY <2>1
  <2>2. CASE x # p \/ y # r
    BY <2>2, KeyFrame
  <2> QED BY <2>1, <2>2
<1>2. ASSUME NEW m \in Msg, NEW y \in task[m].round
      PROVE  lease'[m.p][y] = lease[m.p][y]
  <2>1. m.p \in PRank /\ y \in Req
    BY RefMade
  <2>2. CASE m.p = p /\ y = r
    BY <2>2 DEF Undisturbed
  <2>3. CASE m.p # p \/ y # r
    BY <2>1, <2>3 DEF KeyKept
  <2> QED BY <2>2, <2>3
<1>3. RoundsPinned'
  BY <1>2, OwnerKeepsRounds
<1> QED BY <1>1, <1>3, OwnerKeepsTasks, IInvFrom

(***************************************************************************)
(* setdefault keeps the object an id has, and gives a new number to one it *)
(* makes.                                                                  *)
(***************************************************************************)
LEMMA SetDefaultEffect ==
  ASSUME IInv, NEW p \in PRank, NEW S \in SUBSET Req, SetDefault(p, S)
  PROVE  /\ slot' \in [PRank -> [Req -> 0 .. MaxGen]]
         /\ made' \in [PRank -> [Req -> 0 .. MaxGen]]
         /\ \A y \in S : Obtained(p, y) \in Gen /\ slot'[p][y] = Obtained(p, y)
         /\ \A x \in PRank, y \in Req :
              /\ ~(x = p /\ y \in S) => slot'[x][y] = slot[x][y]
              /\ made[x][y] <= made'[x][y] /\ slot'[x][y] <= made'[x][y]
              /\ slot'[x][y] = slot[x][y] \/ (slot[x][y] = NoGen /\ slot'[x][y] > made[x][y])
              /\ \A h \in Gen : h > made'[x][y] => h > made[x][y]
<1> USE DEF NoGen
<1>1. SenderTypeOK /\ Numbering
  BY DEF IInv
<1>2. \A y \in S : Obtained(p, y) \in Gen
  BY DEF SetDefault
<1>3. slot' \in [PRank -> [Req -> 0 .. MaxGen]]
  BY <1>1, <1>2 DEF SetDefault, SenderTypeOK, Gen
<1>4. \A x \in PRank, y \in Req :
        slot'[x][y] = IF x = p /\ y \in S THEN Obtained(p, y) ELSE slot[x][y]
  BY <1>1 DEF SetDefault, SenderTypeOK
<1>5. \A x \in PRank, y \in Req :
        made'[x][y] = IF x = p /\ y \in S /\ slot[x][y] = 0 THEN made[x][y] + 1 ELSE made[x][y]
  BY <1>1 DEF SetDefault, SenderTypeOK
<1>6. \A y \in S : slot[p][y] = 0 => made[p][y] + 1 \in Gen
  BY <1>2 DEF Obtained
<1>7. made' \in [PRank -> [Req -> 0 .. MaxGen]]
  <2>1. made' = [made EXCEPT ![p] = [y \in Req |->
                  IF y \in S /\ slot[p][y] = 0 THEN made[p][y] + 1 ELSE made[p][y]]]
    BY <1>1 DEF SetDefault, SenderTypeOK
  <2>2. \A y \in Req : made[p][y] \in 0 .. MaxGen
    BY <1>1 DEF SenderTypeOK
  <2>3. [y \in Req |-> IF y \in S /\ slot[p][y] = 0 THEN made[p][y] + 1 ELSE made[p][y]]
          \in [Req -> 0 .. MaxGen]
    BY <1>6, <2>2 DEF Gen
  <2> QED BY <1>1, <2>1, <2>3 DEF SenderTypeOK
<1>8. ASSUME NEW x \in PRank, NEW y \in Req
      PROVE  /\ made[x][y] <= made'[x][y] /\ slot'[x][y] <= made'[x][y]
             /\ slot'[x][y] = slot[x][y] \/ (slot[x][y] = 0 /\ slot'[x][y] > made[x][y])
             /\ \A h \in Gen : h > made'[x][y] => h > made[x][y]
  <2>1. made[x][y] \in Nat /\ slot[x][y] \in Nat /\ slot[x][y] <= made[x][y]
    BY <1>1, SenderAssumption DEF SenderTypeOK, Numbering
  <2>2. CASE x = p /\ y \in S /\ slot[x][y] = 0
    BY <1>4, <1>5, <2>1, <2>2 DEF Obtained, Gen
  <2>3. CASE ~(x = p /\ y \in S /\ slot[x][y] = 0)
    BY <1>4, <1>5, <2>1, <2>3 DEF Obtained
  <2> QED BY <2>2, <2>3
<1> QED BY <1>2, <1>3, <1>4, <1>7, <1>8

\* The same for the one id that prepare() and send() set.
LEMMA SetDefaultOne ==
  ASSUME IInv, NEW p \in PRank, NEW r \in Req, SetDefault(p, {r})
  PROVE  /\ slot' \in [PRank -> [Req -> 0 .. MaxGen]]
         /\ made' \in [PRank -> [Req -> 0 .. MaxGen]]
         /\ Obtained(p, r) \in Gen /\ slot'[p][r] = Obtained(p, r)
         /\ slot'[p][r] = slot[p][r] \/ (slot[p][r] = NoGen /\ slot'[p][r] > made[p][r])
         /\ slot'[p][r] <= made'[p][r]
         /\ \A x \in PRank, y \in Req :
              /\ made[x][y] <= made'[x][y]
              /\ \A h \in Gen : h > made'[x][y] => h > made[x][y]
              /\ x # p \/ y # r => slot'[x][y] = slot[x][y] /\ made'[x][y] = made[x][y]
<1>1. {r} \in SUBSET Req
  OBVIOUS
<1>2. \A x \in PRank, y \in Req : x # p \/ y # r => made'[x][y] = made[x][y]
  BY DEF SetDefault, IInv, SenderTypeOK
<1> QED BY <1>1, <1>2, SetDefaultEffect

(***************************************************************************)
(* The worker thread may name an object, publish it, let it lapse; it      *)
(* never touches the counters.                                             *)
(***************************************************************************)
Relabelled(o, v) ==
  /\ v \in SendBlockMeta
  /\ v.need = o.need /\ v.sent = o.sent /\ v.sending = o.sending
  /\ o.owned => v.owned

OnlyRelabelled(p, r, g, v) ==
  /\ meta' \in [PRank -> [Req -> [Gen -> SendBlockMeta]]]
  /\ meta'[p][r][g] = v
  /\ \A x \in PRank, y \in Req, h \in Gen :
       /\ x # p \/ y # r \/ h # g => meta'[x][y][h] = meta[x][y][h]
       /\ meta'[x][y][h].need = meta[x][y][h].need
       /\ meta'[x][y][h].sent = meta[x][y][h].sent
       /\ meta'[x][y][h].sending = meta[x][y][h].sending
  /\ \A x \in PRank, y \in Req : x # p \/ y # r => ReadyAsBefore(x, y)
  /\ v.ready = meta[p][r][g].ready => ReadyAsBefore(p, r)

\* Such a change of one object leaves the others, and all counters, alone.
LEMMA Relabel ==
  ASSUME IInv, NEW p \in PRank, NEW r \in Req, NEW g \in Gen, NEW v,
         Relabelled(meta[p][r][g], v), meta' = [meta EXCEPT ![p][r][g] = v]
  PROVE  OnlyRelabelled(p, r, g, v)
<1>1. v \in SendBlockMeta /\ SenderTypeOK
  BY DEF Relabelled, IInv
<1>2. /\ meta' \in [PRank -> [Req -> [Gen -> SendBlockMeta]]]
      /\ meta'[p][r][g] = v
      /\ \A x \in PRank, y \in Req, h \in Gen :
           x # p \/ y # r \/ h # g => meta'[x][y][h] = meta[x][y][h]
  BY <1>1 DEF SenderTypeOK
<1>3. ASSUME NEW x \in PRank, NEW y \in Req, NEW h \in Gen
      PROVE  /\ meta'[x][y][h].need = meta[x][y][h].need
             /\ meta'[x][y][h].sent = meta[x][y][h].sent
             /\ meta'[x][y][h].sending = meta[x][y][h].sending
  BY <1>2 DEF Relabelled
<1>4. \A x \in PRank, y \in Req : x # p \/ y # r => ReadyAsBefore(x, y)
  BY <1>2 DEF ReadyAsBefore
<1>5. v.ready = meta[p][r][g].ready => ReadyAsBefore(p, r)
  BY <1>2 DEF Relabelled, ReadyAsBefore
<1>6. \A x \in PRank, y \in Req, h \in Gen :
        /\ x # p \/ y # r \/ h # g => meta'[x][y][h] = meta[x][y][h]
        /\ meta'[x][y][h].need = meta[x][y][h].need
        /\ meta'[x][y][h].sent = meta[x][y][h].sent
        /\ meta'[x][y][h].sending = meta[x][y][h].sending
  BY <1>2, <1>3
<1> QED BY <1>2, <1>4, <1>5, <1>6, Zenon DEF OnlyRelabelled

\* prepare() may make an object or name one; none becomes ready.
LEMMA PrepareStep ==
  ASSUME IInv, NEW p \in PRank, NEW r \in Req, Prepare(p, r)
  PROVE  IInv'
<1> DEFINE g == Obtained(p, r)
           v == [meta[p][r][g] EXCEPT !.owned = TRUE]
<1>1. /\ fencing[p] = {} /\ phase[p][r] = "new"
      /\ SetDefault(p, {r})
      /\ phase' = [phase EXCEPT ![p][r] = "prepared"]
      /\ UNCHANGED <<wireVars, finishedSending, task, fencing, withdrawn, lease, served>>
  BY DEF Prepare, Free
<1>2. SenderTypeOK /\ KeyInv(p, r)
  BY KeyInvFrom DEF IInv
<1>3. g \in Gen /\ slot'[p][r] = g
  BY <1>1, SetDefaultOne
<1>4. Relabelled(meta[p][r][g], v) /\ meta' = [meta EXCEPT ![p][r][g] = v]
      /\ v.ready = meta[p][r][g].ready
  <2>1. meta[p][r][g] \in SendBlockMeta
    BY <1>2, <1>3 DEF SenderTypeOK
  <2> QED BY <2>1, <1>2, <1>3 DEF SendBlockMeta, Prepare, SenderTypeOK, Relabelled
<1> HIDE DEF g, v
<1>5. OnlyRelabelled(p, r, g, v) /\ ReadyAsBefore(p, r)
  <2>1. OnlyRelabelled(p, r, g, v)
    BY <1>3, <1>4, Relabel
  <2> QED BY <1>4, <2>1 DEF OnlyRelabelled
<1>6. /\ phase'[p][r] = "prepared"
      /\ \A x \in PRank, y \in Req : x # p \/ y # r => phase'[x][y] = phase[x][y]
      /\ phase' \in [PRank -> [Req -> {"new", "prepared", "sent", "over"}]]
  BY <1>1, <1>2 DEF SenderTypeOK
<1>7. SenderTypeOK'
  <2>1. /\ slot' \in [PRank -> [Req -> 0 .. MaxGen]]
        /\ made' \in [PRank -> [Req -> 0 .. MaxGen]]
    BY <1>1, SetDefaultOne
  <2>2. meta' \in [PRank -> [Req -> [Gen -> SendBlockMeta]]]
    BY <1>5 DEF OnlyRelabelled
  <2> QED BY <1>1, <1>2, <1>6, <2>1, <2>2 DEF SenderTypeOK
<1>8. lease[p][r] = NoGen /\ r \notin finishedSending[p]
  BY <1>1, <1>2 DEF KeyInv, KeyPinned, KeyFinished
<1>9. CountersKept
  <2>1. \A x \in PRank, y \in Req : made[x][y] <= made'[x][y]
    BY <1>1, SetDefaultOne
  <2>2. \A x \in PRank, y \in Req, h \in Gen :
          /\ meta'[x][y][h].need = meta[x][y][h].need
          /\ meta'[x][y][h].sent = meta[x][y][h].sent
          /\ meta'[x][y][h].sending = meta[x][y][h].sending
    BY <1>5 DEF OnlyRelabelled
  <2>3. UNCHANGED <<task, served>>
    BY <1>1
  <2> QED BY <2>1, <2>2, <2>3 DEF CountersKept
<1>10. ASSUME NEW x \in PRank, NEW y \in Req, x # p \/ y # r
       PROVE  KeyKept(x, y)
  <2>1. slot'[x][y] = slot[x][y] /\ made'[x][y] = made[x][y]
    BY <1>1, <1>10, SetDefaultOne
  <2>2. ReadyAsBefore(x, y)
    BY <1>5, <1>10 DEF OnlyRelabelled
  <2> QED BY <1>1, <1>6, <1>10, <2>1, <2>2 DEF KeyKept
<1>11. FenceShape'
  <2> SUFFICES ASSUME NEW x \in PRank, NEW o \in fencing[x]
               PROVE  fencing[x] = {o} /\ lease'[x][o[1]] = o[2] /\ slot'[x][o[1]] # o[2]
    BY <1>1 DEF FenceShape
  <2>1. x # p
    BY <1>1
  <2>2. o[1] \in Req /\ fencing[x] = {o} /\ lease[x][o[1]] = o[2] /\ slot[x][o[1]] # o[2]
    BY Fenced
  <2>3. KeyKept(x, o[1])
    BY <1>10, <2>1, <2>2
  <2> QED BY <2>2, <2>3 DEF KeyKept
<1>12. KeyInv(p, r)'
  <2>1. 0 <= made'[p][r]
    BY <1>7, SenderAssumption DEF SenderTypeOK
  <2>2. \A h \in Gen : h > made'[p][r] => ~meta'[p][r][h].ready /\ meta'[p][r][h].sent = 0
    <3>1. \A h \in Gen : h > made'[p][r] => h > made[p][r]
      BY <1>1, SetDefaultOne
    <3> QED BY <1>2, <1>5, <1>9, <3>1 DEF KeyInv, KeyNumbered, ReadyAsBefore, CountersKept
  <2>3. ~meta'[p][r][g].ready
    <3>1. g = slot[p][r] \/ g > made[p][r]
      BY <1>1, <1>3, SetDefaultOne
    <3> QED BY <1>2, <1>3, <1>5, <1>8, <3>1
            DEF KeyInv, KeyNumbered, KeyReady, ReadyAsBefore, Gen, NoGen
  <2> QED BY <1>1, <1>3, <1>8, <2>1, <2>2, <2>3, SetDefaultOne
          DEF KeyInv, KeyNumbered, KeyReady, KeyPinned, KeyFinished, KeyStranger, NoGen
<1> QED BY <1>1, <1>7, <1>8, <1>9, <1>10, <1>11, <1>12, OneKeyStep

\* send() pins the object that it publishes.
LEMMA SendStep ==
  ASSUME IInv, NEW p \in PRank, NEW r \in Req, Send(p, r)
  PROVE  IInv'
<1> DEFINE g == Obtained(p, r)
           v == [meta[p][r][g] EXCEPT !.owned = TRUE, !.ready = TRUE]
<1>1. /\ fencing[p] = {} /\ phase[p][r] = "prepared"
      /\ SetDefault(p, {r})
      /\ phase' = [phase EXCEPT ![p][r] = "sent"]
      /\ lease' = [lease EXCEPT ![p][r] = g]
      /\ UNCHANGED <<wireVars, finishedSending, task, fencing, withdrawn, served>>
  BY DEF Send, Free
<1>2. SenderTypeOK /\ KeyInv(p, r)
  BY KeyInvFrom DEF IInv
<1>3. g \in Gen /\ slot'[p][r] = g
  BY <1>1, SetDefaultOne
<1>4. /\ Relabelled(meta[p][r][g], v) /\ v.owned /\ v.ready
      /\ meta' = [meta EXCEPT ![p][r][g] = v]
  <2>1. meta[p][r][g] \in SendBlockMeta
    BY <1>2, <1>3 DEF SenderTypeOK
  <2>2. Relabelled(meta[p][r][g], v) /\ v.owned /\ v.ready
    BY <2>1 DEF SendBlockMeta, Relabelled
  <2>3. meta' = [meta EXCEPT ![p][r][g] = v]
    BY <1>2, <1>3 DEF Send, SenderTypeOK
  <2> QED BY <2>2, <2>3
<1> HIDE DEF g, v
<1>5. OnlyRelabelled(p, r, g, v)
  BY <1>3, <1>4, Relabel
<1>6. /\ phase'[p][r] = "sent" /\ lease'[p][r] = g
      /\ \A x \in PRank, y \in Req :
           x # p \/ y # r => phase'[x][y] = phase[x][y] /\ lease'[x][y] = lease[x][y]
      /\ phase' \in [PRank -> [Req -> {"new", "prepared", "sent", "over"}]]
      /\ lease' \in [PRank -> [Req -> 0 .. MaxGen]]
  <2>1. g \in 0 .. MaxGen
    BY <1>3 DEF Gen
  <2> QED BY <1>1, <1>2, <2>1 DEF SenderTypeOK
<1>7. SenderTypeOK'
  <2>1. /\ slot' \in [PRank -> [Req -> 0 .. MaxGen]]
        /\ made' \in [PRank -> [Req -> 0 .. MaxGen]]
    BY <1>1, SetDefaultOne
  <2>2. meta' \in [PRank -> [Req -> [Gen -> SendBlockMeta]]]
    BY <1>5 DEF OnlyRelabelled
  <2> QED BY <1>1, <1>2, <1>6, <2>1, <2>2 DEF SenderTypeOK
<1>8. lease[p][r] = NoGen /\ r \notin finishedSending[p] /\ Undisturbed(p, r)
  BY <1>1, <1>2, UnpinnedUndisturbed DEF KeyInv, KeyPinned, KeyFinished
<1>9. CountersKept
  <2>1. \A x \in PRank, y \in Req : made[x][y] <= made'[x][y]
    BY <1>1, SetDefaultOne
  <2>2. \A x \in PRank, y \in Req, h \in Gen :
          /\ meta'[x][y][h].need = meta[x][y][h].need
          /\ meta'[x][y][h].sent = meta[x][y][h].sent
          /\ meta'[x][y][h].sending = meta[x][y][h].sending
    BY <1>5 DEF OnlyRelabelled
  <2>3. UNCHANGED <<task, served>>
    BY <1>1
  <2> QED BY <2>1, <2>2, <2>3 DEF CountersKept
<1>10. ASSUME NEW x \in PRank, NEW y \in Req, x # p \/ y # r
       PROVE  KeyKept(x, y)
  <2>1. slot'[x][y] = slot[x][y] /\ made'[x][y] = made[x][y]
    BY <1>1, <1>10, SetDefaultOne
  <2>2. ReadyAsBefore(x, y)
    BY <1>5, <1>10 DEF OnlyRelabelled
  <2> QED BY <1>1, <1>6, <1>10, <2>1, <2>2 DEF KeyKept
<1>11. FenceShape'
  <2> SUFFICES ASSUME NEW x \in PRank, NEW o \in fencing[x]
               PROVE  fencing[x] = {o} /\ lease'[x][o[1]] = o[2] /\ slot'[x][o[1]] # o[2]
    BY <1>1 DEF FenceShape
  <2>1. x # p
    BY <1>1
  <2>2. o[1] \in Req /\ fencing[x] = {o} /\ lease[x][o[1]] = o[2] /\ slot[x][o[1]] # o[2]
    BY Fenced
  <2>3. KeyKept(x, o[1])
    BY <1>10, <2>1, <2>2
  <2> QED BY <2>2, <2>3 DEF KeyKept
<1>12. KeyInv(p, r)'
  <2>1. ASSUME NEW h \in Gen, h > made'[p][r]
        PROVE  ~meta'[p][r][h].ready /\ meta'[p][r][h].sent = 0
    <3>1. h > made[p][r] /\ g <= made'[p][r]
      BY <1>1, <1>3, <2>1, SetDefaultOne
    <3>2. h # g
      <4>1. made'[p][r] \in Nat /\ h \in Nat /\ g \in Nat
        BY <1>3, <1>7, SenderAssumption DEF SenderTypeOK, Gen
      <4> QED BY <2>1, <3>1, <4>1
    <3> QED BY <1>2, <1>5, <3>1, <3>2 DEF KeyInv, KeyNumbered, OnlyRelabelled
  <2>2. meta'[p][r][g].owned /\ meta'[p][r][g].ready
    BY <1>4, <1>5 DEF OnlyRelabelled
  <2>3. g <= made'[p][r]
    BY <1>1, <1>3, SetDefaultOne
  <2> QED BY <1>1, <1>3, <1>6, <1>8, <2>1, <2>2, <2>3
          DEF KeyInv, KeyNumbered, KeyReady, KeyPinned, KeyFinished, KeyStranger
<1> QED BY <1>1, <1>7, <1>8, <1>9, <1>10, <1>11, <1>12, OneKeyStep

-----------------------------------------------------------------------------
\* Taking a request back: cancel(), preempt() and the end of their wait.

\* Only the pinned object is ever held by a round.
LEMMA UnquietPinned ==
  ASSUME IInv, NEW p \in PRank, NEW r \in Req, NEW g \in Gen, ~Quiet(p, r, g)
  PROVE  lease[p][r] = g
<1>1. Holders(p, r, g) # {}
  BY QuietUnheld
<1> QED BY <1>1 DEF Holders, IInv, RoundsPinned

\* With the worker thread free, a request is disturbed only through the object
\* that reqs_need_send still holds.
LEMMA FreeUndisturbed ==
  ASSUME IInv, NEW p \in PRank, NEW r \in Req, Free(p),
         slot[p][r] # lease[p][r] \/ Quiet(p, r, slot[p][r])
  PROVE  Undisturbed(p, r)
<1>1. CASE lease[p][r] = NoGen
  BY <1>1, UnpinnedUndisturbed
<1>2. CASE lease[p][r] # NoGen /\ slot[p][r] # lease[p][r]
  BY <1>2, KeyInvFrom DEF KeyInv, KeyPinned, Free
<1>3. CASE lease[p][r] # NoGen /\ slot[p][r] = lease[p][r]
  BY <1>3, QuietUndisturbed
<1> QED BY <1>1, <1>2, <1>3

\* The blocks go back to the engine; the thread is free again.
GivenBack(p, r) ==
  /\ lease' = [lease EXCEPT ![p][r] = NoGen]
  /\ phase' = [phase EXCEPT ![p][r] = "over"]
  /\ \/ finishedSending' = finishedSending
     \/ finishedSending' = [finishedSending EXCEPT ![p] = @ \ {r}]
  /\ fencing' = [fencing EXCEPT ![p] = {}]
  /\ UNCHANGED <<wireVars, made, task, withdrawn, served>>

\* What reqs_need_send keeps of the request, if anything, is not ready.
Removed(p, r) ==
  /\ slot' \in [PRank -> [Req -> 0 .. MaxGen]]
  /\ \A x \in PRank, y \in Req : x # p \/ y # r => slot'[x][y] = slot[x][y]
  /\ slot'[p][r] = NoGen \/ /\ slot'[p][r] = slot[p][r]
                            /\ ~meta[p][r][slot[p][r]].ready /\ UNCHANGED meta

\* Handing back the blocks of an undisturbed request keeps IInv.
LEMMA GiveBackStep ==
  ASSUME IInv, NEW p \in PRank, NEW r \in Req, NEW g \in Gen, NEW v,
         GivenBack(p, r), Removed(p, r), Undisturbed(p, r),
         UNCHANGED meta \/ (OnlyRelabelled(p, r, g, v) /\ g <= made[p][r]),
         \A o \in fencing[p] : o[1] = r
  PROVE  IInv'
<1> USE DEF NoGen
<1>1. SenderTypeOK /\ KeyInv(p, r)
  BY KeyInvFrom DEF IInv
<1>2. /\ lease'[p][r] = 0 /\ phase'[p][r] = "over" /\ fencing'[p] = {}
      /\ \A x \in PRank, y \in Req : x # p \/ y # r =>
           /\ phase'[x][y] = phase[x][y] /\ lease'[x][y] = lease[x][y]
           /\ y \in finishedSending'[x] => y \in finishedSending[x]
      /\ \A x \in PRank : x # p => fencing'[x] = fencing[x]
      /\ r \in finishedSending'[p] => r \in finishedSending[p]
  BY <1>1 DEF GivenBack, SenderTypeOK
<1>3. /\ \A x \in PRank, y \in Req, h \in Gen :
           /\ x # p \/ y # r \/ h # g => meta'[x][y][h] = meta[x][y][h]
           /\ meta'[x][y][h].need = meta[x][y][h].need
           /\ meta'[x][y][h].sent = meta[x][y][h].sent
           /\ meta'[x][y][h].sending = meta[x][y][h].sending
      /\ meta' \in [PRank -> [Req -> [Gen -> SendBlockMeta]]]
      /\ \A x \in PRank, y \in Req : x # p \/ y # r => ReadyAsBefore(x, y)
  BY <1>1 DEF OnlyRelabelled, ReadyAsBefore, SenderTypeOK
<1>4. SenderTypeOK'
  <2>1. lease' \in [PRank -> [Req -> 0 .. MaxGen]]
    BY <1>1, SenderAssumption DEF GivenBack, SenderTypeOK
  <2>2. phase' \in [PRank -> [Req -> {"new", "prepared", "sent", "over"}]]
    BY <1>1 DEF GivenBack, SenderTypeOK
  <2>3. finishedSending' \in [PRank -> SUBSET Req]
    <3>1. finishedSending \in [PRank -> SUBSET Req]
      BY <1>1 DEF SenderTypeOK
    <3>2. CASE finishedSending' = finishedSending
      BY <3>1, <3>2
    <3>3. CASE finishedSending' = [finishedSending EXCEPT ![p] = @ \ {r}]
      BY <3>1, <3>3
    <3> QED BY <3>2, <3>3 DEF GivenBack
  <2>5. fencing' \in [PRank -> SUBSET (Req \X Gen)]
    <3>1. fencing \in [PRank -> SUBSET (Req \X Gen)]
      BY <1>1 DEF SenderTypeOK
    <3>2. fencing' = [fencing EXCEPT ![p] = {}]
      BY DEF GivenBack
    <3> QED BY <3>1, <3>2
  <2>4. /\ slot' \in [PRank -> [Req -> 0 .. MaxGen]]
        /\ UNCHANGED <<made, task, withdrawn, served>>
    BY DEF GivenBack, Removed
  <2> QED BY <1>1, <1>3, <2>1, <2>2, <2>3, <2>4, <2>5 DEF SenderTypeOK
<1>5. CountersKept
  <2>1. \A x \in PRank, y \in Req : made[x][y] <= made'[x][y]
    BY <1>1, SenderAssumption DEF GivenBack, SenderTypeOK
  <2> QED BY <1>3, <2>1 DEF CountersKept, GivenBack
<1>6. ASSUME NEW x \in PRank, NEW y \in Req, x # p \/ y # r
      PROVE  KeyKept(x, y)
  <2>1. <<y, lease[x][y]>> \in fencing[x] => <<y, lease[x][y]>> \in fencing'[x]
    BY <1>2, <1>6
  <2> QED BY <1>2, <1>3, <1>6, <2>1 DEF KeyKept, GivenBack, Removed
<1>7. FenceShape'
  <2> SUFFICES ASSUME NEW x \in PRank, NEW o \in fencing'[x]
               PROVE  /\ fencing'[x] = {o}
                      /\ lease'[x][o[1]] = o[2] /\ slot'[x][o[1]] # o[2]
    BY DEF FenceShape
  <2>1. x # p /\ fencing'[x] = fencing[x]
    BY <1>2
  <2>2. o[1] \in Req /\ fencing[x] = {o} /\ lease[x][o[1]] = o[2] /\ slot[x][o[1]] # o[2]
    BY <2>1, Fenced
  <2>3. KeyKept(x, o[1])
    BY <1>6, <2>1, <2>2
  <2> QED BY <2>1, <2>2, <2>3 DEF KeyKept
<1>8. KeyInv(p, r)'
  <2>1. made'[p][r] = made[p][r] /\ 0 <= made[p][r] /\ made[p][r] \in Nat
    BY <1>1, SenderAssumption DEF GivenBack, SenderTypeOK
  <2>2. slot'[p][r] <= made[p][r] /\ lease'[p][r] <= made[p][r]
    BY <1>1, <1>2, <2>1 DEF Removed, KeyInv, KeyNumbered
  <2>3. ASSUME NEW h \in Gen, h > made[p][r]
        PROVE  ~meta'[p][r][h].ready /\ meta'[p][r][h].sent = 0
    <3>1. h # g \/ UNCHANGED meta
      BY <2>1, <2>3 DEF Gen
    <3> QED BY <1>1, <1>3, <2>3, <3>1 DEF KeyInv, KeyNumbered
  <2>4. slot'[p][r] # 0 => ~meta'[p][r][slot'[p][r]].ready
    BY DEF Removed
  <2>5. Undisturbed(p, r)' /\ UNCHANGED served
    BY DEF Undisturbed, GivenBack
  <2> QED BY <1>1, <1>2, <2>1, <2>2, <2>3, <2>4, <2>5
          DEF KeyInv, KeyNumbered, KeyReady, KeyPinned, KeyFinished, KeyStranger
<1>9. UNCHANGED wireVars
  BY DEF GivenBack
<1> QED BY <1>4, <1>5, <1>6, <1>7, <1>8, <1>9, OneKeyStep

\* An object whose waiters are woken when it is popped.
LEMMA Wakened ==
  ASSUME IInv, NEW p \in PRank, NEW r \in Req, slot[p][r] # NoGen,
         meta' = [meta EXCEPT ![p][r][slot[p][r]].ready = TRUE]
  PROVE  /\ slot[p][r] \in Gen /\ slot[p][r] <= made[p][r]
         /\ \E v : OnlyRelabelled(p, r, slot[p][r], v) /\ v.owned = meta[p][r][slot[p][r]].owned
                   /\ v.ready
<1> DEFINE g == slot[p][r]
           v == [meta[p][r][g] EXCEPT !.ready = TRUE]
<1>1. g \in Gen /\ g <= made[p][r] /\ SenderTypeOK
  <2>1. SenderTypeOK /\ KeyInv(p, r)
    BY KeyInvFrom DEF IInv
  <2>2. slot[p][r] \in 0 .. MaxGen
    BY <2>1 DEF SenderTypeOK
  <2> QED BY <2>1, <2>2, SenderAssumption DEF KeyInv, KeyNumbered, Gen, NoGen
<1>2. meta[p][r][g] \in SendBlockMeta
  BY <1>1 DEF SenderTypeOK
<1>3. Relabelled(meta[p][r][g], v) /\ v.ready /\ v.owned = meta[p][r][g].owned
  BY <1>2 DEF Relabelled, SendBlockMeta
<1>4. meta' = [meta EXCEPT ![p][r][g] = v]
  BY <1>1 DEF SenderTypeOK
<1> HIDE DEF g, v
<1>5. OnlyRelabelled(p, r, g, v)
  BY <1>1, <1>3, <1>4, Relabel
<1> QED BY <1>1, <1>3, <1>5 DEF g

(***************************************************************************)
(* The object is popped, but a write still reads its blocks: the worker    *)
(* thread waits, and the blocks stay pinned.                               *)
(***************************************************************************)
LEMMA FenceStep ==
  ASSUME IInv, NEW p \in PRank, NEW r \in Req, Free(p), slot[p][r] # NoGen,
         CancelSend(p, r, slot[p][r]), ~Quiet(p, r, slot[p][r]),
         UNCHANGED <<wireVars, made, task, withdrawn, served>>
  PROVE  IInv'
<1> DEFINE g == slot[p][r]
<1>1. SenderTypeOK /\ KeyInv(p, r) /\ fencing[p] = {}
  BY KeyInvFrom DEF IInv, Free
<1>2. PICK v : OnlyRelabelled(p, r, g, v) /\ v.owned = meta[p][r][g].owned /\ v.ready
  BY Wakened DEF CancelSend
<1>3. g \in Gen /\ g <= made[p][r]
  BY Wakened DEF CancelSend
<1>4. lease[p][r] = g
  BY <1>3, UnquietPinned
<1>5. /\ slot' = [slot EXCEPT ![p][r] = NoGen]
      /\ fencing' = [fencing EXCEPT ![p] = {<<r, g>>}]
      /\ UNCHANGED <<finishedSending, phase, lease>>
  BY DEF CancelSend
<1>6. /\ slot'[p][r] = NoGen /\ fencing'[p] = {<<r, g>>}
      /\ \A x \in PRank, y \in Req : x # p \/ y # r => slot'[x][y] = slot[x][y]
      /\ \A x \in PRank : x # p => fencing'[x] = fencing[x]
      /\ slot' \in [PRank -> [Req -> 0 .. MaxGen]]
      /\ fencing' \in [PRank -> SUBSET (Req \X Gen)]
  <2>1. slot' \in [PRank -> [Req -> 0 .. MaxGen]]
    BY <1>1, <1>5, SenderAssumption DEF SenderTypeOK, NoGen
  <2>2. fencing' \in [PRank -> SUBSET (Req \X Gen)]
    BY <1>1, <1>3, <1>5 DEF SenderTypeOK
  <2> QED BY <1>1, <1>5, <2>1, <2>2 DEF SenderTypeOK
<1> HIDE DEF g
<1>7. SenderTypeOK'
  BY <1>1, <1>2, <1>5, <1>6 DEF SenderTypeOK, OnlyRelabelled
<1>8. CountersKept
  <2>1. \A x \in PRank, y \in Req : made[x][y] <= made'[x][y]
    BY <1>1, SenderAssumption DEF SenderTypeOK
  <2> QED BY <1>2, <2>1 DEF CountersKept, OnlyRelabelled
<1>9. ASSUME NEW x \in PRank, NEW y \in Req, x # p \/ y # r
      PROVE  KeyKept(x, y)
  <2>1. fencing[x] \subseteq fencing'[x]
    BY <1>1, <1>6
  <2>2. ReadyAsBefore(x, y)
    BY <1>2, <1>9 DEF OnlyRelabelled
  <2> QED BY <1>5, <1>6, <1>9, <2>1, <2>2 DEF KeyKept
<1>10. FenceShape'
  <2> SUFFICES ASSUME NEW x \in PRank, NEW o \in fencing'[x]
               PROVE  /\ fencing'[x] = {o}
                      /\ lease'[x][o[1]] = o[2] /\ slot'[x][o[1]] # o[2]
    BY DEF FenceShape
  <2>1. CASE x = p
    BY <1>3, <1>4, <1>5, <1>6, <2>1 DEF Gen, NoGen
  <2>2. CASE x # p
    <3>1. o[1] \in Req /\ o \in fencing[x]
      BY <1>1, <1>6, <2>2 DEF SenderTypeOK
    <3> QED BY <1>5, <1>6, <2>2, <3>1 DEF IInv, FenceShape
  <2> QED BY <2>1, <2>2
<1>11. KeyInv(p, r)'
  <2>1. ASSUME NEW h \in Gen, h > made[p][r]
        PROVE  ~meta'[p][r][h].ready /\ meta'[p][r][h].sent = 0
    <3>1. h # g
      BY <1>1, <1>3, <2>1, SenderAssumption DEF SenderTypeOK, Gen
    <3> QED BY <1>1, <1>2, <2>1, <3>1 DEF KeyInv, KeyNumbered, OnlyRelabelled
  <2>2. meta'[p][r][g].owned /\ meta'[p][r][g].ready
    BY <1>1, <1>2, <1>3, <1>4 DEF KeyInv, KeyPinned, OnlyRelabelled, Gen, NoGen
  <2>3. 0 <= made[p][r]
    BY <1>1, SenderAssumption DEF SenderTypeOK
  <2>4. Undisturbed(p, r) => Undisturbed(p, r)'
    BY DEF Undisturbed
  <2>5. lease'[p][r] = g /\ <<r, g>> \in fencing'[p]
    BY <1>4, <1>5, <1>6
  <2> QED BY <1>1, <1>3, <1>4, <1>5, <1>6, <2>1, <2>2, <2>3, <2>4, <2>5
          DEF KeyInv, KeyNumbered, KeyReady, KeyPinned, KeyFinished, KeyStranger, NoGen, Gen
<1> QED BY <1>5, <1>7, <1>8, <1>9, <1>10, <1>11, OneKeyStep

\* The object is popped, and nothing reads its blocks.
LEMMA QuietCancel ==
  ASSUME IInv, NEW p \in PRank, NEW r \in Req, Free(p), slot[p][r] # NoGen,
         CancelSend(p, r, slot[p][r]), Quiet(p, r, slot[p][r]),
         UNCHANGED <<wireVars, made, task, withdrawn, served>>
  PROVE  IInv'
<1> DEFINE g == slot[p][r]
<1>1. SenderTypeOK /\ fencing[p] = {}
  BY DEF IInv, Free
<1>2. PICK v : OnlyRelabelled(p, r, g, v)
  BY Wakened DEF CancelSend
<1>3. g \in Gen /\ g <= made[p][r]
  BY Wakened DEF CancelSend
<1>4. GivenBack(p, r)
  <2>1. fencing' = [fencing EXCEPT ![p] = {}]
    BY <1>1 DEF CancelSend, SenderTypeOK
  <2> QED BY <2>1 DEF CancelSend, HandBack, GivenBack
<1>5. Removed(p, r)
  <2>1. slot' = [slot EXCEPT ![p][r] = NoGen]
    BY DEF CancelSend
  <2> QED BY <1>1, <2>1, SenderAssumption DEF Removed, SenderTypeOK, NoGen
<1>6. Undisturbed(p, r)
  BY FreeUndisturbed
<1> HIDE DEF g
<1> QED BY <1>1, <1>2, <1>3, <1>4, <1>5, <1>6, GiveBackStep

\* cancel() of a request with an object, or without one.
LEMMA CancelStep ==
  ASSUME IInv, NEW p \in PRank, NEW r \in Req, Cancel(p, r)
  PROVE  IInv'
<1>1. SenderTypeOK /\ fencing[p] = {} /\ Free(p)
  BY DEF IInv, Cancel, Free
<1>2. CASE slot[p][r] # NoGen
  BY <1>1, <1>2, FenceStep, QuietCancel DEF Cancel
<1>3. CASE slot[p][r] = NoGen
  <2>1. HandBack(p, r) /\ UNCHANGED <<wireVars, slot, meta, fencing, made, task, withdrawn, served>>
    BY <1>3 DEF Cancel
  <2>2. GivenBack(p, r)
    <3>1. fencing' = [fencing EXCEPT ![p] = {}]
      BY <1>1, <2>1 DEF SenderTypeOK
    <3> QED BY <2>1, <3>1 DEF HandBack, GivenBack
  <2>3. Removed(p, r)
    BY <1>1, <1>3, <2>1 DEF Removed, SenderTypeOK
  <2>4. Undisturbed(p, r)
    <3>1. CASE lease[p][r] = NoGen
      BY <3>1, UnpinnedUndisturbed
    <3>2. CASE lease[p][r] # NoGen
      BY <1>1, <1>3, <3>2, FreeUndisturbed
    <3> QED BY <3>1, <3>2
  <2>5. MaxGen \in Gen
    BY SenderAssumption DEF Gen
  <2> QED BY <1>1, <2>1, <2>2, <2>3, <2>4, <2>5, GiveBackStep
<1> QED BY <1>2, <1>3

\* preempt() of a request whose object was popped already: its sends are over.
LEMMA PreemptStep ==
  ASSUME IInv, NEW p \in PRank, NEW r \in Req, Preempt(p, r)
  PROVE  IInv'
<1>1. SenderTypeOK /\ fencing[p] = {} /\ Free(p) /\ KeyInv(p, r)
  BY KeyInvFrom DEF IInv, Preempt, Free
<1>2. CASE Published(p, r)
  BY <1>1, <1>2, FenceStep, QuietCancel DEF Preempt, Published
<1>3. CASE ~Published(p, r)
  <2>1. /\ phase' = [phase EXCEPT ![p][r] = "over"]
        /\ lease' = [lease EXCEPT ![p][r] = NoGen]
        /\ UNCHANGED <<wireVars, slot, meta, finishedSending, fencing, made, task,
                       withdrawn, served>>
    BY <1>3 DEF Preempt
  <2>2. GivenBack(p, r)
    <3>1. fencing' = [fencing EXCEPT ![p] = {}]
      BY <1>1, <2>1 DEF SenderTypeOK
    <3> QED BY <2>1, <3>1 DEF GivenBack
  <2>3. Removed(p, r) /\ Undisturbed(p, r)
    <3>1. slot[p][r] = NoGen \/ ~meta[p][r][slot[p][r]].ready
      BY <1>1, <1>3 DEF Published, KeyInv, KeyReady, KeyPinned
    <3>2. Removed(p, r)
      BY <1>1, <2>1, <3>1 DEF Removed, SenderTypeOK
    <3>3. lease[p][r] = NoGen \/ slot[p][r] # lease[p][r]
      BY <1>1, <3>1 DEF KeyInv, KeyPinned
    <3> QED BY <1>1, <3>2, <3>3, UnpinnedUndisturbed, FreeUndisturbed
  <2>4. MaxGen \in Gen
    BY SenderAssumption DEF Gen
  <2> QED BY <1>1, <2>1, <2>2, <2>3, <2>4, GiveBackStep
<1> QED BY <1>2, <1>3

\* The wait of cancel() and preempt() ends when the last write does.
LEMMA CancelReturnStep ==
  ASSUME IInv, NEW p \in PRank, CancelReturn(p)
  PROVE  IInv'
<1>1. PICK o \in fencing[p] :
        /\ Quiet(p, o[1], o[2]) /\ HandBack(p, o[1])
        /\ fencing' = [fencing EXCEPT ![p] = {}]
        /\ UNCHANGED <<wireVars, slot, made, meta, task, withdrawn, served>>
  BY DEF CancelReturn
<1> DEFINE r == o[1]
           g == o[2]
<1>2. SenderTypeOK /\ r \in Req /\ g \in Gen
  BY DEF IInv, SenderTypeOK
<1>3. /\ fencing[p] = {o} /\ lease[p][r] = g /\ slot[p][r] # g
  BY <1>2 DEF IInv, FenceShape
<1>4. KeyInv(p, r)
  BY <1>2, KeyInvFrom
<1> HIDE DEF r, g
<1>5. GivenBack(p, r)
  BY <1>1 DEF HandBack, GivenBack, r
<1>6. Removed(p, r)
  BY <1>1, <1>2, <1>3, <1>4 DEF Removed, SenderTypeOK, KeyInv, KeyReady
<1>7. Undisturbed(p, r)
  <2>1. lease[p][r] # NoGen /\ Quiet(p, r, lease[p][r])
    BY <1>1, <1>2, <1>3 DEF Gen, NoGen, r, g
  <2> QED BY <1>2, <2>1, QuietUndisturbed
<1>8. \A oo \in fencing[p] : oo[1] = r
  BY <1>3 DEF r
<1>9. UNCHANGED meta
  BY <1>1
<1> QED BY <1>2, <1>5, <1>6, <1>7, <1>8, <1>9, GiveBackStep

\* expire_time passes: nothing that IInv reads.
LEMMA LapseStep ==
  ASSUME IInv, NEW p \in PRank, NEW r \in Req, Lapse(p, r)
  PROVE  IInv'
<1> DEFINE g == slot[p][r]
           v == [meta[p][r][g] EXCEPT !.lapsed = TRUE]
<1>1. UNCHANGED <<wireVars, slot, made, finishedSending, task, ownerVars, served>>
  BY DEF Lapse
<1>2. SenderTypeOK /\ g \in Gen
  BY DEF Lapse, IInv, SenderTypeOK, Gen, NoGen
<1>3. /\ Relabelled(meta[p][r][g], v) /\ v.ready = meta[p][r][g].ready
      /\ meta' = [meta EXCEPT ![p][r][g] = v]
  <2>1. meta[p][r][g] \in SendBlockMeta
    BY <1>2 DEF SenderTypeOK
  <2>2. Relabelled(meta[p][r][g], v) /\ v.ready = meta[p][r][g].ready
    BY <2>1 DEF SendBlockMeta, Relabelled
  <2>3. meta' = [meta EXCEPT ![p][r][g] = v]
    BY <1>2 DEF Lapse, SenderTypeOK
  <2> QED BY <2>2, <2>3
<1> HIDE DEF g, v
<1>4. OnlyRelabelled(p, r, g, v)
  BY <1>2, <1>3, Relabel
<1>5. SenderTypeOK'
  BY <1>1, <1>2, <1>4 DEF SenderTypeOK, ownerVars, OnlyRelabelled
<1>6. CountersKept
  <2>1. \A x \in PRank, y \in Req : made[x][y] <= made'[x][y]
    BY <1>1, <1>2, SenderAssumption DEF SenderTypeOK
  <2> QED BY <1>1, <1>4, <2>1 DEF CountersKept, OnlyRelabelled
<1>7. \A x \in PRank, y \in Req : KeyKept(x, y)
  BY <1>1, <1>3, <1>4 DEF KeyKept, ownerVars, OnlyRelabelled
<1>8. FenceShape'
  BY <1>1 DEF IInv, FenceShape, ownerVars
<1>9. KeyInv(p, r)'
  BY <1>1, <1>6, <1>7, KeyFrame
<1>10. UNCHANGED wireVars /\ lease'[p][r] = lease[p][r]
  BY <1>1 DEF ownerVars
<1> QED BY <1>5, <1>6, <1>7, <1>8, <1>9, <1>10, OneKeyStep

\* poll() unpins the requests that are finished or given up.
LEMMA PollSendStep ==
  ASSUME IInv, NEW p \in PRank, PollSend(p)
  PROVE  IInv'
<1> DEFINE E == Expired(p)
           R == finishedSending[p] \cup E
<1>1. /\ Free(p)
      /\ finishedSending' = [finishedSending EXCEPT ![p] = {}]
      /\ slot' = [slot EXCEPT ![p] = [r \in Req |-> IF r \in E THEN NoGen ELSE slot[p][r]]]
      /\ phase' = [phase EXCEPT ![p] = [r \in Req |-> IF r \in R THEN "over" ELSE phase[p][r]]]
      /\ lease' = [lease EXCEPT ![p] = [r \in Req |-> IF r \in R THEN NoGen ELSE lease[p][r]]]
      /\ UNCHANGED <<wireVars, made, meta, task, fencing, withdrawn, served>>
  BY DEF PollSend
<1>2. SenderTypeOK /\ fencing[p] = {}
  BY <1>1 DEF IInv, Free
<1>3. \A r \in E : r \in Req /\ slot[p][r] # NoGen /\ Quiet(p, r, slot[p][r])
  BY DEF Expired
<1> HIDE DEF E, R
<1>4. \A x \in PRank, y \in Req :
        /\ slot'[x][y] = IF x = p /\ y \in E THEN NoGen ELSE slot[x][y]
        /\ phase'[x][y] = IF x = p /\ y \in R THEN "over" ELSE phase[x][y]
        /\ lease'[x][y] = IF x = p /\ y \in R THEN NoGen ELSE lease[x][y]
        /\ y \in finishedSending'[x] => x # p /\ y \in finishedSending[x]
  BY <1>1, <1>2 DEF SenderTypeOK
<1>5. SenderTypeOK'
  <2>1. finishedSending' \in [PRank -> SUBSET Req]
    BY <1>1, <1>2 DEF SenderTypeOK
  <2>2. slot' \in [PRank -> [Req -> 0 .. MaxGen]]
    BY <1>1, <1>2, SenderAssumption DEF SenderTypeOK, NoGen
  <2>3. phase' \in [PRank -> [Req -> {"new", "prepared", "sent", "over"}]]
    BY <1>1, <1>2 DEF SenderTypeOK
  <2>4. lease' \in [PRank -> [Req -> 0 .. MaxGen]]
    BY <1>1, <1>2, SenderAssumption DEF SenderTypeOK, NoGen
  <2> QED BY <1>1, <1>2, <2>1, <2>2, <2>3, <2>4 DEF SenderTypeOK
<1>6. CountersKept
  <2>1. \A x \in PRank, y \in Req : made[x][y] <= made'[x][y]
    BY <1>1, <1>2, SenderAssumption DEF SenderTypeOK
  <2> QED BY <1>1, <2>1 DEF CountersKept
<1>7. ASSUME NEW r \in Req, r \in R
      PROVE  Undisturbed(p, r) /\ KeyInv(p, r)'
  <2>1. KeyInv(p, r)
    BY KeyInvFrom
  <2>2. Undisturbed(p, r)
    <3>1. CASE r \in E
      BY <1>1, <1>3, <3>1, FreeUndisturbed
    <3>2. CASE r \in finishedSending[p]
      BY <2>1, <3>2 DEF KeyInv, KeyFinished
    <3> QED BY <1>7, <3>1, <3>2 DEF R
  <2>3. slot'[p][r] # NoGen => ~meta[p][r][slot[p][r]].ready /\ slot'[p][r] = slot[p][r]
    BY <1>4, <1>7, <2>1 DEF KeyInv, KeyFinished, R
  <2>4. 0 <= made[p][r] /\ slot'[p][r] <= made[p][r]
    <3>1. 0 <= made[p][r]
      BY <1>2, SenderAssumption DEF SenderTypeOK
    <3>2. slot'[p][r] \in {0, slot[p][r]}
      BY <1>4 DEF NoGen
    <3> QED BY <2>1, <3>1, <3>2 DEF KeyInv, KeyNumbered
  <2>5. lease'[p][r] = NoGen /\ r \notin finishedSending'[p]
    BY <1>4, <1>7
  <2>6. KeyNumbered(p, r)'
    BY <1>1, <2>1, <2>4, <2>5 DEF KeyInv, KeyNumbered, NoGen
  <2>7. KeyReady(p, r)'
    BY <1>1, <2>3 DEF KeyReady
  <2>8. KeyPinned(p, r)' /\ KeyFinished(p, r)' /\ KeyStranger(p, r)'
    BY <2>5 DEF KeyPinned, KeyFinished, KeyStranger
  <2> QED BY <2>2, <2>6, <2>7, <2>8 DEF KeyInv
<1>8. ASSUME NEW x \in PRank, NEW y \in Req
      PROVE  KeyInv(x, y)'
  <2>1. CASE x = p /\ y \in R
    BY <1>7, <2>1
  <2>2. CASE ~(x = p /\ y \in R)
    <3>1. ~(x = p /\ y \in E)
      BY <2>2 DEF R
    <3>2. KeyKept(x, y)
      BY <1>1, <1>4, <2>2, <3>1 DEF KeyKept, ReadyAsBefore
    <3> QED BY <1>1, <1>6, <3>2, KeyFrame
  <2> QED BY <2>1, <2>2
<1>9. RoundsPinned'
  <2>1. ASSUME NEW m \in Msg, NEW y \in task[m].round
        PROVE  lease'[m.p][y] = lease[m.p][y]
    <3>1. m.p \in PRank /\ y \in Req
      BY RefMade
    <3> QED BY <1>4, <1>7, <3>1 DEF Undisturbed
  <2> QED BY <1>6, <2>1, OwnerKeepsRounds
<1>10. FenceShape'
  <2> SUFFICES ASSUME NEW x \in PRank, NEW o \in fencing[x]
               PROVE  /\ fencing[x] = {o}
                      /\ lease'[x][o[1]] = o[2] /\ slot'[x][o[1]] # o[2]
    BY <1>1 DEF FenceShape
  <2>1. x # p /\ o[1] \in Req
    BY <1>2 DEF SenderTypeOK
  <2> QED BY <1>4, <2>1 DEF IInv, FenceShape
<1>11. TaskPart'
  BY <1>1, <1>5, <1>6, OwnerKeepsTasks
<1> QED BY <1>5, <1>8, <1>9, <1>10, <1>11, IInvFrom DEF KeyPart

-----------------------------------------------------------------------------
\* Messages.

\* A new message: no task knows it yet.
LEMMA AskStep ==
  ASSUME IInv, NEW m \in Msg, Ask(m)
  PROVE  IInv'
<1>1. /\ \A n \in posted : ~Overlap(m, n)
      /\ posted' = posted \cup {m}
      /\ UNCHANGED <<replies, slot, made, meta, finishedSending, task, phase,
                     fencing, withdrawn, lease, served>>
  BY DEF Ask, senderVars, metaVars, ownerVars
<1>2. WireTypeOK' /\ SenderTypeOK' /\ IsFiniteSet(posted)'
  BY <1>1, FS_AddElement DEF IInv, WireTypeOK, SenderTypeOK
<1>3. AskedOnce'
  BY <1>1 DEF IInv, AskedOnce, Overlap
<1>4. TaskShape' /\ SendingBalanced' /\ NeedResolved' /\ SentBounded'
  BY <1>1 DEF IInv, TaskShape, SendingBalanced, Holders, NeedResolved, SentBounded,
              ServedRanks, Valid
<1>5. ServedAsked'
  BY <1>1 DEF IInv, ServedAsked
<1>6. KeyPart'
  <2> SUFFICES ASSUME NEW p \in PRank, NEW r \in Req
               PROVE  KeyInv(p, r)'
    BY DEF KeyPart
  <2>1. KeyInv(p, r) /\ posted \subseteq posted'
    BY <1>1, KeyInvFrom
  <2>2. Undisturbed(p, r) => Undisturbed(p, r)'
    BY <1>1 DEF Undisturbed
  <2> QED BY <1>1, <2>1, <2>2
          DEF KeyInv, KeyNumbered, KeyReady, KeyPinned, KeyFinished, KeyStranger
<1>7. RoundsPinned' /\ FenceShape'
  BY <1>1 DEF IInv, RoundsPinned, FenceShape, Captured, Ref
<1> QED BY <1>2, <1>3, <1>4, <1>5, <1>6, <1>7, IInvFrom DEF TaskPart

\* Two messages of one D rank to one P rank that carry the same request are one.
LEMMA OneAsker ==
  ASSUME IInv, NEW m \in posted, NEW n \in posted, NEW r \in m.batch \cap n.batch,
         m.d = n.d, m.p = n.p
  PROVE  m = n
BY DEF IInv, AskedOnce, Overlap

\* A question that is still open was not served.
LEMMA OpenUnserved ==
  ASSUME IInv, NEW m \in posted, NEW r \in m.batch,
         task[m].stage = "idle" \/ r \in task[m].pending \cup task[m].round
  PROVE  <<m.d, m.p, r>> \notin served
<1> SUFFICES ASSUME <<m.d, m.p, r>> \in served
             PROVE  FALSE
  OBVIOUS
<1>1. m.d \in DRank /\ m.p \in PRank /\ r \in Req
  BY DEF IInv, WireTypeOK, Msg, Batch
<1>2. PICK n \in posted : /\ n.d = m.d /\ n.p = m.p /\ r \in n.batch
                          /\ task[n].stage # "idle"
                          /\ r \notin task[n].pending \cup task[n].round
  BY <1>1 DEF IInv, ServedAsked
<1>3. n = m
  BY <1>2, OneAsker
<1> QED BY <1>2, <1>3

\* A task with a round or a waiter works on a posted, valid message.
LEMMA AtWork ==
  ASSUME IInv, NEW m \in Msg, NEW r \in task[m].pending \cup task[m].round
  PROVE  /\ m \in posted /\ r \in m.batch /\ r \in Req /\ m.p \in PRank
         /\ task[m].stage \in {"waiting", "writing"} /\ Valid(m)
<1>1. m.p \in PRank /\ r \in Req /\ r \in m.batch
  BY RefMade
<1>2. task[m].stage \in {"idle", "waiting", "writing", "done", "dead"}
  BY DEF IInv, SenderTypeOK, Task
<1>3. task[m].stage \in {"waiting", "writing"}
  BY <1>2 DEF IInv, TaskShape
<1> QED BY <1>1, <1>3 DEF IInv, TaskShape

(***************************************************************************)
(* The state of a task that holds no round: it waits for some of what it   *)
(* waited for, or has ended.                                               *)
(***************************************************************************)
Settled(m, t) ==
  /\ t \in Task /\ t.stage \in {"waiting", "done", "dead"}
  /\ t.round = {} /\ t.ok = {}
  /\ t.stage # "waiting" => t.pending = {}
  /\ t.stage = "waiting" =>
       Valid(m) /\ t.ref = task[m].ref /\ t.pending \subseteq task[m].pending

Settles(m) ==
  /\ task' \in [Msg -> Task] /\ task'[m].round = {}
  /\ \A n \in Msg : /\ n # m => task'[n] = task[n]
                    /\ task'[n].round \subseteq task[n].round
                    /\ task'[n].pending \subseteq task[n].pending
                    /\ task[n].stage # "idle" => task'[n].stage # "idle"
  /\ \A p \in PRank, r \in Req : Undisturbed(p, r) => Undisturbed(p, r)'

\* A settling task keeps the shape of all tasks.
LEMMA SettledTask ==
  ASSUME IInv, NEW m \in posted, NEW t, Settled(m, t), task' = [task EXCEPT ![m] = t],
         UNCHANGED <<posted, made>>
  PROVE  m \in Msg /\ Settles(m) /\ TaskShape' /\ AskedOnce' /\ IsFiniteSet(posted)'
<1>1. m \in Msg /\ SenderTypeOK
  BY DEF IInv, WireTypeOK
<1>2. /\ task'[m] = t /\ task' \in [Msg -> Task]
      /\ \A n \in Msg : n # m => task'[n] = task[n]
  BY <1>1 DEF Settled, SenderTypeOK
<1>3. t.pending \subseteq task[m].pending
  BY DEF Settled
<1>4. Settles(m)
  <2>1. \A n \in Msg : task'[n].round \subseteq task[n].round
    BY <1>2 DEF Settled
  <2> QED BY <1>2, <1>3, <2>1 DEF Settled, Settles, Undisturbed
<1>5. TaskShape'
  <2> SUFFICES ASSUME NEW n \in Msg
               PROVE  /\ task'[n].stage # "idle" => n \in posted
                      /\ task'[n].stage \in {"waiting", "writing"} => Valid(n)
                      /\ task'[n].pending \cup task'[n].round \subseteq n.batch
                      /\ task'[n].pending \cap task'[n].round = {}
                      /\ task'[n].ok \subseteq task'[n].round
                      /\ task'[n].stage # "writing" => task'[n].round = {}
                      /\ task'[n].stage \in {"idle", "done", "dead"} => task'[n].pending = {}
                      /\ \A r \in task'[n].pending \cup task'[n].round :
                           task'[n].ref[r] \in 1 .. made[n.p][r]
    BY DEF TaskShape, Valid
  <2>1. CASE n = m
    BY <1>2, <1>3, <2>1 DEF Settled, IInv, TaskShape
  <2>2. CASE n # m
    BY <1>2, <2>2 DEF IInv, TaskShape
  <2> QED BY <2>1, <2>2
<1>6. AskedOnce' /\ IsFiniteSet(posted)'
  BY DEF IInv, AskedOnce
<1> QED BY <1>1, <1>4, <1>5, <1>6

\* Ending a message, and going back to wait, settle its task.
LEMMA FinishSettles ==
  ASSUME NEW m \in Msg
  PROVE  /\ Finish(m) = [task EXCEPT ![m] = [NewTask EXCEPT !.stage = "done"]]
         /\ Settled(m, [NewTask EXCEPT !.stage = "done"])
         /\ Settled(m, [NewTask EXCEPT !.stage = "dead"])
<1>1. NewTask \in Task
  BY SenderAssumption DEF NewTask, Task, NoGen
<1> QED BY <1>1 DEF Finish, Settled, NewTask, Task

\* So does the end of a round, in either direction.
LEMMA NextRoundSettles ==
  ASSUME IInv, NEW m \in Msg, Valid(m), NEW q \in SUBSET task[m].pending
  PROVE  \E t : Settled(m, t) /\ NextRound(m, q) = [task EXCEPT ![m] = t]
<1>1. CASE q = {}
  BY <1>1, FinishSettles DEF NextRound
<1>2. CASE q # {}
  <2> DEFINE t == [task[m] EXCEPT !.stage = "waiting", !.pending = q,
                                  !.round = {}, !.ok = {}, !.gone = {}]
  <2>1. task[m] \in Task /\ task \in [Msg -> Task]
    BY DEF IInv, SenderTypeOK
  <2>2. NextRound(m, q) = [task EXCEPT ![m] = t]
    BY <1>2, <2>1 DEF NextRound
  <2>3. Settled(m, t)
    BY <2>1 DEF Settled, Task
  <2> QED BY <2>2, <2>3
<1> QED BY <1>1, <1>2

(***************************************************************************)
(* The frame of a settling task: requests it does not report keep KeyInv.  *)
(***************************************************************************)
LEMMA SettledKey ==
  ASSUME IInv, NEW m \in Msg, Settles(m), UNCHANGED posted,
         NEW p \in PRank, NEW r \in Req, KeyKept(p, r),
         \A g \in Gen : g > made[p][r] => meta'[p][r][g].sent = meta[p][r][g].sent,
         served \subseteq served',
         \A n \in Msg : n.p = p /\ <<n.d, p, r>> \in served' => <<n.d, p, r>> \in served
  PROVE  KeyInv(p, r)'
<1>1. KeyInv(p, r)
  BY KeyInvFrom
<1>2. /\ slot[p][r] = NoGen \/ slot[p][r] \in Gen
      /\ lease[p][r] = NoGen \/ lease[p][r] \in Gen
  BY DEF IInv, SenderTypeOK, Gen, NoGen
<1>3. Undisturbed(p, r) => Undisturbed(p, r)'
  BY DEF Settles
<1>4. lease[p][r] # NoGen /\ slot[p][r] \notin {NoGen, lease[p][r]} =>
       \E n \in posted : /\ n.p = p /\ r \in n.batch /\ n.d \in ServedBy(p)
                        /\ task'[n].stage # "idle" /\ r \notin task'[n].round
                        /\ <<n.d, p, r>> \notin served'
  <2> SUFFICES ASSUME lease[p][r] # NoGen, slot[p][r] \notin {NoGen, lease[p][r]}
               PROVE  \E n \in posted :
                        /\ n.p = p /\ r \in n.batch /\ n.d \in ServedBy(p)
                        /\ task'[n].stage # "idle" /\ r \notin task'[n].round
                        /\ <<n.d, p, r>> \notin served'
    OBVIOUS
  <2>1. PICK n \in posted : /\ n.p = p /\ r \in n.batch /\ n.d \in ServedBy(p)
                            /\ task[n].stage # "idle" /\ r \notin task[n].round
                            /\ <<n.d, p, r>> \notin served
    BY <1>1 DEF KeyInv, KeyStranger
  <2>2. n \in Msg
    BY DEF IInv, WireTypeOK
  <2> QED BY <2>1, <2>2 DEF Settles
<1>5. KeyNumbered(p, r)'
  BY <1>1 DEF KeyInv, KeyNumbered, KeyKept, ReadyAsBefore
<1>6. KeyReady(p, r)'
  BY <1>1, <1>2 DEF KeyInv, KeyReady, KeyKept, ReadyAsBefore
<1>7. KeyPinned(p, r)'
  BY <1>1, <1>2, <1>3 DEF KeyInv, KeyPinned, KeyKept, ReadyAsBefore
<1>8. KeyFinished(p, r)'
  BY <1>1, <1>2, <1>3 DEF KeyInv, KeyFinished, KeyKept, ReadyAsBefore
<1>9. KeyStranger(p, r)'
  BY <1>4 DEF KeyStranger, KeyKept
<1> QED BY <1>5, <1>6, <1>7, <1>8, <1>9 DEF KeyInv

\* Rounds that a settling task leaves alone stay counted and pinned.
LEMMA SettledRounds ==
  ASSUME IInv, NEW m \in Msg, Settles(m), UNCHANGED lease,
         \A p \in PRank, r \in Req, g \in Gen :
           meta'[p][r][g].need \in {meta[p][r][g].need, Cardinality(ServedBy(p))}
  PROVE  RoundsPinned' /\ NeedResolved'
<1>1. NeedResolved'
  BY DEF IInv, NeedResolved
<1>2. ASSUME NEW n \in Msg, NEW r \in task'[n].round
      PROVE  /\ lease'[n.p][r] = task'[n].ref[r]
             /\ meta'[n.p][r][task'[n].ref[r]].need = Cardinality(ServedBy(n.p))
  <2>1. task'[n] = task[n]
    BY DEF Settles
  <2>2. n.p \in PRank /\ r \in Req /\ Ref(n, r) \in Gen
    BY <2>1, RefMade
  <2>3. /\ lease[n.p][r] = Ref(n, r)
        /\ meta[n.p][r][Ref(n, r)].need = Cardinality(ServedBy(n.p))
    BY <2>1 DEF IInv, RoundsPinned, Ref, Captured
  <2> QED BY <2>1, <2>2, <2>3 DEF Ref
<1> QED BY <1>1, <1>2 DEF RoundsPinned, Ref, Captured

\* A question that was settled stays settled.
LEMMA SettledServed ==
  ASSUME IInv, NEW m \in Msg, Settles(m), UNCHANGED posted,
         NEW d \in DRank, NEW p \in PRank, NEW r \in Req, <<d, p, r>> \in served
  PROVE  /\ d \in ServedBy(p)
         /\ \E n \in posted : /\ n.d = d /\ n.p = p /\ r \in n.batch
                              /\ task'[n].stage # "idle"
                              /\ r \notin task'[n].pending \cup task'[n].round
<1>1. PICK n \in posted : /\ n.d = d /\ n.p = p /\ r \in n.batch
                          /\ task[n].stage # "idle"
                          /\ r \notin task[n].pending \cup task[n].round
  BY DEF IInv, ServedAsked
<1>2. n \in Msg
  BY DEF IInv, WireTypeOK
<1> QED BY <1>1, <1>2 DEF IInv, ServedAsked, Settles

(***************************************************************************)
(* A task that holds no round settles, resolving need_send at most.        *)
(***************************************************************************)
OnlyResolved ==
  /\ meta' \in [PRank -> [Req -> [Gen -> SendBlockMeta]]]
  /\ \A p \in PRank, r \in Req, g \in Gen :
       /\ meta'[p][r][g].need \in {meta[p][r][g].need, Cardinality(ServedBy(p))}
       /\ meta'[p][r][g].sent = meta[p][r][g].sent
       /\ meta'[p][r][g].sending = meta[p][r][g].sending
       /\ meta'[p][r][g].ready = meta[p][r][g].ready
       /\ meta'[p][r][g].owned = meta[p][r][g].owned

\* Such a step keeps IInv.
LEMMA SettleStep ==
  ASSUME IInv, NEW m \in posted, task[m].round = {}, NEW t, Settled(m, t),
         task' = [task EXCEPT ![m] = t], OnlyResolved, WireTypeOK',
         UNCHANGED <<posted, slot, made, finishedSending, ownerVars, served>>
  PROVE  IInv'
<1> USE DEF ownerVars
<1>1. m \in Msg /\ Settles(m) /\ TaskShape' /\ AskedOnce' /\ IsFiniteSet(posted)'
  BY SettledTask
<1>2. SenderTypeOK'
  BY <1>1 DEF IInv, SenderTypeOK, OnlyResolved, Settles
<1>3. RoundsPinned' /\ NeedResolved'
  BY <1>1, SettledRounds DEF OnlyResolved
<1>4. SendingBalanced'
  <2>1. \A n \in Msg : (task'[n].round = {} /\ task[n].round = {}) \/ task'[n] = task[n]
    BY <1>1 DEF Settles
  <2>2. \A p \in PRank, r \in Req, g \in Gen : Holders(p, r, g)' = Holders(p, r, g)
    BY <2>1 DEF Holders
  <2> QED BY <2>2 DEF IInv, SendingBalanced, OnlyResolved
<1>5. SentBounded'
  BY DEF IInv, SentBounded, ServedRanks, OnlyResolved
<1>6. ServedAsked'
  BY <1>1, SettledServed DEF ServedAsked
<1>7. FenceShape'
  BY DEF IInv, FenceShape
<1>8. KeyPart'
  <2> SUFFICES ASSUME NEW p \in PRank, NEW r \in Req
               PROVE  KeyInv(p, r)'
    BY DEF KeyPart
  <2>1. KeyKept(p, r)
    BY DEF KeyKept, ReadyAsBefore, OnlyResolved
  <2>2. \A g \in Gen : meta'[p][r][g].sent = meta[p][r][g].sent
    BY DEF OnlyResolved
  <2> QED BY <1>1, <2>1, <2>2, SettledKey
<1> QED BY <1>1, <1>2, <1>3, <1>4, <1>5, <1>6, <1>7, <1>8, IInvFrom DEF TaskPart

\* An answer is a response that the protocol knows.
LEMMA AnswerTyped ==
  ASSUME IInv, NEW m \in Msg, NEW status \in Status, NEW ok \in SUBSET Req,
         NEW err \in SUBSET Req, Answer(m, status, ok, err), UNCHANGED posted
  PROVE  WireTypeOK'
<1> DEFINE a == [status |-> status, ok |-> ok, err |-> err]
<1>1. a \in Reply /\ replies \in [Msg -> Seq(Reply)] /\ posted \subseteq Msg
  BY DEF Reply, IInv, WireTypeOK
<1>2. replies' = [replies EXCEPT ![m] = Append(replies[m], a)]
  BY <1>1 DEF Answer
<1> HIDE DEF a
<1>3. Append(replies[m], a) \in Seq(Reply)
  BY <1>1
<1> QED BY <1>1, <1>2, <1>3 DEF WireTypeOK

\* A refused message is answered at once.
LEMMA RefuseStep ==
  ASSUME IInv, NEW m \in Msg, Refuse(m)
  PROVE  IInv'
<1>1. /\ m \in posted /\ task[m].stage = "idle" /\ Answer(m, "ERROR", {}, {})
      /\ task' = Finish(m)
      /\ UNCHANGED <<posted, slot, made, meta, finishedSending, ownerVars, served>>
  BY DEF Refuse, Dequeue, metaVars
<1>2. WireTypeOK'
  BY <1>1, AnswerTyped DEF Status
<1>3. task[m].round = {}
  BY <1>1 DEF IInv, TaskShape
<1>4. OnlyResolved
  BY <1>1 DEF OnlyResolved, IInv, SenderTypeOK
<1> QED BY <1>1, <1>2, <1>3, <1>4, FinishSettles, SettleStep

\* A message that timed out is answered for all it still waits for.
LEMMA WaitTimeoutStep ==
  ASSUME IInv, NEW m \in Msg, WaitTimeout(m)
  PROVE  IInv'
<1>1. /\ task[m].stage = "waiting" /\ Answer(m, "FINISH", {}, task[m].pending)
      /\ task' = Finish(m)
      /\ UNCHANGED <<posted, slot, made, meta, finishedSending, ownerVars, served>>
  BY DEF WaitTimeout, metaVars
<1>2. WireTypeOK'
  BY <1>1, AnswerTyped DEF Status, IInv, SenderTypeOK, Task
<1>3. task[m].round = {} /\ m \in posted
  BY <1>1 DEF IInv, TaskShape
<1>4. OnlyResolved
  BY <1>1 DEF OnlyResolved, IInv, SenderTypeOK
<1> QED BY <1>1, <1>2, <1>3, <1>4, FinishSettles, SettleStep

(***************************************************************************)
(* A message finds or makes the object of each of its requests.  One made  *)
(* beside a pinned object belongs to a D rank that was not served.         *)
(***************************************************************************)
LEMMA CaptureStep ==
  ASSUME IInv, NEW m \in Msg, Capture(m)
  PROVE  IInv'
<1> DEFINE ref == [r \in Req |-> IF r \in m.batch THEN Obtained(m.p, r) ELSE NoGen]
           t == [NewTask EXCEPT !.stage = "waiting", !.pending = m.batch, !.ref = ref]
<1> USE DEF NoGen
<1>1. /\ m \in posted /\ task[m].stage = "idle" /\ Valid(m)
      /\ SetDefault(m.p, m.batch)
      /\ task' = [task EXCEPT ![m] = t]
      /\ UNCHANGED <<wireVars, meta, finishedSending, ownerVars, served>>
  BY DEF Capture, Dequeue
<1>2. SenderTypeOK /\ m.p \in PRank /\ m.batch \in SUBSET Req
  BY DEF IInv, Msg, Batch
<1>3. /\ slot' \in [PRank -> [Req -> 0 .. MaxGen]]
      /\ made' \in [PRank -> [Req -> 0 .. MaxGen]]
      /\ \A y \in m.batch : Obtained(m.p, y) \in Gen /\ slot'[m.p][y] = Obtained(m.p, y)
      /\ \A x \in PRank, y \in Req :
           /\ ~(x = m.p /\ y \in m.batch) => slot'[x][y] = slot[x][y]
           /\ made[x][y] <= made'[x][y] /\ slot'[x][y] <= made'[x][y]
           /\ slot'[x][y] = slot[x][y] \/ (slot[x][y] = NoGen /\ slot'[x][y] > made[x][y])
           /\ \A h \in Gen : h > made'[x][y] => h > made[x][y]
  BY <1>1, <1>2, SetDefaultEffect
<1>4. ref \in [Req -> 0 .. MaxGen]
  BY <1>3, SenderAssumption DEF Gen
<1> HIDE DEF ref
<1>5. t \in Task /\ t.stage = "waiting" /\ t.round = {} /\ t.ok = {}
      /\ t.pending = m.batch /\ t.ref = ref
  BY <1>2, <1>4 DEF Task, NewTask
<1> HIDE DEF t
<1>6. task'[m] = t /\ \A n \in Msg : n # m => task'[n] = task[n]
  BY <1>1, <1>2 DEF SenderTypeOK
<1>7. SenderTypeOK'
  <2>1. task' \in [Msg -> Task]
    BY <1>1, <1>2, <1>5 DEF SenderTypeOK
  <2> QED BY <1>1, <1>2, <1>3, <2>1 DEF SenderTypeOK, ownerVars
<1>8. \A n \in Msg : task'[n].round = task[n].round
                     /\ (task[n].round # {} => task'[n] = task[n])
  BY <1>1, <1>5, <1>6 DEF IInv, TaskShape
<1>9. WireTypeOK' /\ IsFiniteSet(posted)' /\ AskedOnce' /\ NeedResolved' /\ SentBounded'
  BY <1>1 DEF IInv, WireTypeOK, AskedOnce, NeedResolved, SentBounded, ServedRanks, wireVars
<1>10. TaskShape'
  <2> SUFFICES ASSUME NEW n \in Msg
               PROVE  /\ task'[n].stage # "idle" => n \in posted
                      /\ task'[n].stage \in {"waiting", "writing"} => Valid(n)
                      /\ task'[n].pending \cup task'[n].round \subseteq n.batch
                      /\ task'[n].pending \cap task'[n].round = {}
                      /\ task'[n].ok \subseteq task'[n].round
                      /\ task'[n].stage # "writing" => task'[n].round = {}
                      /\ task'[n].stage \in {"idle", "done", "dead"} => task'[n].pending = {}
                      /\ \A r \in task'[n].pending \cup task'[n].round :
                           task'[n].ref[r] \in 1 .. made'[n.p][r]
    BY <1>1 DEF TaskShape, Valid, wireVars
  <2>1. CASE n = m
    <3>1. ASSUME NEW r \in m.batch
          PROVE  ref[r] \in 1 .. made'[m.p][r]
      <4>1. ref[r] = Obtained(m.p, r)
        BY <1>2 DEF ref
      <4>2. ref[r] \in Gen /\ ref[r] <= made'[m.p][r] /\ made'[m.p][r] \in 0 .. MaxGen
        BY <1>2, <1>3, <4>1
      <4> QED BY <4>2, SenderAssumption DEF Gen
    <3> QED BY <1>1, <1>5, <1>6, <2>1, <3>1
  <2>2. CASE n # m
    <3>1. task'[n] = task[n]
      BY <1>6, <2>2
    <3>2. ASSUME NEW r \in task[n].pending \cup task[n].round
          PROVE  task[n].ref[r] \in 1 .. made'[n.p][r]
      <4>1. n.p \in PRank /\ r \in Req
        BY RefMade
      <4>2. task[n].ref[r] \in 1 .. made[n.p][r]
        BY DEF IInv, TaskShape
      <4>3. made[n.p][r] <= made'[n.p][r] /\ made[n.p][r] \in Nat /\ made'[n.p][r] \in Nat
        BY <1>2, <1>3, <4>1, SenderAssumption DEF SenderTypeOK
      <4> QED BY <4>2, <4>3
    <3> QED BY <3>1, <3>2 DEF IInv, TaskShape
  <2> QED BY <2>1, <2>2
<1>11. SendingBalanced'
  <2>1. \A p \in PRank, r \in Req, g \in Gen : Holders(p, r, g)' = Holders(p, r, g)
    BY <1>8 DEF Holders
  <2> QED BY <1>1, <2>1 DEF IInv, SendingBalanced
<1>12. RoundsPinned' /\ FenceShape'
  <2>1. RoundsPinned'
    <3>1. UNCHANGED <<lease, meta>>
      BY <1>1 DEF ownerVars
    <3>2. ASSUME NEW n \in Msg, NEW r \in task'[n].round
          PROVE  /\ lease'[n.p][r] = task'[n].ref[r]
                 /\ meta'[n.p][r][task'[n].ref[r]].need = Cardinality(ServedBy(n.p))
      <4>1. r \in task[n].round /\ task'[n] = task[n]
        BY <1>8
      <4>2. /\ lease[n.p][r] = task[n].ref[r]
            /\ meta[n.p][r][task[n].ref[r]].need = Cardinality(ServedBy(n.p))
        BY <4>1 DEF IInv, RoundsPinned, Captured, Ref
      <4> QED BY <3>1, <4>1, <4>2
    <3> QED BY <3>2 DEF RoundsPinned, Captured, Ref
  <2>2. FenceShape'
    <3> SUFFICES ASSUME NEW x \in PRank, NEW o \in fencing[x]
                 PROVE  fencing[x] = {o} /\ lease[x][o[1]] = o[2] /\ slot'[x][o[1]] # o[2]
      BY <1>1 DEF FenceShape, ownerVars
    <3>1. o[1] \in Req /\ fencing[x] = {o} /\ lease[x][o[1]] = o[2] /\ slot[x][o[1]] # o[2]
      BY <1>2 DEF SenderTypeOK, IInv, FenceShape
    <3>2. lease[x][o[1]] <= made[x][o[1]]
      BY <3>1 DEF IInv, Numbering
    <3>3. slot'[x][o[1]] \in Nat /\ made[x][o[1]] \in Nat /\ lease[x][o[1]] \in Nat
      BY <1>2, <1>3, <3>1, SenderAssumption DEF SenderTypeOK
    <3>4. slot'[x][o[1]] = slot[x][o[1]] \/ slot'[x][o[1]] > made[x][o[1]]
      BY <1>3, <3>1
    <3> QED BY <3>1, <3>2, <3>3, <3>4
  <2> QED BY <2>1, <2>2
<1>13. ServedAsked'
  <2> SUFFICES ASSUME NEW d \in DRank, NEW p \in PRank, NEW r \in Req, <<d, p, r>> \in served
               PROVE  /\ d \in ServedBy(p)
                      /\ \E n \in posted : /\ n.d = d /\ n.p = p /\ r \in n.batch
                            /\ task'[n].stage # "idle"
                            /\ r \notin task'[n].pending \cup task'[n].round
    BY <1>1 DEF ServedAsked, wireVars
  <2>1. PICK n \in posted : /\ n.d = d /\ n.p = p /\ r \in n.batch
                            /\ task[n].stage # "idle"
                            /\ r \notin task[n].pending \cup task[n].round
    BY DEF IInv, ServedAsked
  <2>2. n \in Msg /\ n # m
    BY <1>1, <2>1 DEF IInv, WireTypeOK
  <2> QED BY <1>6, <2>1, <2>2 DEF IInv, ServedAsked
<1>14. ASSUME NEW p \in PRank, NEW r \in Req
       PROVE  KeyInv(p, r)'
  <2>1. KeyInv(p, r)
    BY KeyInvFrom
  <2>2. /\ made[p][r] \in Nat /\ made'[p][r] \in Nat /\ lease[p][r] \in Nat
        /\ slot[p][r] \in Nat /\ slot'[p][r] \in Nat
    BY <1>2, <1>3, SenderAssumption DEF SenderTypeOK
  <2>3. slot'[p][r] <= made'[p][r] /\ lease[p][r] <= made'[p][r]
    BY <1>3, <2>1, <2>2 DEF KeyInv, KeyNumbered
  <2>4. \A h \in Gen : h > made'[p][r] => ~meta[p][r][h].ready /\ meta[p][r][h].sent = 0
    BY <1>3, <2>1 DEF KeyInv, KeyNumbered
  <2>5. Undisturbed(p, r)' <=> Undisturbed(p, r)
    BY <1>8 DEF Undisturbed
  <2>6. slot'[p][r] # 0 /\ slot'[p][r] # slot[p][r] => ~meta[p][r][slot'[p][r]].ready
    <3>1. slot'[p][r] # 0 => slot'[p][r] \in Gen
      BY <1>3 DEF Gen
    <3> QED BY <1>3, <2>1, <3>1 DEF KeyInv, KeyNumbered
  <2>7. slot'[p][r] # lease[p][r] => slot[p][r] # lease[p][r] \/ lease[p][r] = 0
    BY <1>3
  <2>8. ASSUME lease[p][r] # 0, slot'[p][r] \notin {0, lease[p][r]}
        PROVE  \E n \in posted : /\ n.p = p /\ r \in n.batch /\ n.d \in ServedBy(p)
                        /\ task'[n].stage # "idle" /\ r \notin task'[n].round
                        /\ <<n.d, p, r>> \notin served
    <3>1. CASE slot'[p][r] = slot[p][r]
      <4>1. PICK n \in posted : /\ n.p = p /\ r \in n.batch /\ n.d \in ServedBy(p)
                                /\ task[n].stage # "idle" /\ r \notin task[n].round
                                /\ <<n.d, p, r>> \notin served
        BY <2>1, <2>8, <3>1 DEF KeyInv, KeyStranger
      <4>2. n \in Msg
        BY DEF IInv, WireTypeOK
      <4> QED BY <1>1, <1>6, <1>8, <4>1, <4>2
    <3>2. CASE slot'[p][r] # slot[p][r]
      <4>1. p = m.p /\ r \in m.batch
        BY <1>3, <3>2
      <4>2. <<m.d, p, r>> \notin served
        BY <1>1, <4>1, OpenUnserved
      <4> QED BY <1>1, <1>5, <1>6, <4>1, <4>2 DEF Valid
    <3> QED BY <3>1, <3>2
  <2> QED BY <1>1, <2>1, <2>3, <2>4, <2>5, <2>6, <2>7, <2>8
          DEF KeyInv, KeyNumbered, KeyReady, KeyPinned, KeyFinished, KeyStranger, ownerVars, wireVars
<1> QED BY <1>7, <1>9, <1>10, <1>11, <1>12, <1>13, <1>14, IInvFrom DEF TaskPart, KeyPart

-----------------------------------------------------------------------------
\* Rounds.

\* What a round does to the objects its task captured.
RefsBecome(m, S, new) ==
  /\ meta' \in [PRank -> [Req -> [Gen -> SendBlockMeta]]]
  /\ \A x \in PRank, y \in Req, h \in Gen :
       meta'[x][y][h] = IF x = m.p /\ y \in S /\ h = Ref(m, y) THEN new[y]
                        ELSE meta[x][y][h]

\* Changing the captured objects of S, and no other.
LEMMA RefsUpdate ==
  ASSUME IInv, NEW m \in Msg, NEW S, S \subseteq task[m].pending \cup task[m].round,
         NEW new \in [S -> SendBlockMeta],
         meta' = [meta EXCEPT ![m.p] = [r \in Req |->
                    IF r \in S THEN [meta[m.p][r] EXCEPT ![Ref(m, r)] = new[r]]
                    ELSE meta[m.p][r]]]
  PROVE  RefsBecome(m, S, new)
<1> DEFINE row == [r \in Req |->
                    IF r \in S THEN [meta[m.p][r] EXCEPT ![Ref(m, r)] = new[r]]
                    ELSE meta[m.p][r]]
<1>1. meta \in [PRank -> [Req -> [Gen -> SendBlockMeta]]] /\ m.p \in PRank
  BY DEF IInv, SenderTypeOK, Msg
<1>2. \A r \in S : r \in Req /\ Ref(m, r) \in Gen
  BY RefMade
<1>3. ASSUME NEW r \in Req
      PROVE  /\ row[r] \in [Gen -> SendBlockMeta]
             /\ \A h \in Gen : row[r][h] = IF r \in S /\ h = Ref(m, r) THEN new[r]
                                           ELSE meta[m.p][r][h]
  <2>1. CASE r \in S
    BY <1>1, <1>2, <2>1
  <2>2. CASE r \notin S
    BY <1>1, <2>2
  <2> QED BY <2>1, <2>2
<1>4. row \in [Req -> [Gen -> SendBlockMeta]]
  BY <1>3
<1> HIDE DEF row
<1>5. meta' = [meta EXCEPT ![m.p] = row]
  BY DEF row
<1>6. meta' \in [PRank -> [Req -> [Gen -> SendBlockMeta]]]
  BY <1>1, <1>4, <1>5
<1>7. \A x \in PRank : meta'[x] = IF x = m.p THEN row ELSE meta[x]
  BY <1>1, <1>5
<1>8. ASSUME NEW x \in PRank, NEW y \in Req, NEW h \in Gen
      PROVE  meta'[x][y][h] = IF x = m.p /\ y \in S /\ h = Ref(m, y) THEN new[y]
                              ELSE meta[x][y][h]
  <2>1. CASE x = m.p
    <3>1. meta'[x] = row /\ meta[x] = meta[m.p]
      BY <1>7, <2>1
    <3>2. row[y][h] = IF y \in S /\ h = Ref(m, y) THEN new[y] ELSE meta[m.p][y][h]
      BY <1>3
    <3> QED BY <2>1, <3>1, <3>2
  <2>2. CASE x # m.p
    BY <1>7, <2>2
  <2> QED BY <2>1, <2>2
<1> QED BY <1>6, <1>8 DEF RefsBecome

\* The captured objects are objects.
LEMMA CapturedTyped ==
  ASSUME IInv, NEW m \in Msg, NEW r \in task[m].pending \cup task[m].round
  PROVE  /\ Captured(m, r) \in SendBlockMeta
         /\ Captured(m, r).need \in {0, Cardinality(ServedBy(m.p))}
         /\ Resolve(Captured(m, r), m.p) = Cardinality(ServedBy(m.p))
         /\ Cardinality(ServedBy(m.p)) \in Nat
<1>1. m.p \in PRank /\ r \in Req /\ Ref(m, r) \in Gen
  BY RefMade
<1> QED BY <1>1, ServedByFinite DEF IInv, SenderTypeOK, Captured, NeedResolved, Resolve

\* A waiter that asyncio.wait returned, whose object is still the stored one,
\* has found the pinned object.
LEMMA LivePinned ==
  ASSUME IInv, NEW m \in Msg, NEW r \in Woken(m), Current(m, r)
  PROVE  /\ lease[m.p][r] = Ref(m, r) /\ slot[m.p][r] = Ref(m, r)
         /\ r \notin finishedSending[m.p]
         /\ r \in Req /\ Ref(m, r) \in Gen
<1>1. r \in task[m].pending /\ Captured(m, r).ready
  BY DEF Woken
<1>2. m.p \in PRank /\ r \in Req /\ Ref(m, r) \in Gen /\ slot[m.p][r] = Ref(m, r)
  BY <1>1, RefMade DEF Current, Ref
<1>3. KeyInv(m.p, r)
  BY <1>2, KeyInvFrom
<1>4. slot[m.p][r] # NoGen /\ meta[m.p][r][slot[m.p][r]].ready
  BY <1>1, <1>2 DEF Captured, Gen, NoGen
<1> QED BY <1>2, <1>3, <1>4 DEF KeyInv, KeyReady, KeyFinished

\* A round that has nothing to write answers and goes on.
LEMMA EmptyRound ==
  ASSUME IInv, NEW m \in Msg, NEW done \in SUBSET Woken(m),
         StartRound(m, done, {r \in done : Current(m, r)})
  PROVE  IInv'
<1> DEFINE live == {r \in done : Current(m, r)}
           rest == task[m].pending \ done
           new == [r \in live |->
                    [Captured(m, r) EXCEPT !.need = Resolve(Captured(m, r), m.p)]]
<1>1. /\ task[m].stage = "waiting"
      /\ OnRefs(m, live, LAMBDA o : [o EXCEPT !.need = Resolve(o, m.p)])
      /\ Answer(m, RoundStatus(rest), {}, done)
      /\ task' = NextRound(m, rest)
      /\ UNCHANGED <<posted, slot, made, finishedSending, ownerVars, served>>
  BY DEF StartRound
<1>2. done \subseteq task[m].pending /\ live \subseteq task[m].pending
      /\ task[m].pending \in SUBSET Req
  BY DEF Woken, IInv, SenderTypeOK, Task
<1>3. m \in posted /\ task[m].round = {} /\ Valid(m)
  BY <1>1 DEF IInv, TaskShape
<1>4. new \in [live -> SendBlockMeta]
      /\ \A r \in live : /\ new[r].need = Cardinality(ServedBy(m.p))
                         /\ new[r].sent = Captured(m, r).sent
                         /\ new[r].sending = Captured(m, r).sending
                         /\ new[r].ready = Captured(m, r).ready
                         /\ new[r].owned = Captured(m, r).owned
  BY <1>2, CapturedTyped DEF SendBlockMeta
<1>5. meta' = [meta EXCEPT ![m.p] = [r \in Req |->
                 IF r \in live THEN [meta[m.p][r] EXCEPT ![Ref(m, r)] = new[r]]
                 ELSE meta[m.p][r]]]
  BY <1>1 DEF OnRefs
<1> HIDE DEF new, live, rest
<1>6. RefsBecome(m, live, new)
  BY <1>2, <1>4, <1>5, RefsUpdate
<1>7. OnlyResolved
  <2> SUFFICES ASSUME NEW q \in PRank, NEW r \in Req, NEW g \in Gen
               PROVE  /\ meta'[q][r][g].need \in {meta[q][r][g].need, Cardinality(ServedBy(q))}
                      /\ meta'[q][r][g].sent = meta[q][r][g].sent
                      /\ meta'[q][r][g].sending = meta[q][r][g].sending
                      /\ meta'[q][r][g].ready = meta[q][r][g].ready
                      /\ meta'[q][r][g].owned = meta[q][r][g].owned
    <3>1. meta' \in [PRank -> [Req -> [Gen -> SendBlockMeta]]]
      BY <1>6 DEF RefsBecome
    <3> QED BY <3>1, Zenon DEF OnlyResolved
  <2>1. CASE q = m.p /\ r \in live /\ g = Ref(m, r)
    <3>1. meta'[q][r][g] = new[r]
      BY <1>6, <2>1 DEF RefsBecome
    <3>2. meta[q][r][g] = Captured(m, r)
      BY <2>1 DEF Captured
    <3> QED BY <1>4, <2>1, <3>1, <3>2
  <2>2. CASE ~(q = m.p /\ r \in live /\ g = Ref(m, r))
    BY <1>6, <2>2 DEF RefsBecome
  <2> QED BY <2>1, <2>2
<1>8. WireTypeOK'
  <2>1. RoundStatus(rest) \in Status
    BY DEF RoundStatus, Status
  <2>2. {} \in SUBSET Req /\ done \in SUBSET Req
    BY <1>2
  <2> QED BY <1>1, <2>1, <2>2, AnswerTyped
<1>9. rest \in SUBSET task[m].pending
  BY DEF rest
<1>10. PICK t : Settled(m, t) /\ NextRound(m, rest) = [task EXCEPT ![m] = t]
  BY <1>3, <1>9, NextRoundSettles
<1> QED BY <1>1, <1>3, <1>7, <1>8, <1>10, SettleStep

\* Taking an object into a round.
LEMMA TakeTyped ==
  ASSUME NEW o \in SendBlockMeta, NEW p, Resolve(o, p) \in Nat
  PROVE  LET v == Take(o, p)
         IN  /\ v \in SendBlockMeta /\ v.need = Resolve(o, p)
             /\ v.sent = o.sent /\ v.sending = o.sending + 1
             /\ v.ready = o.ready /\ v.owned = o.owned
<1> DEFINE k == Resolve(o, p)
<1>1. k \in Nat /\ o.sending + 1 \in Nat
  BY DEF SendBlockMeta
<1>2. Take(o, p) = [o EXCEPT !.need = k, !.sending = o.sending + 1]
  BY DEF Take, SendBlockMeta
<1> HIDE DEF k
<1>3. /\ Take(o, p) \in SendBlockMeta /\ Take(o, p).need = k
      /\ Take(o, p).sent = o.sent /\ Take(o, p).sending = o.sending + 1
      /\ Take(o, p).ready = o.ready /\ Take(o, p).owned = o.owned
  BY <1>1, <1>2 DEF SendBlockMeta
<1> QED BY <1>3 DEF k

\* Letting go of an object.
LEMMA DropTyped ==
  ASSUME NEW o \in SendBlockMeta, NEW c \in BOOLEAN, o.sending # 0
  PROVE  LET v == Drop(o, c)
         IN  /\ v \in SendBlockMeta /\ v.need = o.need
             /\ v.sent = IF c THEN o.sent + 1 ELSE o.sent
             /\ v.sending = o.sending - 1
             /\ v.ready = o.ready /\ v.owned = o.owned
<1>1. o.sending - 1 \in Nat /\ o.sent + 1 \in Nat /\ o.sent \in Nat
  BY DEF SendBlockMeta
<1>2. CASE c
  <2>1. Drop(o, c) = [o EXCEPT !.sending = o.sending - 1, !.sent = o.sent + 1]
    BY <1>2 DEF Drop, SendBlockMeta
  <2> QED BY <1>1, <1>2, <2>1 DEF SendBlockMeta
<1>3. CASE ~c
  <2>1. Drop(o, c) = [o EXCEPT !.sending = o.sending - 1, !.sent = o.sent]
    BY <1>3 DEF Drop, SendBlockMeta
  <2> QED BY <1>1, <1>3, <2>1 DEF SendBlockMeta
<1> QED BY <1>2, <1>3

(***************************************************************************)
(* A write starts: the round counts itself in sending of every object it   *)
(* took, and all of them are pinned.                                       *)
(***************************************************************************)
LEMMA WriteStarts ==
  ASSUME IInv, NEW m \in Msg, NEW done \in SUBSET Woken(m), NEW bad,
         bad # {r \in done : Current(m, r)}, StartRound(m, done, bad)
  PROVE  IInv'
<1> DEFINE live == {r \in done : Current(m, r)}
           rest == task[m].pending \ done
           new == [r \in live |-> Take(Captured(m, r), m.p)]
           t == [task[m] EXCEPT !.stage = "writing", !.pending = rest,
                   !.round = live, !.ok = live \ bad, !.gone = done \ live]
<1>1. /\ task[m].stage = "waiting"
      /\ OnRefs(m, live, LAMBDA o : Take(o, m.p))
      /\ task' = [task EXCEPT ![m] = t]
      /\ UNCHANGED <<wireVars, slot, made, finishedSending, ownerVars, served>>
  BY DEF StartRound, wireVars, IInv, SenderTypeOK
<1>2. done \subseteq task[m].pending /\ live \subseteq task[m].pending
      /\ live \subseteq done /\ task[m].pending \in SUBSET Req
  BY DEF Woken, IInv, SenderTypeOK, Task
<1>3. SenderTypeOK /\ m.p \in PRank /\ m \in posted /\ task[m].round = {} /\ Valid(m)
  BY <1>1 DEF IInv, Msg, TaskShape
<1>4. /\ new \in [live -> SendBlockMeta]
      /\ \A r \in live : /\ new[r].need = Cardinality(ServedBy(m.p))
                         /\ new[r].sent = Captured(m, r).sent
                         /\ new[r].sending = Captured(m, r).sending + 1
                         /\ new[r].ready = Captured(m, r).ready
                         /\ new[r].owned = Captured(m, r).owned
  <2> SUFFICES ASSUME NEW r \in live
               PROVE  LET o == Captured(m, r)
                          v == Take(o, m.p)
                      IN  /\ v \in SendBlockMeta
                          /\ v.need = Cardinality(ServedBy(m.p))
                          /\ v.sent = o.sent /\ v.sending = o.sending + 1
                          /\ v.ready = o.ready /\ v.owned = o.owned
    OBVIOUS
  <2>1. /\ Captured(m, r) \in SendBlockMeta
        /\ Resolve(Captured(m, r), m.p) = Cardinality(ServedBy(m.p))
        /\ Cardinality(ServedBy(m.p)) \in Nat
    BY <1>2, CapturedTyped
  <2> QED BY <2>1, TakeTyped
<1>5. meta' = [meta EXCEPT ![m.p] = [r \in Req |->
                 IF r \in live THEN [meta[m.p][r] EXCEPT ![Ref(m, r)] = new[r]]
                 ELSE meta[m.p][r]]]
  BY <1>1 DEF OnRefs
<1>6. \A r \in live : /\ lease[m.p][r] = Ref(m, r) /\ slot[m.p][r] = Ref(m, r)
                      /\ r \notin finishedSending[m.p]
                      /\ r \in Req /\ Ref(m, r) \in Gen
  BY LivePinned
<1>7. /\ t \in Task /\ t.stage = "writing" /\ t.pending = rest /\ t.round = live
      /\ t.ok = live \ bad /\ t.ref = task[m].ref
  <2>1. task[m] \in Task /\ rest \in SUBSET Req /\ live \in SUBSET Req
        /\ live \ bad \in SUBSET Req /\ done \ live \in SUBSET Req
    BY <1>2, <1>3 DEF SenderTypeOK
  <2> HIDE DEF rest, live
  <2> QED BY <2>1 DEF Task
<1>8. rest \cap live = {} /\ rest \cup live \subseteq task[m].pending
  BY <1>2
<1> HIDE DEF new, live, rest, t
<1>9. RefsBecome(m, live, new)
  BY <1>2, <1>4, <1>5, RefsUpdate
<1>10. /\ task' \in [Msg -> Task] /\ task'[m] = t
       /\ \A n \in Msg : n # m => task'[n] = task[n]
  BY <1>1, <1>3, <1>7 DEF SenderTypeOK
<1>11. \A x \in PRank, y \in Req, h \in Gen :
         /\ meta'[x][y][h].ready = meta[x][y][h].ready
         /\ meta'[x][y][h].owned = meta[x][y][h].owned
         /\ meta'[x][y][h].sent = meta[x][y][h].sent
         /\ meta'[x][y][h].need \in {meta[x][y][h].need, Cardinality(ServedBy(x))}
         /\ meta'[x][y][h].sending =
              IF x = m.p /\ y \in live /\ h = Ref(m, y) THEN meta[x][y][h].sending + 1
              ELSE meta[x][y][h].sending
  BY <1>4, <1>9 DEF RefsBecome, Captured
<1>12. SenderTypeOK'
  BY <1>1, <1>3, <1>9, <1>10 DEF SenderTypeOK, RefsBecome, ownerVars
<1>13. WireTypeOK' /\ IsFiniteSet(posted)' /\ AskedOnce'
  BY <1>1 DEF IInv, WireTypeOK, AskedOnce, wireVars
<1>14. TaskShape'
  <2> SUFFICES ASSUME NEW n \in Msg
               PROVE  /\ task'[n].stage # "idle" => n \in posted
                      /\ task'[n].stage \in {"waiting", "writing"} => Valid(n)
                      /\ task'[n].pending \cup task'[n].round \subseteq n.batch
                      /\ task'[n].pending \cap task'[n].round = {}
                      /\ task'[n].ok \subseteq task'[n].round
                      /\ task'[n].stage # "writing" => task'[n].round = {}
                      /\ task'[n].stage \in {"idle", "done", "dead"} => task'[n].pending = {}
                      /\ \A r \in task'[n].pending \cup task'[n].round :
                           task'[n].ref[r] \in 1 .. made[n.p][r]
    BY <1>1 DEF TaskShape, Valid, wireVars
  <2>1. CASE n = m
    BY <1>3, <1>7, <1>8, <1>10, <2>1 DEF IInv, TaskShape
  <2>2. CASE n # m
    BY <1>10, <2>2 DEF IInv, TaskShape
  <2> QED BY <2>1, <2>2
<1>15. SendingBalanced'
  <2> SUFFICES ASSUME NEW p \in PRank, NEW r \in Req, NEW g \in Gen
               PROVE  meta'[p][r][g].sending = Cardinality(Holders(p, r, g)')
    BY DEF SendingBalanced
  <2>1. /\ meta[p][r][g].sending = Cardinality(Holders(p, r, g))
        /\ IsFiniteSet(Holders(p, r, g)) /\ m \notin Holders(p, r, g)
    BY <1>3, HoldersFinite DEF IInv, SendingBalanced, Holders
  <2>2. CASE p = m.p /\ r \in live /\ g = Ref(m, r)
    <3>1. Holders(p, r, g)' = Holders(p, r, g) \cup {m}
      BY <1>7, <1>10, <2>2 DEF Holders, Ref
    <3>2. Cardinality(Holders(p, r, g) \cup {m}) = Cardinality(Holders(p, r, g)) + 1
      BY <2>1, FS_AddElement
    <3>3. meta'[p][r][g].sending = meta[p][r][g].sending + 1
      BY <1>11, <2>2
    <3> QED BY <2>1, <3>1, <3>2, <3>3
  <2>3. CASE ~(p = m.p /\ r \in live /\ g = Ref(m, r))
    <3>1. Holders(p, r, g)' = Holders(p, r, g)
      BY <1>3, <1>7, <1>10, <2>3 DEF Holders, Ref
    <3>2. meta'[p][r][g].sending = meta[p][r][g].sending
      BY <1>11, <2>3
    <3> QED BY <2>1, <3>1, <3>2
  <2> QED BY <2>2, <2>3
<1>16. RoundsPinned'
  <2> SUFFICES ASSUME NEW n \in Msg, NEW r \in task'[n].round
               PROVE  /\ lease[n.p][r] = task'[n].ref[r]
                      /\ meta'[n.p][r][task'[n].ref[r]].need = Cardinality(ServedBy(n.p))
    BY <1>1 DEF RoundsPinned, Ref, Captured, ownerVars
  <2>1. CASE n = m
    BY <1>3, <1>4, <1>6, <1>7, <1>9, <1>10, <2>1 DEF RefsBecome, Ref
  <2>2. CASE n # m
    <3>1. task'[n] = task[n]
      BY <1>10, <2>2
    <3>2. n.p \in PRank /\ r \in Req /\ Ref(n, r) \in Gen
      BY <3>1, RefMade
    <3>3. /\ lease[n.p][r] = Ref(n, r)
          /\ meta[n.p][r][Ref(n, r)].need = Cardinality(ServedBy(n.p))
      BY <3>1 DEF IInv, RoundsPinned, Ref, Captured
    <3>4. meta'[n.p][r][Ref(n, r)].need = Cardinality(ServedBy(n.p))
      BY <1>11, <3>2, <3>3
    <3> QED BY <3>1, <3>3, <3>4 DEF Ref
  <2> QED BY <2>1, <2>2
<1>17. NeedResolved' /\ SentBounded' /\ FenceShape'
  <2>1. NeedResolved'
    <3>1. \A x \in PRank, y \in Req, h \in Gen :
            meta'[x][y][h].need \in {meta[x][y][h].need, Cardinality(ServedBy(x))}
      BY <1>11
    <3> QED BY <3>1 DEF IInv, NeedResolved
  <2>2. SentBounded'
    <3>1. \A x \in PRank, y \in Req, h \in Gen : meta'[x][y][h].sent = meta[x][y][h].sent
      BY <1>11
    <3> QED BY <1>1, <3>1 DEF IInv, SentBounded, ServedRanks, ownerVars
  <2>3. FenceShape'
    BY <1>1 DEF IInv, FenceShape, ownerVars
  <2> QED BY <2>1, <2>2, <2>3
<1>18. \A n \in Msg : /\ task[n].stage # "idle" => task'[n].stage # "idle"
                      /\ task'[n].pending \cup task'[n].round
                           \subseteq task[n].pending \cup task[n].round
  BY <1>7, <1>8, <1>10
<1>19. ServedAsked'
  <2> SUFFICES ASSUME NEW d \in DRank, NEW p \in PRank, NEW r \in Req, <<d, p, r>> \in served
               PROVE  /\ d \in ServedBy(p)
                      /\ \E n \in posted : /\ n.d = d /\ n.p = p /\ r \in n.batch
                            /\ task'[n].stage # "idle"
                            /\ r \notin task'[n].pending \cup task'[n].round
    BY <1>1 DEF ServedAsked, wireVars
  <2>1. PICK n \in posted : /\ n.d = d /\ n.p = p /\ r \in n.batch
                            /\ task[n].stage # "idle"
                            /\ r \notin task[n].pending \cup task[n].round
    BY DEF IInv, ServedAsked
  <2>2. n \in Msg
    BY DEF IInv, WireTypeOK
  <2> QED BY <1>18, <2>1, <2>2 DEF IInv, ServedAsked
<1>20. ASSUME NEW p \in PRank, NEW r \in Req
       PROVE  KeyInv(p, r)'
  <2>1. KeyInv(p, r)
    BY KeyInvFrom
  <2>2. /\ slot[p][r] = NoGen \/ slot[p][r] \in Gen
        /\ lease[p][r] = NoGen \/ lease[p][r] \in Gen
    BY <1>3 DEF SenderTypeOK, Gen, NoGen
  <2> USE DEF ownerVars, wireVars
  <2>0. UNCHANGED <<slot, made, lease, phase>>
    BY <1>1
  <2>c. \A h \in Gen : /\ meta'[p][r][h].ready = meta[p][r][h].ready
                        /\ meta'[p][r][h].owned = meta[p][r][h].owned
                        /\ meta'[p][r][h].sent = meta[p][r][h].sent
    BY <1>11
  <2>a. KeyNumbered(p, r)'
    BY <2>0, <2>1, <2>c DEF KeyInv, KeyNumbered
  <2>b. KeyReady(p, r)'
    BY <2>0, <2>1, <2>2, <2>c DEF KeyInv, KeyReady
  <2>3. lease'[p][r] # NoGen =>
          /\ phase'[p][r] = "sent"
          /\ meta'[p][r][lease'[p][r]].owned /\ meta'[p][r][lease'[p][r]].ready
    BY <2>0, <2>1, <2>2, <2>c DEF KeyInv, KeyPinned
  <2>4. CASE p = m.p /\ r \in live
    BY <1>1, <1>6, <2>a, <2>b, <2>3, <2>4
       DEF KeyInv, KeyPinned, KeyFinished, KeyStranger
  <2>5. CASE ~(p = m.p /\ r \in live)
    <3>1. \A n \in Msg : n.p = p => (r \in task'[n].round <=> r \in task[n].round)
      BY <1>3, <1>7, <1>10, <2>5
    <3>2. Undisturbed(p, r)' <=> Undisturbed(p, r)
      BY <3>1 DEF Undisturbed
    <3>3. lease[p][r] # NoGen /\ slot[p][r] \notin {NoGen, lease[p][r]} =>
            \E n \in posted : /\ n.p = p /\ r \in n.batch /\ n.d \in ServedBy(p)
                             /\ task'[n].stage # "idle" /\ r \notin task'[n].round
                             /\ <<n.d, p, r>> \notin served
      <4>1. posted \subseteq Msg
        BY DEF IInv, WireTypeOK
      <4> QED BY <1>18, <2>1, <3>1, <4>1 DEF KeyInv, KeyStranger
    <3>4. r \in finishedSending[p] /\ slot[p][r] # NoGen => ~meta'[p][r][slot[p][r]].ready
      BY <2>1, <2>2, <2>c DEF KeyInv, KeyFinished
    <3>5. KeyPinned(p, r)'
      BY <1>1, <2>1, <2>3, <3>2 DEF KeyInv, KeyPinned
    <3>6. KeyFinished(p, r)'
      BY <1>1, <2>1, <3>2, <3>4 DEF KeyInv, KeyFinished
    <3>7. KeyStranger(p, r)'
      BY <1>1, <3>3 DEF KeyStranger
    <3> QED BY <2>a, <2>b, <3>5, <3>6, <3>7 DEF KeyInv
  <2> QED BY <2>4, <2>5
<1> QED BY <1>12, <1>13, <1>14, <1>15, <1>16, <1>17, <1>19, <1>20, IInvFrom
        DEF TaskPart, KeyPart

\* Either way a round goes.
LEMMA RoundStep ==
  ASSUME IInv, NEW m \in Msg, Round(m)
  PROVE  IInv'
<1>1. PICK done \in SUBSET Woken(m) : \E bad \in SUBSET done : StartRound(m, done, bad)
  BY DEF Round
<1>2. PICK bad \in SUBSET done : StartRound(m, done, bad)
  BY <1>1
<1>3. CASE bad = {r \in done : Current(m, r)}
  BY <1>2, <1>3, EmptyRound
<1>4. CASE bad # {r \in done : Current(m, r)}
  BY <1>2, <1>4, WriteStarts
<1> QED BY <1>3, <1>4

(***************************************************************************)
(* The objects of a round after it let go of them, when the writes of good *)
(* count as sent.                                                          *)
(***************************************************************************)
Dropped(m, good) == [r \in task[m].round |-> Drop(Captured(m, r), r \in good)]

\* Letting go undoes the count that taking added, so it never goes negative.
LEMMA DroppedTyped ==
  ASSUME IInv, NEW m \in Msg, NEW good \in SUBSET task[m].round
  PROVE  /\ Dropped(m, good) \in [task[m].round -> SendBlockMeta]
         /\ \A r \in task[m].round :
              LET v == Dropped(m, good)[r]
                  o == Captured(m, r)
              IN  /\ v.need = o.need /\ v.sending = o.sending - 1
                  /\ v.sent = IF r \in good THEN o.sent + 1 ELSE o.sent
                  /\ v.ready = o.ready /\ v.owned = o.owned
<1> SUFFICES ASSUME NEW r \in task[m].round
             PROVE  LET v == Drop(Captured(m, r), r \in good)
                        o == Captured(m, r)
                    IN  /\ v \in SendBlockMeta
                        /\ v.need = o.need /\ v.sending = o.sending - 1
                        /\ v.sent = IF r \in good THEN o.sent + 1 ELSE o.sent
                        /\ v.ready = o.ready /\ v.owned = o.owned
  BY DEF Dropped
<1>1. m.p \in PRank /\ r \in Req /\ Ref(m, r) \in Gen
  BY RefMade
<1>2. m \in Holders(m.p, r, Ref(m, r))
  BY DEF Holders, Ref
<1>3. Captured(m, r).sending # 0 /\ Captured(m, r) \in SendBlockMeta
  BY <1>1, <1>2, QuietUnheld, CapturedTyped DEF Quiet, Captured
<1>4. (r \in good) \in BOOLEAN
  OBVIOUS
<1> QED BY <1>3, <1>4, DropTyped

\* With the round gone, sending still counts the rounds.
LEMMA DroppedBalanced ==
  ASSUME IInv, NEW m \in Msg, NEW good \in SUBSET task[m].round, Settles(m),
         RefsBecome(m, task[m].round, Dropped(m, good))
  PROVE  SendingBalanced'
<1> SUFFICES ASSUME NEW p \in PRank, NEW r \in Req, NEW g \in Gen
             PROVE  meta'[p][r][g].sending = Cardinality(Holders(p, r, g)')
  BY DEF SendingBalanced
<1>1. /\ meta[p][r][g].sending = Cardinality(Holders(p, r, g))
      /\ IsFiniteSet(Holders(p, r, g))
  BY HoldersFinite DEF IInv, SendingBalanced
<1>2. CASE p = m.p /\ r \in task[m].round /\ g = Ref(m, r)
  <2>1. m \in Holders(p, r, g)
    BY <1>2 DEF Holders, Ref
  <2>2. Holders(p, r, g)' = Holders(p, r, g) \ {m}
    BY <1>2 DEF Holders, Settles
  <2>3. Cardinality(Holders(p, r, g) \ {m}) = Cardinality(Holders(p, r, g)) - 1
    BY <1>1, <2>1, FS_RemoveElement
  <2>4. meta'[p][r][g].sending = meta[p][r][g].sending - 1
    BY <1>2, DroppedTyped DEF RefsBecome, Captured
  <2> QED BY <1>1, <2>2, <2>3, <2>4
<1>3. CASE ~(p = m.p /\ r \in task[m].round /\ g = Ref(m, r))
  <2>1. Holders(p, r, g)' = Holders(p, r, g)
    BY <1>3 DEF Holders, Ref, Settles
  <2>2. meta'[p][r][g] = meta[p][r][g]
    BY <1>3 DEF RefsBecome
  <2> QED BY <1>1, <2>1, <2>2
<1> QED BY <1>2, <1>3

\* A write that raised lets go of its objects and answers nothing.
LEMMA WriteRaiseStep ==
  ASSUME IInv, NEW m \in Msg, WriteRaise(m)
  PROVE  IInv'
<1> DEFINE new == Dropped(m, {})
           t == [NewTask EXCEPT !.stage = "dead"]
<1>1. /\ task[m].stage = "writing"
      /\ OnRefs(m, task[m].round, LAMBDA o : Drop(o, FALSE))
      /\ task' = [task EXCEPT ![m] = t]
      /\ UNCHANGED <<wireVars, slot, made, finishedSending, ownerVars, served>>
  BY DEF WriteRaise
<1>2. m \in posted /\ SenderTypeOK
  BY <1>1 DEF IInv, TaskShape
<1>3. m \in Msg /\ Settles(m) /\ TaskShape' /\ AskedOnce' /\ IsFiniteSet(posted)'
  BY <1>1, <1>2, FinishSettles, SettledTask DEF wireVars
<1>4. meta' = [meta EXCEPT ![m.p] = [r \in Req |->
                 IF r \in task[m].round
                   THEN [meta[m.p][r] EXCEPT ![Ref(m, r)] = new[r]]
                   ELSE meta[m.p][r]]]
  <2>1. \A r \in task[m].round : new[r] = Drop(Captured(m, r), FALSE)
    BY DEF Dropped, Drop
  <2>2. meta' = [meta EXCEPT ![m.p] = [r \in Req |->
                   IF r \in task[m].round
                     THEN [meta[m.p][r] EXCEPT ![Ref(m, r)] = Drop(Captured(m, r), FALSE)]
                     ELSE meta[m.p][r]]]
    BY <1>1 DEF OnRefs
  <2> HIDE DEF new
  <2> QED BY <2>1, <2>2
<1>5. /\ new \in [task[m].round -> SendBlockMeta]
      /\ \A r \in task[m].round : /\ new[r].need = Captured(m, r).need
                                  /\ new[r].sent = Captured(m, r).sent
                                  /\ new[r].ready = Captured(m, r).ready
                                  /\ new[r].owned = Captured(m, r).owned
  BY DroppedTyped
<1> HIDE DEF new, t
<1>6. RefsBecome(m, task[m].round, new)
  BY <1>4, <1>5, RefsUpdate
<1>7. \A p \in PRank, r \in Req, g \in Gen :
        /\ meta'[p][r][g].ready = meta[p][r][g].ready
        /\ meta'[p][r][g].owned = meta[p][r][g].owned
        /\ meta'[p][r][g].sent = meta[p][r][g].sent
        /\ meta'[p][r][g].need = meta[p][r][g].need
  BY <1>5, <1>6 DEF RefsBecome, Captured
<1>8. SenderTypeOK'
  BY <1>1, <1>2, <1>3, <1>6 DEF SenderTypeOK, ownerVars, RefsBecome, Settles
<1>9. SendingBalanced'
  BY <1>3, <1>6, DroppedBalanced DEF new
<1>10. RoundsPinned' /\ NeedResolved'
  BY <1>1, <1>3, <1>7, SettledRounds DEF ownerVars
<1>11. WireTypeOK' /\ SentBounded' /\ FenceShape'
  BY <1>1, <1>7 DEF IInv, WireTypeOK, SentBounded, ServedRanks, FenceShape, ownerVars, wireVars
<1>12. ServedAsked'
  BY <1>1, <1>3, SettledServed DEF ServedAsked, wireVars
<1>13. ASSUME NEW p \in PRank, NEW r \in Req
       PROVE  KeyInv(p, r)'
  <2>1. KeyKept(p, r)
    BY <1>1, <1>7 DEF KeyKept, ReadyAsBefore, ownerVars
  <2> QED BY <1>1, <1>3, <1>7, <2>1, SettledKey DEF wireVars
<1> QED BY <1>3, <1>8, <1>9, <1>10, <1>11, <1>12, <1>13, IInvFrom DEF TaskPart, KeyPart

(***************************************************************************)
(* The write that completes an object is the last: every other paired D    *)
(* rank was served, so nobody else asks and no other round holds it.       *)
(***************************************************************************)
LEMMA LastRank ==
  ASSUME IInv, NEW m \in Msg, NEW r \in task[m].round, Complete(Captured(m, r)),
         NEW d \in ServedBy(m.p), d # m.d
  PROVE  <<d, m.p, r>> \in served
<1> DEFINE A == ServedRanks(m.p, r)
           B == ServedBy(m.p)
<1>1. /\ m \in posted /\ r \in m.batch /\ m.p \in PRank /\ r \in Req /\ m.d \in B
      /\ Ref(m, r) \in Gen
  BY AtWork, RefMade DEF Valid
<1>2. IsFiniteSet(B) /\ Cardinality(B) \in Nat
  BY <1>1, ServedByFinite
<1>3. A \subseteq B /\ m.d \notin A
  BY <1>1, OpenUnserved DEF ServedRanks
<1>4. IsFiniteSet(A) /\ Cardinality(A) \in Nat
  BY <1>2, <1>3, FS_Subset, FS_CardinalityType
<1>5. /\ Captured(m, r).sent <= Cardinality(A) /\ Captured(m, r).sent \in Nat
      /\ Captured(m, r).need = Cardinality(B)
  <2>1. Captured(m, r).sent <= Cardinality(A)
    BY <1>1 DEF IInv, SentBounded, Captured
  <2>2. Captured(m, r) \in SendBlockMeta
    BY CapturedTyped
  <2> QED BY <2>1, <2>2 DEF IInv, RoundsPinned, SendBlockMeta
<1>6. Captured(m, r).sent + 1 = Captured(m, r).need
  BY DEF Complete
<1> HIDE DEF A, B
<1>7. /\ A \cup {m.d} \subseteq B /\ IsFiniteSet(A \cup {m.d})
      /\ Cardinality(A \cup {m.d}) = Cardinality(A) + 1
  BY <1>1, <1>3, <1>4, FS_AddElement
<1>8. Cardinality(A \cup {m.d}) <= Cardinality(B)
  BY <1>2, <1>7, FS_Subset
<1>9. Cardinality(B) = Cardinality(A \cup {m.d})
  BY <1>2, <1>4, <1>5, <1>6, <1>7, <1>8
<1>10. B = A \cup {m.d}
  BY <1>2, <1>7, <1>9, FS_Subset
<1> QED BY <1>10 DEF A, B, ServedRanks

\* No other round holds the object that is being completed.
LEMMA LoneRound ==
  ASSUME IInv, NEW m \in Msg, NEW r \in task[m].round, Complete(Captured(m, r)),
         NEW n \in Msg, n.p = m.p, r \in task[n].round
  PROVE  n = m
<1>1. /\ m \in posted /\ r \in m.batch /\ n \in posted /\ r \in n.batch
      /\ n.d \in ServedBy(m.p)
  BY AtWork DEF Valid
<1>2. <<n.d, n.p, r>> \notin served
  BY <1>1, OpenUnserved
<1>3. n.d = m.d
  BY <1>1, <1>2, LastRank
<1> QED BY <1>1, <1>3, OneAsker

\* Counting a write: sent and the set of served ranks grow by one together.
LEMMA ServedGrows ==
  ASSUME IInv, NEW m \in Msg, NEW r \in task[m].round, <<m.d, m.p, r>> \in served',
         served \subseteq served'
  PROVE  /\ IsFiniteSet(ServedRanks(m.p, r)')
         /\ Cardinality(ServedRanks(m.p, r)) \in Nat
         /\ Cardinality(ServedRanks(m.p, r)) + 1 <= Cardinality(ServedRanks(m.p, r)')
         /\ Cardinality(ServedRanks(m.p, r)') \in Nat
<1> DEFINE A == ServedRanks(m.p, r)
           C == ServedRanks(m.p, r)'
<1>1. /\ m \in posted /\ r \in m.batch /\ m.p \in PRank /\ m.d \in ServedBy(m.p)
  BY AtWork DEF Valid
<1>2. A \subseteq ServedBy(m.p) /\ C \subseteq ServedBy(m.p)
      /\ A \cup {m.d} \subseteq C /\ m.d \notin A
  BY <1>1, OpenUnserved DEF ServedRanks
<1>3. /\ IsFiniteSet(A) /\ IsFiniteSet(C)
      /\ Cardinality(A) \in Nat /\ Cardinality(C) \in Nat
  BY <1>1, <1>2, ServedByFinite, FS_Subset, FS_CardinalityType
<1> HIDE DEF A, C
<1>4. Cardinality(A \cup {m.d}) = Cardinality(A) + 1
  BY <1>2, <1>3, FS_AddElement
<1>5. Cardinality(A \cup {m.d}) <= Cardinality(C)
  BY <1>2, <1>3, FS_Subset
<1> QED BY <1>3, <1>4, <1>5 DEF A, C

(***************************************************************************)
(* A write is counted; the last one reports the request and pops it.       *)
(***************************************************************************)
LEMMA WriteDoneStep ==
  ASSUME IInv, NEW m \in Msg, NEW good \in SUBSET task[m].round, WriteDone(m, good)
  PROVE  IInv'
<1> DEFINE p == m.p
           ended == {r \in good : Complete(Captured(m, r)) /\ slot[p][r] # NoGen}
           new == Dropped(m, good)
<1>1. /\ task[m].stage = "writing"
      /\ slot' = [slot EXCEPT ![p] =
                    [r \in Req |-> IF r \in ended THEN NoGen ELSE slot[p][r]]]
      /\ finishedSending' = [finishedSending EXCEPT ![p] = @ \cup ended]
      /\ meta' = [meta EXCEPT ![p] = [r \in Req |->
           IF r \in task[m].round
             THEN [meta[p][r] EXCEPT ![Ref(m, r)] = Drop(Captured(m, r), r \in good)]
             ELSE meta[p][r]]]
      /\ served' = served \cup {<<m.d, p, r>> : r \in good}
      /\ Answer(m, RoundStatus(task[m].pending), good,
                   (task[m].round \ good) \cup task[m].gone)
      /\ task' = NextRound(m, task[m].pending)
      /\ UNCHANGED <<posted, made, phase, fencing, withdrawn, lease>>
  BY DEF WriteDone, ownerVars
<1>2. /\ m \in posted /\ SenderTypeOK /\ Valid(m) /\ p \in PRank /\ m.d \in DRank
      /\ task[m] \in Task
  BY <1>1 DEF IInv, TaskShape, SenderTypeOK, Msg
<1>3. /\ task[m].round \subseteq Req /\ task[m].gone \subseteq Req
      /\ task[m].pending \subseteq Req /\ good \subseteq Req /\ ended \subseteq good
  BY <1>2 DEF Task
<1>4. PICK t : Settled(m, t) /\ task' = [task EXCEPT ![m] = t]
  BY <1>1, <1>2, NextRoundSettles
<1>5. Settles(m) /\ TaskShape' /\ AskedOnce' /\ IsFiniteSet(posted)'
  BY <1>1, <1>2, <1>4, SettledTask
<1>6. RefsBecome(m, task[m].round, new)
  <2>1. \A r \in task[m].round : new[r] = Drop(Captured(m, r), r \in good)
    BY DEF Dropped
  <2>2. new \in [task[m].round -> SendBlockMeta]
    BY DroppedTyped
  <2> HIDE DEF new
  <2>3. meta' = [meta EXCEPT ![p] = [r \in Req |->
           IF r \in task[m].round THEN [meta[p][r] EXCEPT ![Ref(m, r)] = new[r]]
             ELSE meta[p][r]]]
    BY <1>1, <2>1
  <2> QED BY <2>2, <2>3, RefsUpdate
<1>7. \A x \in PRank, y \in Req, h \in Gen :
        /\ meta'[x][y][h].ready = meta[x][y][h].ready
        /\ meta'[x][y][h].owned = meta[x][y][h].owned
        /\ meta'[x][y][h].need = meta[x][y][h].need
        /\ meta'[x][y][h].sent =
             IF x = p /\ y \in good /\ h = Ref(m, y) THEN meta[x][y][h].sent + 1
             ELSE meta[x][y][h].sent
  <2>1. \A r \in task[m].round :
          /\ new[r].ready = Captured(m, r).ready /\ new[r].owned = Captured(m, r).owned
          /\ new[r].need = Captured(m, r).need
          /\ new[r].sent = IF r \in good THEN Captured(m, r).sent + 1
                          ELSE Captured(m, r).sent
    BY DroppedTyped
  <2> HIDE DEF new
  <2> QED BY <1>6, <2>1 DEF RefsBecome, Captured
<1>8. WireTypeOK'
  <2>1. RoundStatus(task[m].pending) \in Status
    BY DEF RoundStatus, Status
  <2>2. good \in SUBSET Req /\ (task[m].round \ good) \cup task[m].gone \in SUBSET Req
    BY <1>3
  <2> QED BY <1>1, <2>1, <2>2, AnswerTyped
<1>9. SendingBalanced'
  BY <1>5, <1>6, DroppedBalanced
<1> HIDE DEF new
<1>10. /\ \A x \in PRank, y \in Req :
            /\ slot'[x][y] = IF x = p /\ y \in ended THEN NoGen ELSE slot[x][y]
            /\ y \in finishedSending'[x] <=>
                 y \in finishedSending[x] \/ (x = p /\ y \in ended)
       /\ slot' \in [PRank -> [Req -> 0 .. MaxGen]]
       /\ finishedSending' \in [PRank -> SUBSET Req]
  <2> HIDE DEF ended
  <2>1. slot' \in [PRank -> [Req -> 0 .. MaxGen]]
    BY <1>1, <1>2, SenderAssumption DEF SenderTypeOK, NoGen
  <2>2. finishedSending' \in [PRank -> SUBSET Req]
    BY <1>1, <1>2, <1>3 DEF SenderTypeOK
  <2> QED BY <1>1, <1>2, <2>1, <2>2 DEF SenderTypeOK
<1>11. SenderTypeOK'
  <2>1. served' \subseteq Copy
    BY <1>1, <1>2, <1>3 DEF SenderTypeOK, Copy
  <2> QED BY <1>1, <1>2, <1>5, <1>6, <1>10, <2>1 DEF SenderTypeOK, Settles, RefsBecome
<1>12. RoundsPinned' /\ NeedResolved'
  <2>1. \A x \in PRank, y \in Req, h \in Gen :
          meta'[x][y][h].need \in {meta[x][y][h].need, Cardinality(ServedBy(x))}
    BY <1>7
  <2>2. UNCHANGED lease
    BY <1>1
  <2> QED BY <1>5, <2>1, <2>2, SettledRounds
<1>13. SentBounded'
  <2> SUFFICES ASSUME NEW x \in PRank, NEW y \in Req, NEW h \in Gen
               PROVE  meta'[x][y][h].sent <= Cardinality(ServedRanks(x, y)')
    BY DEF SentBounded
  <2>1. meta[x][y][h].sent <= Cardinality(ServedRanks(x, y)) /\ meta[x][y][h].sent \in Nat
    BY <1>2 DEF IInv, SentBounded, SenderTypeOK, SendBlockMeta
  <2>2. CASE x = p /\ y \in good
    <3>1. /\ Cardinality(ServedRanks(x, y)) \in Nat /\ Cardinality(ServedRanks(x, y)') \in Nat
          /\ Cardinality(ServedRanks(x, y)) + 1 <= Cardinality(ServedRanks(x, y)')
      BY <1>1, <2>2, ServedGrows
    <3>2. meta'[x][y][h].sent \in {meta[x][y][h].sent, meta[x][y][h].sent + 1}
      BY <1>7
    <3> DEFINE a == meta[x][y][h].sent
               b == meta'[x][y][h].sent
    <3>3. a \in Nat /\ a <= Cardinality(ServedRanks(x, y)) /\ b \in {a, a + 1}
      BY <2>1, <3>2
    <3> HIDE DEF a, b
    <3>4. b <= Cardinality(ServedRanks(x, y)')
      BY <3>1, <3>3
    <3> QED BY <3>4 DEF b
  <2>3. CASE ~(x = p /\ y \in good)
    <3>1. ServedRanks(x, y)' = ServedRanks(x, y)
      BY <1>1, <2>3 DEF ServedRanks
    <3> QED BY <1>7, <2>1, <2>3, <3>1
  <2> QED BY <2>2, <2>3
<1>14. ServedAsked'
  <2> SUFFICES ASSUME NEW d \in DRank, NEW x \in PRank, NEW y \in Req, <<d, x, y>> \in served'
               PROVE  /\ d \in ServedBy(x)
                      /\ \E n \in posted : /\ n.d = d /\ n.p = x /\ y \in n.batch
                            /\ task'[n].stage # "idle"
                            /\ y \notin task'[n].pending \cup task'[n].round
    BY <1>1 DEF ServedAsked
  <2>1. CASE <<d, x, y>> \in served
    BY <1>1, <1>5, <2>1, SettledServed
  <2>2. CASE d = m.d /\ x = p /\ y \in good
    <3>1. y \notin task[m].pending /\ y \in m.batch
      BY <2>2 DEF IInv, TaskShape
    <3>2. task'[m].stage # "idle" /\ task'[m].pending \subseteq task[m].pending
          /\ task'[m].round = {}
      BY <1>1, <1>5 DEF Settles
    <3> QED BY <1>2, <2>2, <3>1, <3>2 DEF Valid
  <2> QED BY <1>1, <2>1, <2>2
<1>15. FenceShape'
  <2>2. UNCHANGED <<fencing, lease>>
    BY <1>1
  <2> SUFFICES ASSUME NEW x \in PRank, NEW o \in fencing[x]
               PROVE  fencing[x] = {o} /\ lease[x][o[1]] = o[2] /\ slot'[x][o[1]] # o[2]
    BY <2>2 DEF FenceShape
  <2>1. /\ o[1] \in Req /\ o[2] \in Gen /\ fencing[x] = {o}
        /\ lease[x][o[1]] = o[2] /\ slot[x][o[1]] # o[2]
    BY Fenced
  <2> QED BY <1>10, <2>1 DEF Gen, NoGen
<1>16. ASSUME NEW r \in good
       PROVE  KeyInv(p, r)'
  <2>1. /\ r \in Req /\ Ref(m, r) \in Gen /\ r \in task[m].round /\ r \in m.batch
        /\ KeyInv(p, r)
    BY RefMade, KeyInvFrom
  <2>2. lease[p][r] = Ref(m, r) /\ lease[p][r] \in Gen /\ lease[p][r] # NoGen
    BY <2>1 DEF IInv, RoundsPinned, Ref, Gen, NoGen
  <2>3. slot[p][r] = NoGen \/ slot[p][r] \in Gen
    BY <1>2, <2>1 DEF SenderTypeOK, Gen, NoGen
  <2>4. slot'[p][r] = IF r \in ended THEN NoGen ELSE slot[p][r]
    BY <1>10, <1>2, <2>1
  <2>5. ~Undisturbed(p, r)
    BY <2>1 DEF Undisturbed
  <2>6. r \in ended => Undisturbed(p, r)'
    <3> SUFFICES ASSUME r \in ended, NEW n \in Msg, n.p = p, r \in task'[n].round
                 PROVE  FALSE
      BY DEF Undisturbed
    <3>1. r \in task[n].round
      BY <1>5 DEF Settles
    <3>2. n = m
      BY <2>1, <3>1, LoneRound
    <3> QED BY <1>5, <3>2 DEF Settles
  <2>7. r \in finishedSending'[p] => r \in ended
    BY <1>2, <1>10, <2>1, <2>5 DEF KeyInv, KeyFinished
  <2>8. r \in ended => \A d \in ServedBy(p) : <<d, p, r>> \in served'
    BY <1>1, <2>1, LastRank
  <2>9. 0 <= made[p][r] /\ lease[p][r] <= made[p][r] /\ made[p][r] \in Nat
    BY <1>2, <2>1, SenderAssumption DEF SenderTypeOK, KeyInv, KeyNumbered
  <2>10. ASSUME NEW h \in Gen, h > made[p][r]
         PROVE  ~meta'[p][r][h].ready /\ meta'[p][r][h].sent = 0
    <3>1. h # Ref(m, r)
      BY <2>2, <2>9, <2>10 DEF Gen
    <3> QED BY <1>2, <1>7, <2>1, <2>10, <3>1 DEF KeyInv, KeyNumbered
  <2>11. ASSUME slot'[p][r] \notin {NoGen, lease[p][r]}
         PROVE  \E n \in posted : /\ n.p = p /\ r \in n.batch /\ n.d \in ServedBy(p)
                        /\ task'[n].stage # "idle" /\ r \notin task'[n].round
                        /\ <<n.d, p, r>> \notin served'
    <3>1. PICK n \in posted : /\ n.p = p /\ r \in n.batch /\ n.d \in ServedBy(p)
                              /\ task[n].stage # "idle" /\ r \notin task[n].round
                              /\ <<n.d, p, r>> \notin served
      BY <2>1, <2>2, <2>4, <2>11 DEF KeyInv, KeyStranger
    <3>2. n.d # m.d
      BY <1>2, <2>1, <3>1, OneAsker
    <3>3. n \in Msg
      BY DEF IInv, WireTypeOK
    <3> QED BY <1>1, <1>5, <3>1, <3>2, <3>3 DEF Settles
  <2>12. /\ slot'[p][r] <= made[p][r]
         /\ slot'[p][r] # NoGen /\ meta'[p][r][slot'[p][r]].ready => lease[p][r] = slot'[p][r]
         /\ meta'[p][r][lease[p][r]].owned /\ meta'[p][r][lease[p][r]].ready
         /\ phase[p][r] = "sent"
    <3>1. slot'[p][r] <= made[p][r]
      BY <2>1, <2>4, <2>9 DEF KeyInv, KeyNumbered, NoGen
    <3>2. slot'[p][r] # NoGen /\ meta'[p][r][slot'[p][r]].ready => lease[p][r] = slot'[p][r]
      <4>1. slot'[p][r] # NoGen => slot'[p][r] = slot[p][r] /\ slot[p][r] \in Gen
        BY <2>3, <2>4
      <4>2. \A h \in Gen : meta'[p][r][h].ready = meta[p][r][h].ready
        BY <1>2, <1>7, <2>1
      <4> QED BY <2>1, <4>1, <4>2 DEF KeyInv, KeyReady
    <3>3. /\ meta'[p][r][lease[p][r]].owned /\ meta'[p][r][lease[p][r]].ready
          /\ phase[p][r] = "sent"
      BY <1>2, <1>7, <2>1, <2>2 DEF KeyInv, KeyPinned
    <3> QED BY <3>1, <3>2, <3>3
  <2>13. slot'[p][r] # lease[p][r] => <<r, lease[p][r]>> \in fencing[p] \/ Undisturbed(p, r)'
    BY <2>1, <2>2, <2>4, <2>5, <2>6 DEF KeyInv, KeyPinned
  <2> HIDE DEF ended
  <2>0. UNCHANGED <<posted, made, phase, fencing, lease>>
    BY <1>1
  <2>14. KeyNumbered(p, r)'
    BY <2>0, <2>9, <2>10, <2>12 DEF KeyNumbered
  <2>15. KeyReady(p, r)'
    BY <2>0, <2>12 DEF KeyReady
  <2>16. KeyPinned(p, r)'
    BY <2>0, <2>12, <2>13 DEF KeyPinned
  <2>17. KeyFinished(p, r)'
    BY <2>0, <2>4, <2>6, <2>7, <2>8, <2>12 DEF KeyFinished
  <2>18. KeyStranger(p, r)'
    BY <2>0, <2>11 DEF KeyStranger
  <2> QED BY <2>14, <2>15, <2>16, <2>17, <2>18 DEF KeyInv
<1>17. ASSUME NEW x \in PRank, NEW y \in Req
       PROVE  KeyInv(x, y)'
  <2>1. CASE x = p /\ y \in good
    BY <1>16, <2>1
  <2>2. CASE ~(x = p /\ y \in good)
    <3>1. ~(x = p /\ y \in ended)
      BY <1>3, <2>2
    <3>2. KeyKept(x, y)
      <4>1. UNCHANGED <<made, lease, phase, fencing>>
        BY <1>1
      <4>2. /\ slot'[x][y] = slot[x][y]
            /\ y \in finishedSending'[x] => y \in finishedSending[x]
        BY <1>10, <3>1
      <4>3. ReadyAsBefore(x, y)
        BY <1>7 DEF ReadyAsBefore
      <4> QED BY <4>1, <4>2, <4>3 DEF KeyKept
    <3>3. \A g \in Gen : meta'[x][y][g].sent = meta[x][y][g].sent
      BY <1>7, <2>2
    <3>4. \A n \in Msg : n.p = x /\ <<n.d, x, y>> \in served' => <<n.d, x, y>> \in served
      BY <1>1, <2>2
    <3>5. served \subseteq served'
      BY <1>1
    <3> QED BY <1>1, <1>5, <3>2, <3>3, <3>4, <3>5, SettledKey
  <2> QED BY <2>1, <2>2
<1> QED BY <1>5, <1>8, <1>9, <1>11, <1>12, <1>13, <1>14, <1>15, <1>17, IInvFrom
        DEF TaskPart, KeyPart

-----------------------------------------------------------------------------
\* The invariant and what it implies.

\* Nothing has happened yet.
LEMMA InitIInv == Init => IInv
<1> SUFFICES ASSUME Init
             PROVE  IInv
  OBVIOUS
<1> USE SenderAssumption DEF Init, WireInit, SenderInit, NoGen
<1>1. WireTypeOK /\ IsFiniteSet(posted) /\ AskedOnce
  <2>1. <<>> \in Seq(Reply)
    OBVIOUS
  <2> QED BY <2>1, FS_EmptySet DEF WireTypeOK, AskedOnce
<1>2. SenderTypeOK
  <2>1. NewTask \in Task /\ NewMeta \in SendBlockMeta
    BY DEF NewTask, Task, NewMeta, SendBlockMeta
  <2>2. 0 \in 0 .. MaxGen
    OBVIOUS
  <2> QED BY <2>1, <2>2 DEF SenderTypeOK
<1>3. \A m \in Msg : task[m] = NewTask
  OBVIOUS
<1>4. TaskShape /\ RoundsPinned
  BY <1>3 DEF TaskShape, RoundsPinned, NewTask
<1>5. \A p \in PRank, r \in Req, g \in Gen : Holders(p, r, g) = {}
  BY <1>3 DEF Holders, NewTask
<1>6. SendingBalanced
  BY <1>5, FS_EmptySet DEF SendingBalanced, NewMeta
<1>7. NeedResolved /\ Numbering /\ ReadyPinned /\ PinnedSent
  BY DEF NeedResolved, Numbering, ReadyPinned, PinnedSent, NewMeta
<1>8. FenceShape /\ ServedAsked /\ FinishedQuiet /\ Strangers /\ FinishedMeansServed
  BY DEF FenceShape, ServedAsked, FinishedQuiet, Strangers, FinishedMeansServed
<1>9. SentBounded
  <2>1. \A p \in PRank, r \in Req : ServedRanks(p, r) = {}
    BY DEF ServedRanks
  <2>2. \A p \in PRank, r \in Req, g \in Gen : meta[p][r][g].sent = 0
    BY DEF NewMeta
  <2>3. \A p \in PRank, r \in Req : Cardinality(ServedRanks(p, r)) = 0
    BY <2>1, FS_EmptySet
  <2> QED BY <2>2, <2>3 DEF SentBounded
<1> QED BY <1>1, <1>2, <1>4, <1>6, <1>7, <1>8, <1>9 DEF IInv

\* Every step of the sender, and every message, keeps IInv.
LEMMA NextIInv == IInv /\ [Next]_vars => IInv'
<1> SUFFICES ASSUME IInv, [Next]_vars
             PROVE  IInv'
  OBVIOUS
<1>1. ASSUME NEW p \in PRank, OwnerStep(p) \/ \E r \in Req : Lapse(p, r)
      PROVE  IInv'
  BY <1>1, PrepareStep, SendStep, CancelStep, PreemptStep, CancelReturnStep,
     PollSendStep, LapseStep DEF OwnerStep
<1>2. ASSUME NEW m \in Msg, TaskStep(m)
      PROVE  IInv'
  <2>1. CASE Refuse(m)
    BY <2>1, RefuseStep
  <2>2. CASE Capture(m)
    BY <2>2, CaptureStep
  <2>3. CASE Round(m)
    BY <2>3, RoundStep
  <2>4. CASE WaitTimeout(m)
    BY <2>4, WaitTimeoutStep
  <2>5. CASE WriteEnd(m)
    <3>1. task[m].ok \in SUBSET task[m].round /\ {} \in SUBSET task[m].round
      BY DEF IInv, TaskShape
    <3> QED BY <2>5, <3>1, WriteDoneStep, WriteRaiseStep DEF WriteEnd
  <2> QED BY <1>2, <2>1, <2>2, <2>3, <2>4, <2>5 DEF TaskStep
<1>3. ASSUME NEW m \in Msg, Ask(m)
      PROVE  IInv'
  BY <1>3, AskStep
<1>4. CASE UNCHANGED vars
  <2> USE <1>4 DEF vars, wireVars, senderVars, metaVars, ownerVars
  <2>1. (WireTypeOK /\ SenderTypeOK /\ IsFiniteSet(posted))'
    BY DEF IInv, WireTypeOK, SenderTypeOK
  <2>2. (AskedOnce /\ TaskShape /\ Numbering /\ SendingBalanced)'
    BY DEF IInv, AskedOnce, TaskShape, Numbering, SendingBalanced, Holders, Valid
  <2>3. (RoundsPinned /\ NeedResolved /\ ReadyPinned)'
    BY DEF IInv, RoundsPinned, NeedResolved, ReadyPinned, Captured, Ref
  <2>4. (PinnedSent /\ FenceShape)'
    BY DEF IInv, PinnedSent, FenceShape, Undisturbed
  <2>5. (ServedAsked /\ SentBounded)'
    BY DEF IInv, ServedAsked, SentBounded, ServedRanks
  <2>6. (FinishedQuiet /\ Strangers /\ FinishedMeansServed)'
    BY DEF IInv, FinishedQuiet, Strangers, FinishedMeansServed, Undisturbed
  <2> QED BY <2>1, <2>2, <2>3, <2>4, <2>5, <2>6 DEF IInv
<1> QED BY <1>1, <1>2, <1>3, <1>4 DEF Next, SenderNext

(***************************************************************************)
(* IInv holds in every reachable state of the sender, whatever the engine  *)
(* and the D ranks do and however the steps of the two loops interleave.   *)
(***************************************************************************)
THEOREM Inductive == Spec => []IInv
BY InitIInv, NextIInv, PTL DEF Spec

\* The state keeps its shape: SendBlockMeta's counters never go negative.
THEOREM TypeCorrect == Spec => []SenderTypeOK
<1>1. IInv => SenderTypeOK
  BY DEF IInv
<1> QED BY <1>1, Inductive, PTL

(***************************************************************************)
(* A TE write only reads blocks that are pinned for the object its round   *)
(* captured: cancel(), preempt() and poll() never release them under it.   *)
(***************************************************************************)
THEOREM ReadsArePinned == Spec => []NoReadAfterRelease
<1>1. ASSUME IInv, NEW m \in Msg, NEW r \in Reads(m)
      PROVE  lease[m.p][r] = Ref(m, r)
  <2>1. r \in task[m].round
    BY <1>1 DEF Reads, IInv, TaskShape
  <2> QED BY <1>1, <2>1 DEF IInv, RoundsPinned, Ref
<1>2. IInv => NoReadAfterRelease
  BY <1>1 DEF NoReadAfterRelease
<1> QED BY <1>2, Inductive, PTL

\* sending is exactly the number of rounds that hold the object, on every way
\* out of send_kv_to_decode.
THEOREM SendingCounts == Spec => []SendingBalanced
<1>1. IInv => SendingBalanced
  BY DEF IInv
<1> QED BY <1>1, Inductive, PTL

\* finished_sending_reqs frees a request only when all its D ranks are served.
THEOREM FinishedServed == Spec => []FinishedMeansServed
<1>1. IInv => FinishedMeansServed
  BY DEF IInv
<1> QED BY <1>1, Inductive, PTL

(***************************************************************************)
(* Popping reqs_need_send by transfer id never removes another object than *)
(* the completed one.                                                      *)
(***************************************************************************)
THEOREM PopsOwn == Spec => []PopIsOwn
<1>1. ASSUME IInv
      PROVE  PopIsOwn
  <2> SUFFICES ASSUME NEW m \in Msg, NEW r \in Reads(m), Complete(Captured(m, r)),
                      slot[m.p][r] \notin {NoGen, Ref(m, r)}
               PROVE  FALSE
    BY DEF PopIsOwn
  <2>1. r \in task[m].round
    BY <1>1 DEF Reads, IInv, TaskShape
  <2>2. m.p \in PRank /\ r \in Req /\ Ref(m, r) \in Gen
    BY <1>1, <2>1, RefMade
  <2>3. lease[m.p][r] = Ref(m, r) /\ lease[m.p][r] # NoGen
    BY <1>1, <2>1, <2>2 DEF IInv, RoundsPinned, Ref, Gen, NoGen
  <2>4. PICK n \in posted : /\ n.p = m.p /\ r \in n.batch /\ n.d \in ServedBy(m.p)
                            /\ r \notin task[n].round /\ <<n.d, m.p, r>> \notin served
    BY <1>1, <2>2, <2>3 DEF IInv, Strangers
  <2>5. n.d = m.d
    BY <1>1, <2>1, <2>4, LastRank
  <2>6. m \in posted /\ r \in m.batch
    BY <1>1, <2>1, AtWork
  <2>7. n = m
    BY <1>1, <2>4, <2>5, <2>6, OneAsker
  <2> QED BY <2>1, <2>4, <2>7
<1> QED BY <1>1, Inductive, PTL

=============================================================================
