-------------------------- MODULE MTSCEngineProofs --------------------------
(***************************************************************************)
(* Proofs about MTSCEngine, for any requests, ranks and bounds: the blocks *)
(* that vLLM has back are quiet, what it takes for loaded is loaded, it is *)
(* told of what it waits for and of nothing else, and nothing is left of a *)
(* request that is gone.                                                   *)
(*                                                                         *)
(* The invariant EngineInv follows each load and each save on each rank:   *)
(* from the batch that a step collects, through the metadata that a rank   *)
(* has not seen yet and the worker's books, to the report that vLLM counts.*)
(* At each moment a rank has a load in exactly one of these places.        *)
(***************************************************************************)
EXTENDS MTSCEngine, FiniteSetTheorems, TLAPS

-----------------------------------------------------------------------------
\* What the metadata of a step still has to start on a rank.

Due(w) == phase = "execute" /\ w \notin ran

LoadsOf(w, r)  == {x \in batch.loads \cup Keep(metadata.loads, Due(w)) : x.req = r}
PlansOf(w, r)  == {x \in batch.plans \cup Keep(metadata.plans, Due(w)) : x.req = r}
SavesOf(w, r)  == {x \in Keep(metadata.saves, Due(w)) : x.req = r}
ReadyOf(w, r)  == {x \in batch.states \cup Keep(metadata.states, Due(w)) :
                     x.req = r /\ x.state = "ready"}
WaitsOf(w, r)  == {finishedWaits[x] : x \in DOMAIN finishedWaits \cap {r}}
                  \cup {metadata.waits[x] : x \in Keep(DOMAIN metadata.waits, Due(w)) \cap {r}}

Filled(w, r, from, to) == \A i \in from .. to - 1 : <<TableOf(r), i>> \in valid[w]

\* vLLM waits for a load of the request, or keeps its blocks until one is over.
Remote(r) == status[r] \in {"remote", "aborted"}

-----------------------------------------------------------------------------
\* The inductive invariant.

Shapes ==
  /\ batch \in [loads : SUBSET LoadRequest, saves : SUBSET SaveRequest,
                plans : SUBSET TransferPlan, states : SUBSET SourceState]
  /\ DOMAIN metadata.waits \subseteq Req
  /\ \A r \in DOMAIN metadata.waits : metadata.waits[r] \in Wait
  /\ getOp = [w \in Rank |-> getOp[w]] /\ putOp = [w \in Rank |-> putOp[w]]
  /\ pull = [w \in Rank |-> pull[w]] /\ source = [w \in Rank |-> source[w]]
  /\ onLoad = [w \in Rank |-> onLoad[w]] /\ onXfer = [w \in Rank |-> onXfer[w]]
  /\ waits = [w \in Rank |-> waits[w]]
  /\ onSave \in [Rank -> SUBSET Req] /\ valid \in [Rank -> SUBSET (Table \X Tokens)]
  /\ \A w \in Rank : /\ DOMAIN getOp[w] \subseteq Req /\ DOMAIN putOp[w] \subseteq Req
                     /\ DOMAIN pull[w] \subseteq Req /\ DOMAIN source[w] \subseteq Req
                     /\ DOMAIN onLoad[w] \subseteq Req /\ DOMAIN onXfer[w] \subseteq Req
                     /\ DOMAIN waits[w] \subseteq Req
  /\ output.reports \subseteq [req : Req, rank : Rank, id : LoadId]
  /\ output.received \subseteq Rank \X Req /\ output.sent \subseteq Rank \X Req

TablesUsed == {x \in Req \X (1 .. MaxTables) : x[2] <= table[x[1]]}
IdsBounded == nextLoadId <= Cardinality(TablesUsed)

StepShape ==
  /\ phase = "execute" => batch = NoBatch /\ DOMAIN finishedWaits = {}
  /\ batch.saves = {}
  /\ phase # "schedule" => admitted = {} /\ matched = {} /\ preempting = {}
  /\ phase # "update" => stopping = {}
  /\ phase = "update" => DOMAIN scheduled = {}
  /\ phase = "schedule" => output = NoOutput
  /\ \A p \in batch.plans : p.req \in admitted

\* Where vLLM has the request and what the step does with it.
InStep(r) ==
  /\ r \in DOMAIN scheduled \cup stopping => status[r] = "running"
  /\ r \in preempting => status[r] = "waiting"
  /\ r \in metadata.preempted /\ phase = "execute" => status[r] = "waiting"
  /\ r \in matched => /\ r \notin preempting
                      /\ r \notin admitted => status[r] = "waiting" /\ table[r] < MaxTables
  /\ r \in admitted => status[r] \in {"remote", "running"}
  /\ r \in ended => status[r] \in {"finished", "aborted", "gone"}

\* What get_num_new_matched_tokens has decided for a waiting request.
Decided(r) ==
  /\ r \in DOMAIN xferDecision => r \in remotePrefill
  /\ r \in DOMAIN loadDecision \cup DOMAIN xferDecision => status[r] = "waiting" \/ r \in ended
  /\ r \in matched \ admitted =>
       /\ r \in DOMAIN loadDecision => /\ loadDecision[r].from = local[r]
                                       /\ loadDecision[r].to \in Tokens
                                       /\ loadDecision[r].to > local[r]
       /\ IF r \in DOMAIN xferDecision
          THEN /\ xferDecision[r].L = local[r] /\ xferDecision[r].T = computed[r]
               /\ xferDecision[r].H \in Tokens /\ xferDecision[r].H <= computed[r]
               /\ local[r] <= computed[r]
               /\ r \in DOMAIN loadDecision <=> xferDecision[r].H > local[r]
               /\ r \in DOMAIN loadDecision => loadDecision[r].to = xferDecision[r].H
          ELSE IF r \in DOMAIN loadDecision THEN computed[r] = loadDecision[r].to
          ELSE computed[r] = local[r]

Remembers(r) ==
  /\ r \in saving => status[r] \in {"running", "finished"} \/ r \in preempting
  /\ r \in delayed => status[r] = "finished"
  /\ status[r] \in {"aborted", "gone"} =>
       r \notin DOMAIN tracked \cup DOMAIN traces \cup saving \cup transferring

\* A load that is to begin.
LoadsNew(w, r) ==
  \A x \in LoadsOf(w, r) :
    /\ Remote(r) /\ r \notin DOMAIN getOp[w] /\ r \notin DOMAIN onXfer[w]
    /\ x.table = TableOf(r) /\ x.from = local[r] /\ x.from < x.to
    /\ PlansOf(w, r) = {} /\ status[r] = "remote" => computed[r] <= x.to

\* A plan that is to begin.
PlansNew(w, r) ==
  \A p \in PlansOf(w, r) :
    /\ r \notin DOMAIN getOp[w] /\ r \notin DOMAIN onXfer[w]
    /\ p.table = TableOf(r) /\ p.L = local[r] /\ p.L <= p.T /\ p.H <= p.T
    /\ Awaited(p) <=> Remote(r)
    /\ p.H > p.L <=> LoadsOf(w, r) # {}
    /\ \A x \in LoadsOf(w, r) : x.to = p.H
    /\ status[r] = "remote" => computed[r] <= p.T

\* The GET of a request.
Gets(w, r) ==
  r \in DOMAIN getOp[w] =>
    LET op == getOp[w][r]
    IN  /\ Remote(r)
        /\ op.table = TableOf(r) /\ op.from = local[r]
        /\ op.from <= op.upto /\ op.upto <= op.to
        /\ Filled(w, r, op.from, op.upto)
        /\ IF r \in DOMAIN onXfer[w]
           THEN onXfer[w][r].stage = "POOL_LOADING" /\ op.to = onXfer[w][r].plan.H
           ELSE status[r] = "remote" => computed[r] <= op.to

\* The plan of a request and its two stages.
Transfers(w, r) ==
  r \in DOMAIN onXfer[w] =>
    LET x == onXfer[w][r]
    IN  /\ x.plan.table = TableOf(r) /\ x.plan.L = local[r]
        /\ x.plan.L <= x.plan.T /\ x.plan.H <= x.plan.T
        /\ Awaited(x.plan) <=> Remote(r)
        /\ status[r] = "remote" => computed[r] <= x.plan.T
        /\ IF r \in DOMAIN getOp[w] THEN x.stage = "POOL_LOADING"
           ELSE /\ x.stage = "TRANSFER_LOADING"
                /\ x.plan.L <= x.A /\ x.A <= x.plan.T
                /\ Filled(w, r, x.plan.L, x.A)

\* The receive of the second stage.
Pulls(w, r) ==
  /\ r \in DOMAIN pull[w] <=>
       r \in DOMAIN onXfer[w] /\ onXfer[w][r].stage = "TRANSFER_LOADING"
  /\ r \in DOMAIN pull[w] =>
       LET op == pull[w][r]
           x  == onXfer[w][r]
       IN  /\ op.table = TableOf(r) /\ op.from = x.A /\ op.to = x.plan.T
           /\ op.state = "ok" => Filled(w, r, x.A, x.plan.T)

\* The worker's books are those of its backends.
Books(w, r) == /\ r \in DOMAIN getOp[w] <=> r \in DOMAIN onLoad[w]
               /\ r \in DOMAIN putOp[w] <=> r \in onSave[w]

Loading(w, r) == \/ LoadsOf(w, r) # {} \/ r \in DOMAIN getOp[w]
                 \/ \E p \in PlansOf(w, r) : Awaited(p)
                 \/ r \in DOMAIN onXfer[w] /\ Awaited(onXfer[w][r].plan)
Reported(w, r) == w \in receivedBy[r] \/ <<w, r>> \in output.received

\* A rank is loading for a request that waits, or has reported, once.
OneReport(w, r) == /\ Remote(r) => (Loading(w, r) <=> ~Reported(w, r))
                   /\ ~Remote(r) => ~Reported(w, r)
                   /\ ~(w \in receivedBy[r] /\ <<w, r>> \in output.received)

\* Each block that vLLM takes for computed is filled, or is told to be invalid
\* before vLLM looks.
Covered(w, r, i) == \/ <<TableOf(r), i>> \in valid[w]
                    \/ phase = "execute" /\ <<TableOf(r), i>> \in output.invalid
Covers(w, r) ==
  /\ status[r] = "remote" /\ Reported(w, r) =>
       \A i \in local[r] .. computed[r] - 1 : Covered(w, r, i)
  /\ status[r] = "loaded" => Filled(w, r, local[r], computed[r])

\* Saves, and whom they are remembered by.
SavesHeld(w, r) ==
  /\ r \in onSave[w] \/ SavesOf(w, r) # {} => r \in saving \/ Unfenced(w, r)
  /\ SavesOf(w, r) # {} => status[r] = "running"
  /\ \A x \in SavesOf(w, r) : x.table = TableOf(r)
  /\ r \in DOMAIN putOp[w] => putOp[w][r].table = TableOf(r)

SentBy(w, r) == w \in sentBy[r] \/ <<w, r>> \in output.sent

\* A rank has to wait, waits or has reported, once, and not before its saves
\* are over.
OneRelease(w, r) ==
  /\ status[r] # "finished" => WaitsOf(w, r) = {} /\ r \notin DOMAIN waits[w] /\ ~SentBy(w, r)
  /\ WaitsOf(w, r) # {} => r \notin DOMAIN waits[w] /\ ~SentBy(w, r)
  /\ r \in DOMAIN waits[w] => ~SentBy(w, r)
  /\ ~(w \in sentBy[r] /\ <<w, r>> \in output.sent)
  /\ status[r] = "finished" /\ r \in onSave[w] =>
       \/ WaitsOf(w, r) # {} /\ \A x \in WaitsOf(w, r) : x.save
       \/ r \in DOMAIN waits[w] /\ waits[w][r].wait.save /\ ~waits[w][r].saveDone

\* A source that P may be read from keeps its request.
Sources(w, r) ==
  /\ ReadyOf(w, r) # {} => WaitsOf(w, r) # {} /\ \A x \in WaitsOf(w, r) : x.xfer
  /\ \A x \in ReadyOf(w, r) : x.table = TableOf(r)
  /\ r \in DOMAIN source[w] /\ source[w][r].state = "published" =>
       /\ source[w][r].table = TableOf(r)
       /\ r \in DOMAIN waits[w] /\ waits[w][r].wait.xfer /\ ~waits[w][r].xferDone

\* Nothing is left of a preempted request once the rank has fenced it.
Quiet(w, r) ==
  /\ status[r] = "waiting" /\ ~Unfenced(w, r) =>
       /\ r \notin DOMAIN getOp[w] /\ r \notin DOMAIN onXfer[w] /\ r \notin onSave[w]
       /\ PlansOf(w, r) = {}
  /\ r \in metadata.preempted /\ phase = "execute" => PlansOf(w, r) = {}

\* What holds of a request, of its loads on a rank, and of what a rank holds its
\* blocks for.
RequestInv(r) == InStep(r) /\ Decided(r) /\ Remembers(r)
LoadInv(w, r) == /\ LoadsNew(w, r) /\ PlansNew(w, r) /\ Gets(w, r) /\ Transfers(w, r)
                 /\ Pulls(w, r) /\ OneReport(w, r) /\ Covers(w, r)
HoldInv(w, r) == /\ Books(w, r) /\ SavesHeld(w, r) /\ OneRelease(w, r) /\ Sources(w, r)
                 /\ Quiet(w, r)
EngineInv == /\ EngineTypeOK /\ Shapes /\ IdsBounded /\ StepShape
             /\ \A r \in Req : RequestInv(r)
             /\ \A w \in Rank, r \in Req : LoadInv(w, r) /\ HoldInv(w, r)

-----------------------------------------------------------------------------
\* The smallest of some numbers.

\* Min of numbers is one of them and the least.
LEMMA MinIsLeast ==
  ASSUME NEW S, S \subseteq Nat, S # {}
  PROVE  Min(S) \in S /\ \A y \in S : Min(S) <= y
<1> DEFINE R     == StrictSubsetOrdering(Nat)
           Below == {1 .. x : x \in S}
<1>1. Below \subseteq FiniteSubsetsOf(Nat) /\ Below # {}
  <2>1. \A x \in S : IsFiniteSet(1 .. x) /\ 1 .. x \subseteq Nat
    BY FS_Interval
  <2> QED BY <2>1 DEF FiniteSubsetsOf
<1>2. PICK B \in Below : \A C \in Below : ~(<<C, B>> \in R)
  <2> HIDE DEF R, Below
  <2>1. IsWellFoundedOn(R, FiniteSubsetsOf(Nat))
    BY FS_StrictSubsetOrderingWellFounded DEF R
  <2> QED BY <1>1, <2>1, WFMin
<1>3. PICK x \in S : B = 1 .. x
  OBVIOUS
<1>4. ASSUME NEW y \in S
      PROVE  x <= y
  <2> SUFFICES ASSUME y < x PROVE FALSE
    OBVIOUS
  <2>1. 1 .. y \in Below /\ 1 .. y \subseteq 1 .. x /\ x \in 1 .. x /\ x \notin 1 .. y
    OBVIOUS
  <2>2. 1 .. y # 1 .. x
    BY <2>1
  <2>3. <<1 .. y, 1 .. x>> \in R
    BY <2>1, <2>2 DEF StrictSubsetOrdering
  <2> QED BY <1>2, <1>3, <2>1, <2>3
<1> QED BY <1>4 DEF Min

\* Of picks an item of the request.
LEMMA OneOf ==
  ASSUME NEW S, NEW r, r \in Reqs(S)
  PROVE  Of(S, r) \in S /\ Of(S, r).req = r
BY DEF Of, Reqs

\* What is due has the type of what was published.
LEMMA DueTypes ==
  ASSUME NEW w \in Rank, NEW r \in Req, SchedulerTypeOK, Shapes
  PROVE  /\ LoadsOf(w, r) \subseteq LoadRequest /\ PlansOf(w, r) \subseteq TransferPlan
         /\ SavesOf(w, r) \subseteq SaveRequest /\ ReadyOf(w, r) \subseteq SourceState
         /\ WaitsOf(w, r) \subseteq Wait
BY DEF LoadsOf, PlansOf, SavesOf, ReadyOf, WaitsOf, SchedulerTypeOK, Shapes, Keep

-----------------------------------------------------------------------------
\* The first states.

\* The first states are typed.
LEMMA InitTypes == EngineInit => EngineTypeOK /\ Shapes /\ StepShape
<1> SUFFICES ASSUME EngineInit PROVE EngineTypeOK /\ Shapes /\ StepShape
  OBVIOUS
<1> USE EngineAssumption DEF EngineInit, SchedulerInit, WorkerInit
<1>1. 0 \in LoadId
  <2>1. Cardinality(Req) \in Nat
    BY FS_CardinalityType
  <2> QED BY <2>1 DEF LoadId
<1>2. SchedulerTypeOK
  BY <1>1 DEF SchedulerTypeOK, NoBatch, NoMetadata
<1>3. WorkerTypeOK
  BY DEF WorkerTypeOK
<1>4. EngineTypeOK
  BY <1>2, <1>3 DEF EngineTypeOK, Tokens
<1>5. Shapes
  BY DEF Shapes, NoBatch, NoMetadata, NoOutput
<1>6. StepShape
  BY DEF StepShape, NoBatch, NoOutput
<1> QED BY <1>4, <1>5, <1>6

\* At the start nothing is due, under way or reported.
LEMMA InitInv == EngineInit => EngineInv
<1> SUFFICES ASSUME EngineInit PROVE EngineInv
  OBVIOUS
<1>1. EngineTypeOK /\ Shapes /\ StepShape
  BY InitTypes
<1> USE EngineAssumption DEF EngineInit, SchedulerInit, WorkerInit
<1>2. IdsBounded
  <2>1. TablesUsed = {}
    BY DEF TablesUsed
  <2> QED BY <2>1, FS_EmptySet DEF IdsBounded
<1>3. ASSUME NEW r \in Req PROVE RequestInv(r)
  BY DEF RequestInv, InStep, Decided, Remembers, NoMetadata
<1>4. ASSUME NEW w \in Rank, NEW r \in Req PROVE LoadInv(w, r) /\ HoldInv(w, r)
  <2>1. LoadsOf(w, r) = {} /\ PlansOf(w, r) = {}
    BY DEF LoadsOf, PlansOf, NoBatch, NoMetadata, Keep
  <2>2. SavesOf(w, r) = {} /\ ReadyOf(w, r) = {} /\ WaitsOf(w, r) = {}
    BY DEF SavesOf, ReadyOf, WaitsOf, NoBatch, NoMetadata, Keep
  <2>3. LoadInv(w, r)
    BY <2>1 DEF LoadInv, LoadsNew, PlansNew, Gets, Transfers, Pulls, OneReport, Covers, Remote,
                Reported, NoOutput, Loading
  <2>4. HoldInv(w, r)
    BY <2>1, <2>2 DEF HoldInv, Books, SavesHeld, OneRelease, Sources, Quiet, SentBy, NoOutput, NoMetadata
  <2> QED BY <2>3, <2>4
<1> QED BY <1>1, <1>2, <1>3, <1>4 DEF EngineInv

-----------------------------------------------------------------------------
\* What most steps leave alone.

\* Steps that leave the scheduler alone keep its type.
LEMMA SchedulerSame ==
  ASSUME SchedulerTypeOK, UNCHANGED schedVars PROVE SchedulerTypeOK'
BY DEF SchedulerTypeOK, schedVars, trackVars, decideVars

\* Steps that leave the workers alone keep their type.
LEMMA WorkerSame ==
  ASSUME WorkerTypeOK, UNCHANGED workerVars PROVE WorkerTypeOK'
BY DEF WorkerTypeOK, workerVars, backends

\* The entries of r in a dictionary before and after a step.
SameAt(f, g, r) == (r \in DOMAIN g <=> r \in DOMAIN f) /\ (r \in DOMAIN f => g[r] = f[r])

\* The loads of r on w go on as they are.
KeepsLoad(w, r) ==
  /\ LoadsOf(w, r)' = LoadsOf(w, r) /\ PlansOf(w, r)' = PlansOf(w, r)
  /\ table'[r] = table[r] /\ local'[r] = local[r] /\ computed'[r] \in Tokens
  /\ Remote(r)' <=> Remote(r)
  /\ status'[r] = "remote" => status[r] = "remote" /\ computed'[r] <= computed[r]
  /\ SameAt(getOp[w], getOp'[w], r) /\ SameAt(onXfer[w], onXfer'[w], r)
  /\ SameAt(pull[w], pull'[w], r)
  /\ valid[w] \subseteq valid'[w]
  /\ Reported(w, r)' <=> Reported(w, r)
  /\ w \in receivedBy'[r] /\ <<w, r>> \in output'.received =>
       w \in receivedBy[r] /\ <<w, r>> \in output.received

\* What is reported to be invalid stays so until vLLM looks.
KeepsCover(w, r) ==
  /\ status'[r] = "loaded" => status[r] = "loaded" /\ computed'[r] <= computed[r]
  /\ phase = "execute" => phase' = "execute" /\ output.invalid \subseteq output'.invalid

\* If the loads of a request go on as they are, all but Covers is kept.
LEMMA FrameLoad ==
  ASSUME NEW w \in Rank, NEW r \in Req, EngineTypeOK, Shapes, LoadInv(w, r), KeepsLoad(w, r)
  PROVE  Covers(w, r)' => LoadInv(w, r)'
<1> SUFFICES ASSUME Covers(w, r)' PROVE LoadInv(w, r)'
  OBVIOUS
<1>1. TableOf(r)' = TableOf(r)
  BY DEF KeepsLoad, TableOf, SameAt
<1>a. computed[r] \in Nat /\ computed'[r] \in Nat
  BY EngineAssumption DEF EngineTypeOK, Tokens, KeepsLoad, SameAt
<1>b. /\ \A x \in LoadsOf(w, r) : x.to \in Nat
      /\ \A x \in PlansOf(w, r) : x.T \in Nat
  BY DueTypes, EngineAssumption DEF EngineTypeOK, LoadRequest, TransferPlan, Tokens
<1>c. /\ r \in DOMAIN getOp[w] => getOp[w][r].to \in Nat
      /\ r \in DOMAIN onXfer[w] => onXfer[w][r].plan.T \in Nat
  BY EngineAssumption DEF EngineTypeOK, WorkerTypeOK, TransferPlan, Tokens
<1>2. LoadsNew(w, r)'
  BY <1>1, <1>a, <1>b DEF LoadInv, LoadsNew, KeepsLoad, SameAt
<1>3. PlansNew(w, r)'
  BY <1>1, <1>a, <1>b DEF LoadInv, PlansNew, KeepsLoad, Awaited, SameAt
<1>4. Gets(w, r)'
  BY <1>1, <1>a, <1>c DEF LoadInv, Gets, KeepsLoad, Filled, SameAt
<1>5. Transfers(w, r)'
  BY <1>1, <1>a, <1>c DEF LoadInv, Transfers, KeepsLoad, Filled, Awaited, SameAt
<1>6. Pulls(w, r)'
  BY <1>1 DEF LoadInv, Pulls, KeepsLoad, Filled, SameAt
<1>7. OneReport(w, r)'
  BY <1>1 DEF LoadInv, OneReport, Loading, KeepsLoad, Awaited, SameAt
<1> QED BY <1>2, <1>3, <1>4, <1>5, <1>6, <1>7 DEF LoadInv

\* Covers is kept if invalid blocks stay reported until vLLM looks.
LEMMA FrameCovers ==
  ASSUME NEW w \in Rank, NEW r \in Req, EngineTypeOK, Covers(w, r), KeepsLoad(w, r),
         KeepsCover(w, r)
  PROVE  Covers(w, r)'
<1>1. TableOf(r)' = TableOf(r)
  BY DEF KeepsLoad, TableOf, SameAt
<1>2. computed[r] \in Nat /\ computed'[r] \in Nat /\ local[r] \in Nat
  BY EngineAssumption DEF EngineTypeOK, Tokens, KeepsLoad, SameAt
<1>3. ASSUME NEW i \in local[r] .. computed'[r] - 1, Covered(w, r, i) PROVE Covered(w, r, i)'
  BY <1>1, <1>3 DEF Covered, KeepsLoad, KeepsCover, SameAt
<1>4. computed'[r] <= computed[r] =>
        \A i \in local[r] .. computed'[r] - 1 : i \in local[r] .. computed[r] - 1
  BY <1>2
<1>5. Reported(w, r)' <=> Reported(w, r)
  BY DEF KeepsLoad
<1>6. status'[r] = "remote" /\ Reported(w, r)' =>
        \A i \in local'[r] .. computed'[r] - 1 : Covered(w, r, i)'
  BY <1>3, <1>4, <1>5 DEF Covers, KeepsLoad, SameAt
<1>7. status'[r] = "loaded" => Filled(w, r, local[r], computed[r])'
  BY <1>1, <1>4 DEF Covers, Filled, KeepsLoad, KeepsCover, SameAt
<1> QED BY <1>6, <1>7 DEF Covers

\* A request that is not waited for and has nothing due or under way.
LEMMA NoLoad ==
  ASSUME NEW w \in Rank, NEW r \in Req,
         LoadsOf(w, r)' = {}, PlansOf(w, r)' = {},
         r \notin DOMAIN getOp'[w], r \notin DOMAIN onXfer'[w], r \notin DOMAIN pull'[w],
         ~Reported(w, r)', ~Remote(r)', status'[r] # "loaded"
  PROVE  LoadInv(w, r)'
BY DEF LoadInv, LoadsNew, PlansNew, Gets, Transfers, Pulls, OneReport, Loading, Reported,
       Covers, Remote

\* The saves, the source and the release of r on w go on as they are.
KeepsHold(w, r) ==
  /\ SavesOf(w, r)' = SavesOf(w, r) /\ ReadyOf(w, r)' = ReadyOf(w, r)
  /\ WaitsOf(w, r)' = WaitsOf(w, r) /\ PlansOf(w, r)' = PlansOf(w, r)
  /\ SameAt(getOp[w], getOp'[w], r) /\ SameAt(onXfer[w], onXfer'[w], r)
  /\ SameAt(putOp[w], putOp'[w], r) /\ SameAt(waits[w], waits'[w], r)
  /\ SameAt(source[w], source'[w], r)
  /\ r \in DOMAIN onLoad'[w] <=> r \in DOMAIN onLoad[w]
  /\ r \in onSave'[w] <=> r \in onSave[w]
  /\ SentBy(w, r)' <=> SentBy(w, r)
  /\ w \in sentBy'[r] /\ <<w, r>> \in output'.sent => w \in sentBy[r] /\ <<w, r>> \in output.sent
  /\ table'[r] = table[r]
  /\ status'[r] = "finished" <=> status[r] = "finished"
  /\ status'[r] = "waiting" => Unfenced(w, r)' \/ (status[r] = "waiting" /\ ~Unfenced(w, r))
  /\ r \in saving \/ Unfenced(w, r) => r \in saving' \/ Unfenced(w, r)'
  /\ SavesOf(w, r) # {} => status'[r] = "running"
  /\ r \in metadata'.preempted /\ phase' = "execute" => r \in metadata.preempted /\ phase = "execute"

\* If saves, source and release go on as they are, HoldInv is kept.
LEMMA FrameHold ==
  ASSUME NEW w \in Rank, NEW r \in Req, HoldInv(w, r), KeepsHold(w, r)
  PROVE  HoldInv(w, r)'
<1>1. TableOf(r)' = TableOf(r)
  BY DEF KeepsHold, TableOf, SameAt
<1>2. Books(w, r)'
  BY DEF HoldInv, Books, KeepsHold, SameAt
<1>3. SavesHeld(w, r)'
  BY <1>1 DEF HoldInv, SavesHeld, KeepsHold, SameAt
<1>4. OneRelease(w, r)'
  BY <1>1 DEF HoldInv, OneRelease, KeepsHold, SameAt
<1>5. Sources(w, r)'
  BY <1>1 DEF HoldInv, Sources, KeepsHold, SameAt
<1>6. Quiet(w, r)'
  BY DEF HoldInv, Quiet, KeepsHold, SameAt
<1> QED BY <1>2, <1>3, <1>4, <1>5, <1>6 DEF HoldInv

-----------------------------------------------------------------------------
\* The steps of the scheduler.

\* What is due depends on the batch, the metadata and the ranks that ran.
LEMMA DuesSame ==
  ASSUME NEW w \in Rank, NEW r \in Req, UNCHANGED <<batch, metadata, finishedWaits, phase, ran>>
  PROVE  /\ LoadsOf(w, r)' = LoadsOf(w, r) /\ PlansOf(w, r)' = PlansOf(w, r)
         /\ SavesOf(w, r)' = SavesOf(w, r) /\ ReadyOf(w, r)' = ReadyOf(w, r)
         /\ WaitsOf(w, r)' = WaitsOf(w, r)
BY DEF LoadsOf, PlansOf, SavesOf, ReadyOf, WaitsOf, Due

\* A waiting request has nothing under way.
LEMMA WaitingIdle ==
  ASSUME EngineInv, NEW w \in Rank, NEW r \in Req, status[r] = "waiting", ~Unfenced(w, r)
  PROVE  /\ LoadsOf(w, r) = {} /\ PlansOf(w, r) = {} /\ SavesOf(w, r) = {}
         /\ ReadyOf(w, r) = {} /\ WaitsOf(w, r) = {}
         /\ r \notin DOMAIN getOp[w] /\ r \notin DOMAIN onXfer[w] /\ r \notin DOMAIN pull[w]
         /\ r \notin DOMAIN putOp[w] /\ r \notin onSave[w] /\ r \notin DOMAIN waits[w]
         /\ ~(r \in DOMAIN source[w] /\ source[w][r].state = "published")
         /\ ~Reported(w, r) /\ ~SentBy(w, r)
<1>1. LoadInv(w, r) /\ HoldInv(w, r)
  BY DEF EngineInv
<1>2. ~Remote(r)
  BY DEF Remote
<1>3. LoadsOf(w, r) = {} /\ PlansOf(w, r) = {} /\ SavesOf(w, r) = {} /\ WaitsOf(w, r) = {}
  BY <1>1, <1>2 DEF LoadInv, HoldInv, LoadsNew, SavesHeld, OneRelease, Quiet
<1>4. ReadyOf(w, r) = {}
  BY <1>1, <1>3 DEF HoldInv, Sources
<1>5. r \notin DOMAIN getOp[w] /\ r \notin DOMAIN onXfer[w] /\ r \notin DOMAIN pull[w]
  BY <1>1 DEF LoadInv, HoldInv, Quiet, Pulls
<1>6. r \notin DOMAIN putOp[w] /\ r \notin onSave[w] /\ r \notin DOMAIN waits[w]
  BY <1>1 DEF HoldInv, Quiet, Books, OneRelease
<1>7. ~(r \in DOMAIN source[w] /\ source[w][r].state = "published")
  BY <1>1, <1>6 DEF HoldInv, Sources
<1>8. ~Reported(w, r) /\ ~SentBy(w, r)
  BY <1>1, <1>2 DEF LoadInv, HoldInv, OneReport, OneRelease
<1> QED BY <1>3, <1>4, <1>5, <1>6, <1>7, <1>8

\* A lookup decides on a waiting request.
LEMMA LookupRequests ==
  ASSUME EngineInv, NEW q \in Req, NEW L \in 0 .. Prompt, NEW H \in 0 .. Prompt, Lookup(q, L, H)
  PROVE  /\ EngineTypeOK' /\ Shapes' /\ IdsBounded' /\ StepShape'
         /\ \A r \in Req : RequestInv(r)'
<1> USE EngineAssumption
<1>1. L \in Nat /\ L <= Prompt /\ H \in Nat /\ H <= Prompt
  OBVIOUS
<1>2. L + External(q, L, H) \in Tokens
  BY <1>1 DEF External, Tokens
<1>3. SchedulerTypeOK'
  <2>1. DOMAIN loadDecision' \subseteq Req /\ DOMAIN xferDecision' \subseteq Req
    BY DEF With, Without, Lookup, Match, EngineInv, EngineTypeOK, SchedulerTypeOK
  <2> QED BY <2>1 DEF Lookup, Match, trackVars, EngineInv, EngineTypeOK, SchedulerTypeOK
<1>4. EngineTypeOK'
  <2>1. WorkerTypeOK'
    BY WorkerSame DEF Lookup, EngineInv, EngineTypeOK
  <2>2. local' \in [Req -> Tokens] /\ computed' \in [Req -> Tokens]
    BY <1>1, <1>2 DEF Lookup, EngineInv, EngineTypeOK, Tokens
  <2> QED BY <1>3, <2>1, <2>2 DEF Lookup, EngineInv, EngineTypeOK
<1>5. Shapes'
  BY DEF Lookup, Match, workerVars, backends, EngineInv, Shapes
<1>6. IdsBounded'
  BY DEF Lookup, Match, EngineInv, IdsBounded, TablesUsed
<1>7. StepShape'
  BY DEF Lookup, Match, workerVars, EngineInv, StepShape
<1>8. ASSUME NEW r \in Req PROVE RequestInv(r)'
  <2>0. RequestInv(r)
    BY DEF EngineInv
  <2>1. InStep(r)'
    BY <2>0 DEF Lookup, Match, RequestInv, InStep
  <2>2. Remembers(r)'
    BY <2>0 DEF Lookup, Match, trackVars, RequestInv, Remembers
  <2>3. CASE r # q
    <3>1. /\ r \in DOMAIN loadDecision' <=> r \in DOMAIN loadDecision
          /\ r \in DOMAIN loadDecision => loadDecision'[r] = loadDecision[r]
          /\ r \in DOMAIN xferDecision' <=> r \in DOMAIN xferDecision
          /\ r \in DOMAIN xferDecision => xferDecision'[r] = xferDecision[r]
      BY <2>3 DEF With, Without, Lookup, Match
    <3>2. /\ r \in matched' <=> r \in matched
          /\ local'[r] = local[r] /\ computed'[r] = computed[r]
      BY <2>3 DEF Lookup, EngineInv, EngineTypeOK
    <3>3. Decided(r)'
      BY <2>0, <3>1, <3>2 DEF Lookup, Match, RequestInv, Decided
    <3> QED BY <2>1, <2>2, <3>3 DEF RequestInv
  <2>4. CASE r = q
    <3>1. /\ local'[q] = L /\ computed'[q] = L + External(q, L, H)
      BY DEF Lookup, EngineInv, EngineTypeOK
    <3>2. /\ q \in DOMAIN loadDecision' <=> H > L
          /\ q \in DOMAIN loadDecision' => loadDecision'[q] = [from |-> L, to |-> H]
      BY DEF With, Without, Lookup, Match
    <3>3. /\ q \in DOMAIN xferDecision' <=> q \in remotePrefill
          /\ q \in DOMAIN xferDecision' => xferDecision'[q] = [L |-> L, H |-> H, T |-> Prompt]
      BY <2>0, <2>4 DEF With, Lookup, Match, RequestInv, Decided
    <3>4. Decided(q)'
      BY <1>1, <3>1, <3>2, <3>3 DEF Lookup, Match, Decided, External, Tokens
    <3> QED BY <2>1, <2>2, <2>4, <3>4 DEF RequestInv
  <2> QED BY <2>3, <2>4
<1> QED BY <1>4, <1>5, <1>6, <1>7, <1>8

\* A lookup changes local and computed of a request that is idle.
LEMMA LookupRanks ==
  ASSUME EngineInv, NEW q \in Req, NEW L \in 0 .. Prompt, NEW H \in 0 .. Prompt, Lookup(q, L, H),
         EngineTypeOK', NEW w \in Rank, NEW r \in Req
  PROVE  LoadInv(w, r)' /\ HoldInv(w, r)'
<1> USE EngineAssumption
<1>1. LoadInv(w, r) /\ HoldInv(w, r) /\ EngineTypeOK /\ Shapes
  BY DEF EngineInv
<1>2. /\ UNCHANGED <<batch, metadata, finishedWaits, phase, ran, status, table, receivedBy, sentBy,
                     getOp, putOp, pull, source, onLoad, onSave, onXfer, waits, valid, output,
                     saving, preempting, fenced>>
  BY DEF Lookup, Match, trackVars, workerVars, backends
<1>3. Unfenced(w, r)' <=> Unfenced(w, r)
  BY <1>2 DEF Unfenced
<1>4. HoldInv(w, r)'
  <2>1. KeepsHold(w, r)
    BY <1>1, <1>2, <1>3, DuesSame DEF KeepsHold, HoldInv, SavesHeld, SameAt, SentBy
  <2> QED BY <1>1, <2>1, FrameHold
<1>5. CASE r # q
  <2>1. local'[r] = local[r] /\ computed'[r] = computed[r]
    BY <1>5 DEF Lookup, EngineInv, EngineTypeOK
  <2>2. computed[r] \in Tokens /\ computed[r] <= computed[r]
    BY <1>1 DEF EngineTypeOK, Tokens
  <2>3. KeepsLoad(w, r) /\ KeepsCover(w, r)
    BY <1>2, <2>1, <2>2, DuesSame DEF KeepsLoad, KeepsCover, Remote, SameAt, Reported
  <2>4. Covers(w, r)'
    BY <1>1, <2>3, FrameCovers DEF LoadInv
  <2> QED BY <1>1, <1>4, <2>3, <2>4, FrameLoad
<1>6. CASE r = q
  <2>1. status[q] = "waiting" /\ phase = "schedule" /\ preempting = {}
    BY DEF Lookup
  <2>2. ~Unfenced(w, q)
    BY <2>1 DEF Unfenced
  <2>3. LoadInv(w, q)'
    <3>1. /\ LoadsOf(w, q) = {} /\ PlansOf(w, q) = {} /\ q \notin DOMAIN getOp[w]
          /\ q \notin DOMAIN onXfer[w] /\ q \notin DOMAIN pull[w] /\ ~Reported(w, q)
      BY <2>1, <2>2, WaitingIdle
    <3>2. ~Reported(w, q)' /\ ~Remote(q)' /\ status'[q] # "loaded"
      BY <1>2, <2>1, <3>1 DEF Reported, Remote
    <3>3. LoadsOf(w, q)' = {} /\ PlansOf(w, q)' = {}
      BY <1>2, <3>1, DuesSame
    <3> QED BY <1>2, <3>1, <3>2, <3>3, NoLoad
  <2> QED BY <1>4, <1>6, <2>3
<1> QED BY <1>5, <1>6

\* What update_state_after_alloc adds to the batch.
NewLoad(q, t) == [req |-> q, table |-> t, from |-> loadDecision[q].from,
                  to |-> loadDecision[q].to, id |-> nextLoadId + 1]
NewPlan(q, t) == [req |-> q, table |-> t, L |-> xferDecision[q].L, H |-> xferDecision[q].H,
                  T |-> xferDecision[q].T, id |-> nextLoadId + 1]
Decides(q) == q \in DOMAIN loadDecision \cup DOMAIN xferDecision

\* What update_state_after_alloc adds to the batch.
LEMMA AllocBatch ==
  ASSUME Shapes, NEW q \in Req, NEW t, UpdateStateAfterAlloc(q, t)
  PROVE  /\ batch'.loads = batch.loads \cup Keep({NewLoad(q, t)}, q \in DOMAIN loadDecision)
         /\ batch'.plans = batch.plans \cup Keep({NewPlan(q, t)}, q \in DOMAIN xferDecision)
         /\ batch'.saves = batch.saves
         /\ \E S \in SUBSET {[req |-> q, table |-> t, state |-> "prepare"]} :
              batch'.states = batch.states \cup S
         /\ batch' = [loads |-> batch'.loads, saves |-> batch'.saves, plans |-> batch'.plans,
                      states |-> batch'.states]
<1>1. batch = [loads |-> batch.loads, saves |-> batch.saves, plans |-> batch.plans,
               states |-> batch.states]
  BY DEF Shapes
<1> QED BY <1>1 DEF UpdateStateAfterAlloc, NewLoad, NewPlan, Keep

\* A load or a plan that was decided on becomes due on every rank.
LEMMA AllocDues ==
  ASSUME Shapes, NEW q \in Req, NEW t, UpdateStateAfterAlloc(q, t), UNCHANGED <<phase, ran>>,
         NEW w \in Rank
  PROVE  /\ LoadsOf(w, q)' = LoadsOf(w, q) \cup Keep({NewLoad(q, t)}, q \in DOMAIN loadDecision)
         /\ PlansOf(w, q)' = PlansOf(w, q) \cup Keep({NewPlan(q, t)}, q \in DOMAIN xferDecision)
<1>1. UNCHANGED metadata
  BY DEF UpdateStateAfterAlloc
<1>2. NewLoad(q, t).req = q /\ NewPlan(q, t).req = q
  BY DEF NewLoad, NewPlan
<1>3. LoadsOf(w, q)' = LoadsOf(w, q) \cup Keep({NewLoad(q, t)}, q \in DOMAIN loadDecision)
  BY <1>1, <1>2, AllocBatch DEF LoadsOf, Due, Keep
<1>4. PlansOf(w, q)' = PlansOf(w, q) \cup Keep({NewPlan(q, t)}, q \in DOMAIN xferDecision)
  BY <1>1, <1>2, AllocBatch DEF PlansOf, Due, Keep
<1> QED BY <1>3, <1>4

\* Nothing becomes due for the other requests.
LEMMA AllocOthers ==
  ASSUME Shapes, NEW q \in Req, NEW t, UpdateStateAfterAlloc(q, t), UNCHANGED <<phase, ran>>,
         NEW w \in Rank, NEW r \in Req \ {q}
  PROVE  LoadsOf(w, r)' = LoadsOf(w, r) /\ PlansOf(w, r)' = PlansOf(w, r)
<1>1. UNCHANGED metadata
  BY DEF UpdateStateAfterAlloc
<1>2. NewLoad(q, t).req = q /\ NewPlan(q, t).req = q
  BY DEF NewLoad, NewPlan
<1> QED BY <1>1, <1>2, AllocBatch DEF LoadsOf, PlansOf, Due, Keep

\* Neither saves nor waits nor published sources are added.
LEMMA AllocRest ==
  ASSUME Shapes, NEW q \in Req, NEW t, UpdateStateAfterAlloc(q, t), UNCHANGED <<phase, ran>>,
         NEW w \in Rank, NEW r \in Req
  PROVE  /\ SavesOf(w, r)' = SavesOf(w, r) /\ ReadyOf(w, r)' = ReadyOf(w, r)
         /\ WaitsOf(w, r)' = WaitsOf(w, r)
<1>1. UNCHANGED <<metadata, finishedWaits>>
  BY DEF UpdateStateAfterAlloc
<1>2. SavesOf(w, r)' = SavesOf(w, r) /\ WaitsOf(w, r)' = WaitsOf(w, r)
  BY <1>1 DEF SavesOf, WaitsOf, Due
<1>3. ReadyOf(w, r)' = ReadyOf(w, r)
  <2>1. PICK S \in SUBSET {[req |-> q, table |-> t, state |-> "prepare"]} :
          batch'.states = batch.states \cup S
    BY AllocBatch
  <2>2. \A x \in S : x.state # "ready"
    OBVIOUS
  <2> QED BY <1>1, <2>1, <2>2 DEF ReadyOf, Due
<1> QED BY <1>2, <1>3

\* A load id for each table of blocks is enough.
LEMMA IdsEnough ==
  ASSUME EngineTypeOK, IdsBounded
  PROVE  /\ IsFiniteSet(TablesUsed) /\ nextLoadId \in Nat
         /\ Cardinality(TablesUsed) \in 0 .. MaxTables * Cardinality(Req)
<1> USE EngineAssumption
<1> DEFINE All == Req \X (1 .. MaxTables)
<1>1. IsFiniteSet(1 .. MaxTables) /\ Cardinality(1 .. MaxTables) = MaxTables
  BY FS_Interval
<1>2. IsFiniteSet(All) /\ Cardinality(All) = Cardinality(Req) * Cardinality(1 .. MaxTables)
  BY <1>1, FS_Product
<1>3. Cardinality(Req) \in Nat
  BY FS_CardinalityType
<1>4. TablesUsed \subseteq All
  BY DEF TablesUsed
<1>5. IsFiniteSet(TablesUsed) /\ Cardinality(TablesUsed) <= Cardinality(All)
  BY <1>2, <1>4, FS_Subset
<1>6. Cardinality(TablesUsed) \in Nat /\ Cardinality(All) \in Nat
  BY <1>2, <1>5, FS_CardinalityType
<1>7. Cardinality(All) = MaxTables * Cardinality(Req)
  BY <1>1, <1>2, <1>3
<1>8. MaxTables * Cardinality(Req) \in Nat
  BY <1>6, <1>7
<1>9. nextLoadId \in Nat
  BY <1>8 DEF EngineTypeOK, SchedulerTypeOK, LoadId
<1> QED BY <1>5, <1>6, <1>7, <1>9

\* The scheduler stays typed.
LEMMA AllocTypes ==
  ASSUME EngineTypeOK, Shapes, NEW q \in Req, NEW t \in Table, UpdateStateAfterAlloc(q, t),
         q \in DOMAIN loadDecision => loadDecision[q].from \in Tokens /\ loadDecision[q].to \in Tokens,
         q \in DOMAIN xferDecision => /\ xferDecision[q].L \in Tokens
                                      /\ xferDecision[q].H \in Tokens
                                      /\ xferDecision[q].T \in Tokens,
         Decides(q) => nextLoadId + 1 \in LoadId
  PROVE  /\ SchedulerTypeOK'
         /\ batch' \in [loads : SUBSET LoadRequest, saves : SUBSET SaveRequest,
                        plans : SUBSET TransferPlan, states : SUBSET SourceState]
<1> USE EngineAssumption
<1>1. q \in DOMAIN loadDecision => NewLoad(q, t) \in LoadRequest
  BY DEF NewLoad, LoadRequest, Decides
<1>2. q \in DOMAIN xferDecision => NewPlan(q, t) \in TransferPlan
  BY DEF NewPlan, TransferPlan, Decides
<1>3. [req |-> q, table |-> t, state |-> "prepare"] \in SourceState
  BY DEF SourceState
<1>4. batch'.loads \subseteq LoadRequest /\ batch'.plans \subseteq TransferPlan
  BY <1>1, <1>2, AllocBatch DEF Shapes, Keep
<1>5. batch'.saves \subseteq SaveRequest /\ batch'.states \subseteq SourceState
  <2>1. PICK S \in SUBSET {[req |-> q, table |-> t, state |-> "prepare"]} :
          batch'.states = batch.states \cup S
    BY AllocBatch
  <2>2. batch'.saves = batch.saves
    BY AllocBatch
  <2> QED BY <1>3, <2>1, <2>2 DEF Shapes
<1>6. batch' \in [loads : SUBSET LoadRequest, saves : SUBSET SaveRequest,
                  plans : SUBSET TransferPlan, states : SUBSET SourceState]
  <2>1. batch' = [loads |-> batch'.loads, saves |-> batch'.saves, plans |-> batch'.plans,
                  states |-> batch'.states]
    BY AllocBatch
  <2> QED BY <1>4, <1>5, <2>1
<1>7. DOMAIN tracked' \subseteq Req /\ \A r \in DOMAIN tracked' : tracked'[r] \in Tokens
  BY DEF UpdateStateAfterAlloc, Over, EngineTypeOK, SchedulerTypeOK, Tokens
<1>8. DOMAIN loadDecision' \subseteq Req /\ DOMAIN xferDecision' \subseteq Req
  BY DEF UpdateStateAfterAlloc, Without, EngineTypeOK, SchedulerTypeOK
<1>9. /\ DOMAIN traces' \subseteq Req
      /\ \A r \in DOMAIN traces' : traces'[r] \in [id : LoadId, reports : SUBSET Rank]
  BY DEF UpdateStateAfterAlloc, With, Decides, EngineTypeOK, SchedulerTypeOK
<1>10. nextLoadId' \in LoadId
  BY DEF UpdateStateAfterAlloc, Decides, EngineTypeOK, SchedulerTypeOK
<1>11. remotePrefill' \subseteq Req /\ transferring' \subseteq Req
  BY DEF UpdateStateAfterAlloc, PrefillAfter, Keep, EngineTypeOK, SchedulerTypeOK
<1>12. UNCHANGED <<kind, saving, finishedWaits, delayed, metadata>>
  BY DEF UpdateStateAfterAlloc
<1> QED BY <1>4, <1>5, <1>6, <1>7, <1>8, <1>9, <1>10, <1>11, <1>12
        DEF SchedulerTypeOK, EngineTypeOK

\* A request that gets blocks gets a new table and a new load id at most.
LEMMA AllocateRequests ==
  ASSUME EngineInv, NEW q \in Req, NEW after \in Tokens, Allocate(q, after)
  PROVE  /\ EngineTypeOK' /\ Shapes' /\ IdsBounded' /\ StepShape'
         /\ \A r \in Req : RequestInv(r)'
<1> USE EngineAssumption
<1> DEFINE t == <<q, table[q] + 1>>
<1>1. /\ EngineTypeOK /\ Shapes /\ IdsBounded /\ StepShape /\ RequestInv(q)
      /\ UpdateStateAfterAlloc(q, t)
  BY DEF EngineInv, Allocate
<1>2. /\ phase = "schedule" /\ q \in matched \ admitted /\ status[q] = "waiting"
      /\ table[q] \in Nat /\ table[q] < MaxTables
  BY <1>1 DEF RequestInv, InStep, Allocate, EngineTypeOK
<1>3. t \in Table
  BY <1>2 DEF Table
<1>4. /\ q \in DOMAIN loadDecision => loadDecision[q].from \in Tokens /\ loadDecision[q].to \in Tokens
      /\ q \in DOMAIN xferDecision => /\ xferDecision[q].L \in Tokens
                                      /\ xferDecision[q].H \in Tokens
                                      /\ xferDecision[q].T \in Tokens
  BY <1>1, <1>2 DEF RequestInv, Decided, EngineTypeOK
<1>5. /\ nextLoadId + 1 \in LoadId /\ IdsBounded'
  <2>1. table' = [table EXCEPT ![q] = @ + 1]
    BY DEF Allocate
  <2>2. TablesUsed' = TablesUsed \cup {t} /\ t \notin TablesUsed
    BY <1>1, <1>2, <2>1 DEF TablesUsed, EngineTypeOK
  <2>3. Cardinality(TablesUsed') = Cardinality(TablesUsed) + 1
    BY <1>1, <2>2, IdsEnough, FS_AddElement
  <2>4. nextLoadId' <= nextLoadId + 1 /\ nextLoadId' \in Nat
    BY <1>1, IdsEnough DEF UpdateStateAfterAlloc
  <2>5. IdsBounded'
    BY <1>1, <2>3, <2>4, IdsEnough DEF IdsBounded
  <2>6. Cardinality(TablesUsed') <= MaxTables * Cardinality(Req)
    <3> DEFINE All == Req \X (1 .. MaxTables)
    <3>1. IsFiniteSet(1 .. MaxTables) /\ Cardinality(1 .. MaxTables) = MaxTables
      BY FS_Interval
    <3>2. IsFiniteSet(All) /\ Cardinality(All) = Cardinality(Req) * Cardinality(1 .. MaxTables)
      BY <3>1, FS_Product
    <3>3. Cardinality(All) = MaxTables * Cardinality(Req)
      BY <3>1, <3>2, FS_CardinalityType
    <3>4. TablesUsed' \subseteq All
      BY DEF TablesUsed
    <3> QED BY <3>2, <3>3, <3>4, FS_Subset
  <2>7. nextLoadId + 1 <= Cardinality(TablesUsed')
    BY <1>1, <2>3, IdsEnough DEF IdsBounded
  <2>8. nextLoadId + 1 \in LoadId
    <3>1. Cardinality(Req) \in Nat
      BY FS_CardinalityType
    <3>2. MaxTables * Cardinality(Req) \in Nat
      BY <3>1
    <3>3. Cardinality(TablesUsed') \in Nat /\ nextLoadId \in Nat
      BY <1>1, <2>3, IdsEnough
    <3> QED BY <2>6, <2>7, <3>2, <3>3 DEF LoadId
  <2> QED BY <2>5, <2>8
<1>6. /\ SchedulerTypeOK'
      /\ batch' \in [loads : SUBSET LoadRequest, saves : SUBSET SaveRequest,
                     plans : SUBSET TransferPlan, states : SUBSET SourceState]
  BY <1>1, <1>3, <1>4, <1>5, AllocTypes
<1>7. EngineTypeOK'
  <2>1. WorkerTypeOK'
    BY <1>1, WorkerSame DEF Allocate, EngineTypeOK
  <2>2. table' \in [Req -> 0 .. MaxTables]
    BY <1>1, <1>2 DEF Allocate, EngineTypeOK
  <2>3. /\ DOMAIN scheduled' \subseteq Req /\ \A r \in DOMAIN scheduled' : scheduled'[r] \in Tokens
        /\ status' \in [Req -> {"waiting", "remote", "loaded", "running", "finished", "aborted", "gone"}]
    BY <1>1 DEF Allocate, With, EngineTypeOK
  <2> QED BY <1>1, <1>6, <2>1, <2>2, <2>3 DEF Allocate, EngineTypeOK
<1>8. Shapes'
  BY <1>1, <1>6 DEF Allocate, UpdateStateAfterAlloc, workerVars, backends, Shapes
<1>9. StepShape'
  <2>1. \A p \in batch'.plans : p.req \in admitted'
    BY <1>1, AllocBatch DEF StepShape, Allocate, Keep, NewPlan
  <2>2. batch'.saves = {}
    BY <1>1, AllocBatch DEF StepShape
  <2> QED BY <1>1, <1>2, <2>1, <2>2 DEF StepShape, Allocate, UpdateStateAfterAlloc, workerVars
<1>10. ASSUME NEW r \in Req PROVE RequestInv(r)'
  <2>1. RequestInv(r)
    BY DEF EngineInv
  <2>2. CASE r # q
    <3>1. /\ status'[r] = status[r] /\ table'[r] = table[r]
          /\ r \in admitted' <=> r \in admitted
          /\ r \in DOMAIN scheduled' <=> r \in DOMAIN scheduled
      BY <1>1, <2>2 DEF Allocate, With, EngineTypeOK
    <3>2. /\ r \in DOMAIN loadDecision' <=> r \in DOMAIN loadDecision
          /\ r \in DOMAIN loadDecision => loadDecision'[r] = loadDecision[r]
          /\ r \in DOMAIN xferDecision' <=> r \in DOMAIN xferDecision
          /\ r \in DOMAIN xferDecision => xferDecision'[r] = xferDecision[r]
          /\ r \in DOMAIN tracked' <=> r \in DOMAIN tracked
          /\ r \in DOMAIN traces' <=> r \in DOMAIN traces
          /\ r \in transferring' <=> r \in transferring
          /\ r \in remotePrefill' <=> r \in remotePrefill
      BY <1>1, <2>2 DEF UpdateStateAfterAlloc, PrefillAfter, Without, With, Over, Keep
    <3>3. InStep(r)'
      BY <1>1, <2>1, <3>1 DEF Allocate, UpdateStateAfterAlloc, RequestInv, InStep
    <3>4. Decided(r)'
      BY <1>1, <2>1, <3>1, <3>2 DEF Allocate, UpdateStateAfterAlloc, RequestInv, Decided
    <3>5. Remembers(r)'
      BY <1>1, <2>1, <3>1, <3>2 DEF Allocate, UpdateStateAfterAlloc, RequestInv, Remembers
    <3> QED BY <3>3, <3>4, <3>5 DEF RequestInv
  <2>3. CASE r = q
    <3>1. /\ status'[q] \in {"remote", "running"} /\ q \in admitted'
          /\ q \in DOMAIN scheduled' => q \in DOMAIN scheduled \/ status'[q] = "running"
      BY <1>1 DEF Allocate, With, EngineTypeOK
    <3>2. q \notin DOMAIN loadDecision' \cup DOMAIN xferDecision'
      BY <1>1 DEF UpdateStateAfterAlloc, Without
    <3>3. /\ q \notin DOMAIN scheduled /\ q \notin stopping /\ q \notin ended /\ q \notin saving
          /\ q \notin delayed /\ q \notin preempting
      BY <1>1, <1>2 DEF RequestInv, InStep, Remembers
    <3>4. InStep(q)'
      BY <1>1, <1>2, <3>1, <3>3 DEF Allocate, InStep
    <3>5. Decided(q)'
      BY <3>1, <3>2 DEF Decided
    <3>6. Remembers(q)'
      BY <1>1, <3>1, <3>3 DEF Allocate, UpdateStateAfterAlloc, Remembers
    <3> QED BY <2>3, <3>4, <3>5, <3>6 DEF RequestInv
  <2> QED BY <2>2, <2>3
<1> QED BY <1>5, <1>7, <1>8, <1>9, <1>10

\* An idle request begins to load on every rank, or runs at once.
LEMMA AllocateRanks ==
  ASSUME EngineInv, NEW q \in Req, NEW after \in Tokens, Allocate(q, after),
         EngineTypeOK', NEW w \in Rank, NEW r \in Req
  PROVE  LoadInv(w, r)' /\ HoldInv(w, r)'
<1> USE EngineAssumption
<1>t. PICK t : t = <<q, table[q] + 1>>
  OBVIOUS
<1>1. /\ LoadInv(w, r) /\ HoldInv(w, r) /\ EngineTypeOK /\ Shapes /\ RequestInv(q)
      /\ UpdateStateAfterAlloc(q, t)
  BY <1>t DEF EngineInv, Allocate
<1>2. /\ UNCHANGED <<metadata, finishedWaits, phase, ran, receivedBy, sentBy, local, computed,
                     getOp, putOp, pull, source, onLoad, onSave, onXfer, waits, valid, output,
                     saving, preempting, fenced>>
  BY <1>1 DEF Allocate, UpdateStateAfterAlloc, workerVars, backends
<1>a. Shapes /\ UpdateStateAfterAlloc(q, t) /\ UNCHANGED <<phase, ran>>
  BY <1>1, <1>2
<1>3. Unfenced(w, r)' <=> Unfenced(w, r)
  BY <1>2 DEF Unfenced
<1>4. /\ phase = "schedule" /\ q \in matched \ admitted /\ status[q] = "waiting"
      /\ q \notin preempting
  BY <1>1 DEF RequestInv, InStep, Allocate
<1>5. CASE r # q
  <2>1. status'[r] = status[r] /\ table'[r] = table[r]
    BY <1>1, <1>5 DEF Allocate, EngineTypeOK
  <2>2. computed[r] \in Tokens /\ computed[r] <= computed[r]
    BY <1>1 DEF EngineTypeOK, Tokens
  <2>3. /\ LoadsOf(w, r)' = LoadsOf(w, r) /\ PlansOf(w, r)' = PlansOf(w, r)
        /\ SavesOf(w, r)' = SavesOf(w, r) /\ ReadyOf(w, r)' = ReadyOf(w, r)
        /\ WaitsOf(w, r)' = WaitsOf(w, r)
    BY <1>a, <1>5, AllocOthers, AllocRest
  <2>4. KeepsLoad(w, r) /\ KeepsCover(w, r)
    BY <1>2, <2>1, <2>2, <2>3 DEF KeepsLoad, KeepsCover, Remote, SameAt, Reported
  <2>5. KeepsHold(w, r)
    BY <1>1, <1>2, <1>3, <2>1, <2>3 DEF KeepsHold, HoldInv, SavesHeld, SameAt, SentBy
  <2>6. Covers(w, r)'
    BY <1>1, <2>4, FrameCovers DEF LoadInv
  <2> QED BY <1>1, <2>4, <2>5, <2>6, FrameLoad, FrameHold
<1>6. CASE r = q
  <2>1. ~Unfenced(w, q)
    BY <1>4 DEF Unfenced
  <2>2. /\ LoadsOf(w, q) = {} /\ PlansOf(w, q) = {} /\ SavesOf(w, q) = {}
        /\ ReadyOf(w, q) = {} /\ WaitsOf(w, q) = {}
        /\ q \notin DOMAIN getOp[w] /\ q \notin DOMAIN onXfer[w] /\ q \notin DOMAIN pull[w]
        /\ q \notin DOMAIN putOp[w] /\ q \notin onSave[w] /\ q \notin DOMAIN waits[w]
        /\ ~(q \in DOMAIN source[w] /\ source[w][q].state = "published")
        /\ ~Reported(w, q) /\ ~SentBy(w, q)
    BY <1>4, <2>1, WaitingIdle
  <2>3. /\ LoadsOf(w, q)' = Keep({NewLoad(q, t)}, q \in DOMAIN loadDecision)
        /\ PlansOf(w, q)' = Keep({NewPlan(q, t)}, q \in DOMAIN xferDecision)
        /\ SavesOf(w, q)' = {} /\ ReadyOf(w, q)' = {} /\ WaitsOf(w, q)' = {}
    <3>1. /\ LoadsOf(w, q)' = LoadsOf(w, q) \cup Keep({NewLoad(q, t)}, q \in DOMAIN loadDecision)
          /\ PlansOf(w, q)' = PlansOf(w, q) \cup Keep({NewPlan(q, t)}, q \in DOMAIN xferDecision)
      BY <1>a, AllocDues
    <3>2. /\ SavesOf(w, q)' = SavesOf(w, q) /\ ReadyOf(w, q)' = ReadyOf(w, q)
          /\ WaitsOf(w, q)' = WaitsOf(w, q)
      BY <1>a, AllocRest
    <3> QED BY <2>2, <3>1, <3>2
  <2>4. /\ table'[q] = table[q] + 1 /\ TableOf(q)' = t
        /\ status'[q] = IF computed[q] > local[q] THEN "remote" ELSE "running"
    BY <1>1, <1>t DEF Allocate, EngineTypeOK, TableOf
  <2>5. /\ ~Reported(w, q)' /\ ~SentBy(w, q)'
    BY <1>2, <2>2 DEF Reported, SentBy
  <2>6. HoldInv(w, q)'
    <3>1. Books(w, q)' /\ SavesHeld(w, q)' /\ OneRelease(w, q)' /\ Sources(w, q)'
      BY <1>1, <1>2, <1>6, <2>2, <2>3, <2>4, <2>5
         DEF Books, SavesHeld, OneRelease, Sources, HoldInv
    <3>2. Quiet(w, q)'
      BY <1>2, <1>4, <2>4 DEF Quiet
    <3> QED BY <3>1, <3>2 DEF HoldInv
  <2>7. /\ local[q] \in Nat /\ computed[q] \in Nat
        /\ q \in DOMAIN loadDecision => /\ loadDecision[q].from = local[q]
                                        /\ loadDecision[q].to \in Nat
                                        /\ loadDecision[q].to > local[q]
        /\ IF q \in DOMAIN xferDecision
           THEN /\ xferDecision[q].L = local[q] /\ xferDecision[q].T = computed[q]
                /\ xferDecision[q].H \in Nat /\ xferDecision[q].H <= computed[q]
                /\ local[q] <= computed[q]
                /\ q \in DOMAIN loadDecision <=> xferDecision[q].H > local[q]
                /\ q \in DOMAIN loadDecision => loadDecision[q].to = xferDecision[q].H
           ELSE IF q \in DOMAIN loadDecision THEN computed[q] = loadDecision[q].to
           ELSE computed[q] = local[q]
    BY <1>1, <1>4 DEF RequestInv, Decided, EngineTypeOK, Tokens
  <2>8. Remote(q)' <=> computed[q] > local[q]
    BY <2>4 DEF Remote
  <2>9. LoadsNew(w, q)'
    BY <1>2, <2>2, <2>3, <2>4, <2>7, <2>8 DEF LoadsNew, Keep, NewLoad
  <2>10. PlansNew(w, q)'
    <3>1. CASE q \notin DOMAIN xferDecision
      BY <2>3, <3>1 DEF PlansNew, Keep
    <3>2. CASE q \in DOMAIN xferDecision
      <4> DEFINE p == NewPlan(q, t)
      <4>1. PlansOf(w, q)' = {p}
        BY <2>3, <3>2 DEF Keep
      <4>2. /\ p.table = t /\ p.L = local[q] /\ p.T = computed[q] /\ p.H = xferDecision[q].H
        BY <2>7, <3>2 DEF NewPlan
      <4>3. LoadsOf(w, q)' # {} <=> q \in DOMAIN loadDecision
        BY <2>3 DEF Keep
      <4>4. \A x \in LoadsOf(w, q)' : q \in DOMAIN loadDecision /\ x.to = loadDecision[q].to
        BY <2>3 DEF Keep, NewLoad
      <4> HIDE DEF p
      <4> QED BY <1>2, <2>2, <2>4, <2>7, <2>8, <3>2, <4>1, <4>2, <4>3, <4>4 DEF PlansNew, Awaited
    <3> QED BY <3>1, <3>2
  <2>11. Gets(w, q)' /\ Transfers(w, q)' /\ Pulls(w, q)'
    BY <1>2, <2>2 DEF Gets, Transfers, Pulls
  <2>12. OneReport(w, q)'
    <3>1. Remote(q)' => Loading(w, q)'
      <4> SUFFICES ASSUME Remote(q)' PROVE Loading(w, q)'
        OBVIOUS
      <4>1. CASE q \in DOMAIN xferDecision
        <5>1. NewPlan(q, t) \in PlansOf(w, q)' /\ Awaited(NewPlan(q, t))
          BY <2>3, <2>7, <2>8, <4>1 DEF Keep, Awaited, NewPlan
        <5> QED BY <5>1 DEF Loading, Awaited
      <4>2. CASE q \notin DOMAIN xferDecision
        <5>1. LoadsOf(w, q)' # {}
          BY <2>3, <2>7, <2>8, <4>2 DEF Keep
        <5> QED BY <5>1 DEF Loading
      <4> QED BY <4>1, <4>2
    <3>2. ~(w \in receivedBy'[q] /\ <<w, q>> \in output'.received)
      BY <2>5 DEF Reported
    <3> QED BY <2>5, <3>1, <3>2 DEF OneReport
  <2>13. Covers(w, q)'
    BY <2>4, <2>5 DEF Covers
  <2> QED BY <1>6, <2>6, <2>9, <2>10, <2>11, <2>12, <2>13 DEF LoadInv
<1> QED BY <1>5, <1>6

\* A loaded request runs; it had nothing decided.
LEMMA ResumeRequests ==
  ASSUME EngineInv, NEW q \in Req, NEW after \in Tokens, Resume(q, after)
  PROVE  /\ EngineTypeOK' /\ Shapes' /\ IdsBounded' /\ StepShape'
         /\ \A r \in Req : RequestInv(r)'
         /\ ~Decides(q)
<1> USE EngineAssumption
<1>1. /\ EngineTypeOK /\ Shapes /\ IdsBounded /\ StepShape /\ RequestInv(q)
      /\ UpdateStateAfterAlloc(q, TableOf(q)) /\ status[q] = "loaded" /\ phase = "schedule"
  BY DEF EngineInv, Resume
<1>2. ~Decides(q)
  BY <1>1 DEF RequestInv, Decided, InStep, Decides
<1>3. TableOf(q) \in Table
  BY <1>1 DEF Table, TableOf, EngineTypeOK
<1>4. nextLoadId' = nextLoadId
  BY <1>1, <1>2 DEF UpdateStateAfterAlloc, Decides
<1>5. /\ SchedulerTypeOK'
      /\ batch' \in [loads : SUBSET LoadRequest, saves : SUBSET SaveRequest,
                     plans : SUBSET TransferPlan, states : SUBSET SourceState]
  <2>1. q \notin DOMAIN loadDecision /\ q \notin DOMAIN xferDecision
    BY <1>2 DEF Decides
  <2> QED BY <1>1, <1>2, <1>3, <2>1, AllocTypes
<1>6. EngineTypeOK'
  <2>1. WorkerTypeOK'
    BY <1>1, WorkerSame DEF Resume, EngineTypeOK
  <2>2. /\ DOMAIN scheduled' \subseteq Req /\ \A r \in DOMAIN scheduled' : scheduled'[r] \in Tokens
        /\ status' \in [Req -> {"waiting", "remote", "loaded", "running", "finished", "aborted", "gone"}]
    BY <1>1 DEF Resume, With, EngineTypeOK
  <2> QED BY <1>1, <1>5, <2>1, <2>2 DEF Resume, EngineTypeOK
<1>7. Shapes'
  BY <1>1, <1>5 DEF Resume, UpdateStateAfterAlloc, workerVars, backends, Shapes
<1>8. IdsBounded'
  BY <1>1, <1>4 DEF Resume, IdsBounded, TablesUsed
<1>9. StepShape'
  <2>1. \A p \in batch'.plans : p.req \in admitted'
    BY <1>1, AllocBatch DEF StepShape, Resume, Keep, NewPlan
  <2>2. batch'.saves = {}
    BY <1>1, AllocBatch DEF StepShape
  <2> QED BY <1>1, <2>1, <2>2 DEF StepShape, Resume, UpdateStateAfterAlloc, workerVars
<1>10. ASSUME NEW r \in Req PROVE RequestInv(r)'
  <2>1. RequestInv(r)
    BY DEF EngineInv
  <2>2. /\ status'[q] = "running" /\ q \in admitted'
        /\ r # q => status'[r] = status[r]
        /\ r # q => (r \in admitted' <=> r \in admitted)
        /\ r # q => (r \in DOMAIN scheduled' <=> r \in DOMAIN scheduled)
    BY <1>1 DEF Resume, With, EngineTypeOK
  <2>3. /\ r \in DOMAIN loadDecision' <=> r \in DOMAIN loadDecision
        /\ r \in DOMAIN loadDecision => loadDecision'[r] = loadDecision[r]
        /\ r \in DOMAIN xferDecision' <=> r \in DOMAIN xferDecision
        /\ r \in DOMAIN xferDecision => xferDecision'[r] = xferDecision[r]
        /\ r \in remotePrefill' <=> r \in remotePrefill
    BY <1>1, <1>2 DEF UpdateStateAfterAlloc, PrefillAfter, Without, Keep, Decides
  <2>4. r # q => /\ r \in DOMAIN tracked' <=> r \in DOMAIN tracked
                 /\ r \in DOMAIN traces' <=> r \in DOMAIN traces
                 /\ r \in transferring' <=> r \in transferring
    BY <1>1 DEF UpdateStateAfterAlloc, With, Over, Keep
  <2>5. InStep(r)'
    <3>1. /\ UNCHANGED <<table, phase, matched, preempting, ended, stopping, metadata>>
          /\ preempting = {}
      BY <1>1 DEF Resume, UpdateStateAfterAlloc
    <3>2. CASE r # q
      BY <2>1, <2>2, <3>1, <3>2 DEF RequestInv, InStep
    <3>3. CASE r = q
      BY <1>1, <2>2, <3>1, <3>3 DEF RequestInv, InStep
    <3> QED BY <3>2, <3>3
  <2>6. Decided(r)'
    BY <1>1, <1>2, <2>1, <2>2, <2>3
       DEF Resume, UpdateStateAfterAlloc, RequestInv, Decided, InStep, Decides
  <2>7. Remembers(r)'
    BY <1>1, <2>1, <2>2, <2>4 DEF Resume, UpdateStateAfterAlloc, RequestInv, Remembers, InStep
  <2> QED BY <2>5, <2>6, <2>7 DEF RequestInv
<1> QED BY <1>2, <1>6, <1>7, <1>8, <1>9, <1>10

\* Nothing becomes due for a loaded request.
LEMMA ResumeRanks ==
  ASSUME EngineInv, NEW q \in Req, NEW after \in Tokens, Resume(q, after),
         EngineTypeOK', NEW w \in Rank, NEW r \in Req
  PROVE  LoadInv(w, r)' /\ HoldInv(w, r)'
<1> USE EngineAssumption
<1>1. PICK t : t = TableOf(q)
  OBVIOUS
<1>2. LoadInv(w, r) /\ HoldInv(w, r) /\ EngineTypeOK /\ Shapes
  BY DEF EngineInv
<1>3. UpdateStateAfterAlloc(q, t) /\ UNCHANGED <<phase, ran>>
  BY <1>1 DEF Resume
<1>4. /\ UNCHANGED <<metadata, finishedWaits, phase, ran, receivedBy, sentBy, table, local, computed,
                     getOp, putOp, pull, source, onLoad, onSave, onXfer, waits, valid, output,
                     saving, preempting, fenced>>
  BY <1>3 DEF Resume, UpdateStateAfterAlloc, workerVars, backends
<1>5. Unfenced(w, r)' <=> Unfenced(w, r)
  BY <1>4 DEF Unfenced
<1>6. /\ status[q] = "loaded" /\ status'[q] = "running"
      /\ r # q => status'[r] = status[r]
  BY <1>2 DEF Resume, EngineTypeOK
<1>7. /\ LoadsOf(w, r)' = LoadsOf(w, r) /\ PlansOf(w, r)' = PlansOf(w, r)
  <2>1. CASE r # q
    BY <1>2, <1>3, <2>1, AllocOthers
  <2>2. CASE r = q
    <3>1. q \notin DOMAIN loadDecision /\ q \notin DOMAIN xferDecision
      BY ResumeRequests DEF Decides
    <3>2. /\ LoadsOf(w, q)' = LoadsOf(w, q) \cup Keep({NewLoad(q, t)}, q \in DOMAIN loadDecision)
          /\ PlansOf(w, q)' = PlansOf(w, q) \cup Keep({NewPlan(q, t)}, q \in DOMAIN xferDecision)
      BY <1>2, <1>3, AllocDues
    <3> QED BY <2>2, <3>1, <3>2 DEF Keep
  <2> QED BY <2>1, <2>2
<1>8. /\ SavesOf(w, r)' = SavesOf(w, r) /\ ReadyOf(w, r)' = ReadyOf(w, r)
      /\ WaitsOf(w, r)' = WaitsOf(w, r)
  BY <1>2, <1>3, AllocRest
<1>9. computed[r] \in Tokens /\ computed[r] <= computed[r]
  BY <1>2 DEF EngineTypeOK, Tokens
<1>10. KeepsLoad(w, r) /\ KeepsCover(w, r)
  BY <1>4, <1>6, <1>7, <1>9 DEF KeepsLoad, KeepsCover, Remote, SameAt, Reported
<1>11. KeepsHold(w, r)
  BY <1>2, <1>4, <1>5, <1>6, <1>7, <1>8 DEF KeepsHold, HoldInv, SavesHeld, SameAt, SentBy
<1>12. Covers(w, r)'
  BY <1>2, <1>10, FrameCovers DEF LoadInv
<1> QED BY <1>2, <1>10, <1>11, <1>12, FrameLoad, FrameHold

\* A running request is scheduled.
LEMMA ContinueRequests ==
  ASSUME EngineInv, NEW q \in Req, NEW after \in Tokens, Continue(q, after)
  PROVE  /\ EngineTypeOK' /\ Shapes' /\ IdsBounded' /\ StepShape'
         /\ \A r \in Req : RequestInv(r)'
<1> USE EngineAssumption
<1>1. EngineTypeOK /\ Shapes /\ IdsBounded /\ StepShape
  BY DEF EngineInv
<1>2. EngineTypeOK'
  <2>1. WorkerTypeOK' /\ SchedulerTypeOK'
    BY <1>1, WorkerSame, SchedulerSame DEF Continue, EngineTypeOK
  <2>2. DOMAIN scheduled' \subseteq Req /\ \A r \in DOMAIN scheduled' : scheduled'[r] \in Tokens
    BY <1>1 DEF Continue, With, EngineTypeOK
  <2> QED BY <1>1, <2>1, <2>2 DEF Continue, vllmVars, EngineTypeOK
<1>3. Shapes'
  BY <1>1 DEF Continue, schedVars, workerVars, backends, Shapes
<1>4. IdsBounded'
  BY <1>1 DEF Continue, schedVars, vllmVars, IdsBounded, TablesUsed
<1>5. StepShape'
  BY <1>1 DEF StepShape, Continue, schedVars, workerVars
<1>6. ASSUME NEW r \in Req PROVE RequestInv(r)'
  <2>1. RequestInv(r)
    BY DEF EngineInv
  <2>2. r \in DOMAIN scheduled' <=> r \in DOMAIN scheduled \/ r = q
    BY DEF Continue, With
  <2>3. InStep(r)'
    BY <2>1, <2>2 DEF Continue, schedVars, vllmVars, RequestInv, InStep
  <2>4. Decided(r)'
    BY <2>1 DEF Continue, schedVars, decideVars, vllmVars, RequestInv, Decided
  <2>5. Remembers(r)'
    BY <2>1 DEF Continue, schedVars, trackVars, vllmVars, RequestInv, Remembers
  <2> QED BY <2>3, <2>4, <2>5 DEF RequestInv
<1> QED BY <1>2, <1>3, <1>4, <1>5, <1>6

\* Steps that change nothing of the requests on the ranks but their status.
LEMMA StatusOnly ==
  ASSUME EngineInv, NEW w \in Rank, NEW r \in Req,
         UNCHANGED <<batch, metadata, finishedWaits, phase, ran, table, local, computed, receivedBy,
                     sentBy, getOp, putOp, pull, source, onLoad, onSave, onXfer, waits, valid,
                     output, saving>>,
         Unfenced(w, r) => Unfenced(w, r)',
         \/ status'[r] = status[r] /\ (Unfenced(w, r)' <=> Unfenced(w, r))
         \/ status[r] = "running" /\ status'[r] = "waiting" /\ Unfenced(w, r)' /\ phase # "execute"
  PROVE  LoadInv(w, r)' /\ HoldInv(w, r)'
<1>1. LoadInv(w, r) /\ HoldInv(w, r) /\ EngineTypeOK /\ Shapes
  BY DEF EngineInv
<1>2. computed[r] \in Tokens /\ computed[r] <= computed[r]
  BY <1>1, EngineAssumption DEF EngineTypeOK, Tokens
<1>3. KeepsLoad(w, r) /\ KeepsCover(w, r)
  BY <1>2, DuesSame DEF KeepsLoad, KeepsCover, Remote, SameAt, Reported
<1>4. phase # "execute" => SavesOf(w, r) = {}
  BY DEF SavesOf, Due, Keep
<1>5. KeepsHold(w, r)
  BY <1>1, <1>4, DuesSame DEF KeepsHold, HoldInv, SavesHeld, SameAt, SentBy
<1>6. Covers(w, r)'
  BY <1>1, <1>3, FrameCovers DEF LoadInv
<1> QED BY <1>1, <1>3, <1>5, <1>6, FrameLoad, FrameHold

\* The ranks do not see it before the metadata is built.
LEMMA ContinueRanks ==
  ASSUME EngineInv, NEW q \in Req, NEW after \in Tokens, Continue(q, after),
         NEW w \in Rank, NEW r \in Req
  PROVE  LoadInv(w, r)' /\ HoldInv(w, r)'
<1>1. UNCHANGED <<batch, metadata, finishedWaits, phase, ran, table, local, computed, receivedBy,
                  sentBy, getOp, putOp, pull, source, onLoad, onSave, onXfer, waits, valid,
                  output, saving, status, preempting, fenced>>
  BY DEF Continue, schedVars, trackVars, workerVars, backends, vllmVars
<1>2. Unfenced(w, r)' <=> Unfenced(w, r)
  BY <1>1 DEF Unfenced
<1> QED BY <1>1, <1>2, StatusOnly

\* A preempted request waits again.
LEMMA PreemptRequests ==
  ASSUME EngineInv, NEW q \in Req, Preempt(q)
  PROVE  /\ EngineTypeOK' /\ Shapes' /\ IdsBounded' /\ StepShape'
         /\ \A r \in Req : RequestInv(r)'
<1> USE EngineAssumption
<1>1. EngineTypeOK /\ Shapes /\ IdsBounded /\ StepShape
  BY DEF EngineInv
<1>2. EngineTypeOK'
  <2>1. WorkerTypeOK' /\ SchedulerTypeOK'
    BY <1>1, WorkerSame, SchedulerSame DEF Preempt, EngineTypeOK
  <2>2. /\ DOMAIN scheduled' \subseteq Req /\ \A r \in DOMAIN scheduled' : scheduled'[r] \in Tokens
        /\ status' \in [Req -> {"waiting", "remote", "loaded", "running", "finished", "aborted", "gone"}]
    BY <1>1 DEF Preempt, Without, EngineTypeOK
  <2> QED BY <1>1, <2>1, <2>2 DEF Preempt, EngineTypeOK
<1>3. Shapes'
  BY <1>1 DEF Preempt, schedVars, workerVars, backends, Shapes
<1>4. IdsBounded'
  BY <1>1 DEF Preempt, schedVars, IdsBounded, TablesUsed
<1>5. StepShape'
  BY <1>1 DEF StepShape, Preempt, schedVars, workerVars
<1>6. ASSUME NEW r \in Req PROVE RequestInv(r)'
  <2>1. RequestInv(r)
    BY DEF EngineInv
  <2>2. /\ r # q => status'[r] = status[r]
        /\ status'[q] = "waiting"
        /\ r \in DOMAIN scheduled' <=> r \in DOMAIN scheduled /\ r # q
    BY <1>1 DEF Preempt, Without, EngineTypeOK
  <2>3. InStep(r)'
    BY <1>1, <2>1, <2>2 DEF Preempt, schedVars, RequestInv, InStep, StepShape
  <2>4. Decided(r)'
    BY <2>1, <2>2 DEF Preempt, schedVars, decideVars, RequestInv, Decided
  <2>5. Remembers(r)'
    BY <2>1, <2>2 DEF Preempt, schedVars, trackVars, RequestInv, Remembers
  <2> QED BY <2>3, <2>4, <2>5 DEF RequestInv
<1> QED BY <1>2, <1>3, <1>4, <1>5, <1>6

\* What its ranks still do is unfenced until handle_preemptions.
LEMMA PreemptRanks ==
  ASSUME EngineInv, NEW q \in Req, Preempt(q), NEW w \in Rank, NEW r \in Req
  PROVE  LoadInv(w, r)' /\ HoldInv(w, r)'
<1>1. UNCHANGED <<batch, metadata, finishedWaits, phase, ran, table, local, computed, receivedBy,
                  sentBy, getOp, putOp, pull, source, onLoad, onSave, onXfer, waits, valid,
                  output, saving, fenced>>
  BY DEF Preempt, schedVars, trackVars, workerVars, backends
<1>2. r # q => (Unfenced(w, r)' <=> Unfenced(w, r)) /\ status'[r] = status[r]
  BY <1>1 DEF Unfenced, Preempt, EngineInv, EngineTypeOK
<1>3. Unfenced(w, q)' /\ status[q] = "running" /\ status'[q] = "waiting" /\ phase # "execute"
  BY DEF Unfenced, Preempt, EngineInv, EngineTypeOK
<1>4. CASE r # q
  BY <1>1, <1>2, <1>4, StatusOnly
<1>5. CASE r = q
  BY <1>1, <1>3, <1>5, StatusOnly
<1> QED BY <1>4, <1>5

-----------------------------------------------------------------------------
\* The end of a request.

Release(q, capped, held) == [save |-> SaveDelay(q, held), xfer |-> XferDelay(q, capped, held)]
Source(q, t, capped, held) ==
  [req |-> q, table |-> t, state |-> IF XferDelay(q, capped, held) THEN "ready" ELSE "cancelled"]

\* request_finished adds one source state for P.
LEMMA FinishBatch ==
  ASSUME Shapes, NEW q \in Req, NEW t, NEW capped \in BOOLEAN, NEW held \in BOOLEAN,
         RequestFinished(q, t, capped, held)
  PROVE  batch' = [loads |-> batch.loads, saves |-> batch.saves, plans |-> batch.plans,
                   states |-> batch.states \cup Keep({Source(q, t, capped, held)}, kind[q] = "P")]
<1>1. batch = [loads |-> batch.loads, saves |-> batch.saves, plans |-> batch.plans,
               states |-> batch.states]
  BY DEF Shapes
<1> QED BY <1>1 DEF RequestFinished, Source, Keep

\* ... and neither loads, saves nor plans.
LEMMA FinishItems ==
  ASSUME Shapes, NEW q \in Req, NEW t, NEW capped \in BOOLEAN, NEW held \in BOOLEAN,
         RequestFinished(q, t, capped, held)
  PROVE  /\ batch'.loads = batch.loads /\ batch'.saves = batch.saves /\ batch'.plans = batch.plans
         /\ batch'.states = batch.states \cup Keep({Source(q, t, capped, held)}, kind[q] = "P")
         /\ UNCHANGED <<kind, remotePrefill, loadDecision, xferDecision, nextLoadId, metadata>>
<1>1. batch' = [loads |-> batch.loads, saves |-> batch.saves, plans |-> batch.plans,
                states |-> batch.states \cup Keep({Source(q, t, capped, held)}, kind[q] = "P")]
  BY FinishBatch
<1> QED BY <1>1 DEF RequestFinished, decideVars

\* Nothing changes for the other requests.
LEMMA FinishOthers ==
  ASSUME Shapes, NEW q \in Req, NEW t, NEW capped \in BOOLEAN, NEW held \in BOOLEAN,
         RequestFinished(q, t, capped, held), UNCHANGED <<phase, ran>>,
         NEW w \in Rank, NEW r \in Req \ {q}
  PROVE  WaitsOf(w, r)' = WaitsOf(w, r) /\ ReadyOf(w, r)' = ReadyOf(w, r)
<1>1. batch'.states = batch.states \cup Keep({Source(q, t, capped, held)}, kind[q] = "P")
  BY DEF Shapes, RequestFinished, Source
<1>2. UNCHANGED metadata
  BY FinishItems
<1>3. Source(q, t, capped, held).req = q
  BY DEF Source
<1>4. ReadyOf(w, r)' = ReadyOf(w, r)
  BY <1>1, <1>2, <1>3 DEF ReadyOf, Due, Keep
<1>5. /\ r \in DOMAIN finishedWaits' <=> r \in DOMAIN finishedWaits
      /\ r \in DOMAIN finishedWaits => finishedWaits'[r] = finishedWaits[r]
  BY DEF RequestFinished, With
<1>6. WaitsOf(w, r)' = WaitsOf(w, r)
  BY <1>2, <1>5 DEF WaitsOf, Due
<1> QED BY <1>4, <1>6

\* The request waits for its saves and its source, if it has to.
LEMMA FinishOne ==
  ASSUME Shapes, NEW q \in Req, NEW t, NEW capped \in BOOLEAN, NEW held \in BOOLEAN,
         RequestFinished(q, t, capped, held), UNCHANGED <<phase, ran>>,
         NEW w \in Rank, WaitsOf(w, q) = {}, ReadyOf(w, q) = {}
  PROVE  /\ WaitsOf(w, q)' = Keep({Release(q, capped, held)}, Delays(q, capped, held))
         /\ ReadyOf(w, q)' = Keep({Source(q, t, capped, held)}, XferDelay(q, capped, held))
<1>1. batch'.states = batch.states \cup Keep({Source(q, t, capped, held)}, kind[q] = "P")
  BY DEF Shapes, RequestFinished, Source
<1>2. UNCHANGED metadata
  BY FinishItems
<1>3. /\ Source(q, t, capped, held).req = q
      /\ Source(q, t, capped, held).state = "ready" <=> XferDelay(q, capped, held)
      /\ XferDelay(q, capped, held) => kind[q] = "P"
  BY DEF Source, XferDelay
<1>4. ReadyOf(w, q)' = Keep({Source(q, t, capped, held)}, XferDelay(q, capped, held))
  BY <1>1, <1>2, <1>3 DEF ReadyOf, Due, Keep
<1>5. q \notin DOMAIN finishedWaits /\ ~(Due(w) /\ q \in DOMAIN metadata.waits)
  BY DEF WaitsOf, Keep
<1>6. CASE Delays(q, capped, held)
  <2>1. finishedWaits' = With(finishedWaits, q, Release(q, capped, held))
    BY <1>6 DEF RequestFinished, Release
  <2>2. q \in DOMAIN finishedWaits' /\ finishedWaits'[q] = Release(q, capped, held)
    BY <2>1 DEF With
  <2>3. ~(Due(w)' /\ q \in DOMAIN metadata'.waits)
    BY <1>2, <1>5 DEF Due
  <2>4. WaitsOf(w, q)' = {Release(q, capped, held)}
    BY <2>2, <2>3 DEF WaitsOf, Keep
  <2> QED BY <1>4, <1>6, <2>4 DEF Keep
<1>7. CASE ~Delays(q, capped, held)
  <2>1. finishedWaits' = finishedWaits
    BY <1>7 DEF RequestFinished
  <2>2. WaitsOf(w, q)' = WaitsOf(w, q)
    BY <1>2, <2>1 DEF WaitsOf, Due
  <2> QED BY <1>4, <1>7, <2>2 DEF Keep
<1> QED BY <1>6, <1>7

\* A request that ends: finished if its blocks are still needed.
Ends(q, capped, held) ==
  /\ RequestFinished(q, TableOf(q), capped, held)
  /\ phase # "execute" /\ preempting = {}
  /\ status[q] \in {"waiting", "remote", "loaded", "running"}
  /\ held \/ status[q] = "waiting"
  /\ status' = [status EXCEPT ![q] = IF status[q] = "remote" THEN "aborted"
                                     ELSE IF Delays(q, capped, held) THEN "finished" ELSE "gone"]
  /\ status[q] = "remote" => ~Delays(q, capped, held)
  /\ ended' = ended \cup {q}
  /\ UNCHANGED <<workerVars, table, local, computed, receivedBy, sentBy, phase, scheduled, matched,
                 admitted, preempting, fenced, ran>>

\* A request that ends is finished, or is gone and forgotten.
LEMMA EndsRequests ==
  ASSUME EngineInv, NEW q \in Req, NEW capped \in BOOLEAN, NEW held \in BOOLEAN,
         Ends(q, capped, held), stopping' = stopping \ {q},
         q \notin DOMAIN scheduled, q \notin matched, q \notin admitted,
         q \in metadata.preempted => phase # "execute"
  PROVE  /\ EngineTypeOK' /\ Shapes' /\ IdsBounded' /\ StepShape'
         /\ \A r \in Req : RequestInv(r)'
<1> USE EngineAssumption
<1>1. /\ EngineTypeOK /\ Shapes /\ IdsBounded /\ StepShape /\ RequestInv(q)
      /\ RequestFinished(q, TableOf(q), capped, held)
  BY DEF EngineInv, Ends
<1>2. TableOf(q) \in Table
  BY <1>1 DEF TableOf, Table, EngineTypeOK
<1>3. batch'.states \subseteq SourceState
  <2>1. Source(q, TableOf(q), capped, held) \in SourceState
    BY <1>2 DEF Source, SourceState
  <2>2. batch'.states = batch.states
                        \cup Keep({Source(q, TableOf(q), capped, held)}, kind[q] = "P")
    BY <1>1 DEF Shapes, RequestFinished, Source
  <2> QED BY <1>1, <2>1, <2>2 DEF Keep, Shapes
<1>4. UNCHANGED <<kind, remotePrefill, loadDecision, xferDecision, nextLoadId, metadata>>
  BY <1>1, FinishItems
<1>6. batch'.loads = batch.loads /\ batch'.saves = batch.saves /\ batch'.plans = batch.plans
  BY <1>1, FinishItems
<1>5. batch' \in [loads : SUBSET LoadRequest, saves : SUBSET SaveRequest,
                  plans : SUBSET TransferPlan, states : SUBSET SourceState]
  <2> DEFINE S == batch.states \cup Keep({Source(q, TableOf(q), capped, held)}, kind[q] = "P")
  <2>1. batch' = [loads |-> batch.loads, saves |-> batch.saves, plans |-> batch.plans, states |-> S]
    BY <1>1 DEF Shapes, RequestFinished, Source
  <2>2. /\ batch.loads \in SUBSET LoadRequest /\ batch.saves \in SUBSET SaveRequest
        /\ batch.plans \in SUBSET TransferPlan
    BY <1>1 DEF Shapes
  <2>3. S \in SUBSET SourceState
    BY <1>3, <2>1
  <2> HIDE DEF S
  <2> QED BY <2>1, <2>2, <2>3
<1>7. /\ DOMAIN tracked' \subseteq DOMAIN tracked
      /\ \A r \in DOMAIN tracked' : tracked'[r] = tracked[r]
      /\ DOMAIN traces' \subseteq DOMAIN traces
      /\ \A r \in DOMAIN traces' : traces'[r] = traces[r]
      /\ saving' \subseteq saving /\ transferring' \subseteq transferring
      /\ delayed' \subseteq delayed \cup {q}
      /\ Delays(q, capped, held) \/ delayed' = delayed
  BY <1>1 DEF RequestFinished, Forget, Without, trackVars
<1>8. /\ DOMAIN finishedWaits' \subseteq DOMAIN finishedWaits \cup {q}
      /\ \A r \in DOMAIN finishedWaits' : finishedWaits'[r] \in Wait
  <2>1. Release(q, capped, held) \in Wait
    BY DEF Release, Wait, SaveDelay, XferDelay
  <2> QED BY <1>1, <2>1 DEF RequestFinished, With, Release, EngineTypeOK, SchedulerTypeOK
<1>9. SchedulerTypeOK'
  BY <1>1, <1>3, <1>4, <1>6, <1>7, <1>8 DEF EngineTypeOK, SchedulerTypeOK
<1>10. EngineTypeOK'
  <2>1. WorkerTypeOK'
    BY <1>1, WorkerSame DEF Ends, EngineTypeOK
  <2>2. status' \in [Req -> {"waiting", "remote", "loaded", "running", "finished", "aborted", "gone"}]
    BY <1>1 DEF Ends, EngineTypeOK
  <2> QED BY <1>1, <1>9, <2>1, <2>2 DEF Ends, EngineTypeOK
<1>11. Shapes'
  BY <1>1, <1>4, <1>5 DEF Ends, workerVars, backends, Shapes
<1>12. IdsBounded'
  BY <1>1, <1>4 DEF Ends, IdsBounded, TablesUsed
<1>13. StepShape'
  BY <1>1, <1>6 DEF StepShape, Ends, workerVars
<1>14. ASSUME NEW r \in Req PROVE RequestInv(r)'
  <2>1. RequestInv(r)
    BY DEF EngineInv
  <2>2. CASE r # q
    <3>1. status'[r] = status[r]
      BY <1>1, <2>2 DEF Ends, EngineTypeOK
    <3>2. r \in saving' <=> r \in saving
      BY <1>1, <2>2 DEF RequestFinished, Forget, trackVars
    <3>3. InStep(r)'
      BY <1>4, <2>1, <2>2, <3>1 DEF Ends, RequestInv, InStep
    <3>4. Decided(r)'
      BY <1>4, <2>1, <2>2, <3>1 DEF Ends, RequestInv, Decided
    <3>5. Remembers(r)'
      BY <1>7, <2>1, <2>2, <3>1, <3>2 DEF Ends, RequestInv, Remembers
    <3> QED BY <3>3, <3>4, <3>5 DEF RequestInv
  <2>3. CASE r = q
    <3>1. status'[q] = IF status[q] = "remote" THEN "aborted"
                       ELSE IF Delays(q, capped, held) THEN "finished" ELSE "gone"
      BY <1>1 DEF Ends, EngineTypeOK
    <3>2. q \notin delayed /\ preempting = {} /\ q \notin preempting'
      BY <1>1 DEF Ends, RequestInv, Remembers
    <3>3. ~Delays(q, capped, held) =>
            q \notin DOMAIN tracked' \cup DOMAIN traces' \cup saving' \cup transferring'
      BY <1>1 DEF RequestFinished, Forget, Without
    <3>4. Delays(q, capped, held) => status'[q] = "finished"
      BY <3>1 DEF Ends
    <3>5. InStep(q)'
      BY <1>4, <3>1, <3>2 DEF Ends, InStep
    <3>6. Decided(q)'
      BY <1>1, <1>4 DEF Ends, RequestInv, Decided
    <3>7. Remembers(q)'
      BY <1>7, <3>1, <3>2, <3>3, <3>4 DEF Remembers
    <3> QED BY <2>3, <3>5, <3>6, <3>7 DEF RequestInv
  <2> QED BY <2>2, <2>3
<1> QED BY <1>10, <1>11, <1>12, <1>13, <1>14

\* A rank that saves or publishes for it has a wait due.
LEMMA EndsRanks ==
  ASSUME EngineInv, NEW q \in Req, NEW capped \in BOOLEAN, NEW held \in BOOLEAN,
         Ends(q, capped, held), EngineTypeOK', NEW w \in Rank, NEW r \in Req
  PROVE  LoadInv(w, r)' /\ HoldInv(w, r)'
<1>1. /\ LoadInv(w, r) /\ HoldInv(w, r) /\ EngineTypeOK /\ Shapes /\ RequestInv(r)
      /\ RequestFinished(q, TableOf(q), capped, held)
  BY DEF EngineInv, Ends
<1>2. UNCHANGED <<metadata, phase, ran, table, local, computed, receivedBy, sentBy, getOp, putOp,
                  pull, source, onLoad, onSave, onXfer, waits, valid, output, preempting, fenced>>
  BY <1>1, FinishItems DEF Ends, workerVars, backends
<1>3. /\ LoadsOf(w, r)' = LoadsOf(w, r) /\ PlansOf(w, r)' = PlansOf(w, r)
      /\ SavesOf(w, r)' = SavesOf(w, r)
  <2>1. batch'.loads = batch.loads /\ batch'.plans = batch.plans
    BY <1>1, FinishItems
  <2> QED BY <1>2, <2>1 DEF LoadsOf, PlansOf, SavesOf, Due
<1>4. /\ r # q => status'[r] = status[r]
      /\ status'[q] = IF status[q] = "remote" THEN "aborted"
                      ELSE IF Delays(q, capped, held) THEN "finished" ELSE "gone"
      /\ status[q] \in {"waiting", "remote", "loaded", "running"}
      /\ status[q] = "remote" => ~Delays(q, capped, held)
      /\ phase # "execute" /\ preempting = {}
  BY <1>1 DEF Ends, EngineTypeOK
<1>5. Unfenced(w, r)' <=> Unfenced(w, r)
  BY <1>2 DEF Unfenced
<1>6. LoadInv(w, r)'
  <2>1. computed[r] \in Tokens /\ computed[r] <= computed[r]
    BY <1>1, EngineAssumption DEF EngineTypeOK, Tokens
  <2>2. /\ Remote(r)' <=> Remote(r)
        /\ status'[r] = "remote" => status[r] = "remote"
        /\ status'[r] = "loaded" => status[r] = "loaded"
    BY <1>4 DEF Remote
  <2>3. KeepsLoad(w, r) /\ KeepsCover(w, r)
    BY <1>2, <1>3, <2>1, <2>2 DEF KeepsLoad, KeepsCover, SameAt, Reported
  <2>4. Covers(w, r)'
    BY <1>1, <2>3, FrameCovers DEF LoadInv
  <2> QED BY <1>1, <2>3, <2>4, FrameLoad
<1>7. CASE r # q
  <2>1. /\ WaitsOf(w, r)' = WaitsOf(w, r) /\ ReadyOf(w, r)' = ReadyOf(w, r)
    BY <1>1, <1>2, <1>7, FinishOthers
  <2>2. r \in saving' <=> r \in saving
    BY <1>1, <1>7 DEF RequestFinished, Forget, trackVars
  <2>3. KeepsHold(w, r)
    BY <1>1, <1>2, <1>3, <1>4, <1>5, <1>7, <2>1, <2>2 DEF KeepsHold, HoldInv, SavesHeld, SameAt, SentBy
  <2> QED BY <1>1, <1>6, <2>3, FrameHold
<1>8. CASE r = q
  <2>1. ~Unfenced(w, q) /\ ~Unfenced(w, q)' /\ SavesOf(w, q) = {}
    BY <1>4, <1>5, <1>8 DEF Unfenced, SavesOf, Due, Keep
  <2>2. /\ WaitsOf(w, q) = {} /\ q \notin DOMAIN waits[w] /\ ~SentBy(w, q)
        /\ ReadyOf(w, q) = {}
        /\ ~(q \in DOMAIN source[w] /\ source[w][q].state = "published")
    BY <1>1, <1>4, <1>8 DEF HoldInv, OneRelease, Sources
  <2>3. q \in onSave[w] => q \in saving /\ held
    <3>1. status[q] = "waiting" => q \notin onSave[w]
      BY <1>1, <1>8, <2>1 DEF HoldInv, Quiet
    <3> QED BY <1>1, <1>8, <2>1, <3>1 DEF HoldInv, SavesHeld, Ends
  <2>4. /\ Delays(q, capped, held) => WaitsOf(w, q)' = {Release(q, capped, held)}
        /\ ~Delays(q, capped, held) => WaitsOf(w, q)' = {}
        /\ XferDelay(q, capped, held) =>
             ReadyOf(w, q)' = {Source(q, TableOf(q), capped, held)}
        /\ ~XferDelay(q, capped, held) => ReadyOf(w, q)' = {}
    <3>1. /\ WaitsOf(w, q)' = Keep({Release(q, capped, held)}, Delays(q, capped, held))
          /\ ReadyOf(w, q)' = Keep({Source(q, TableOf(q), capped, held)},
                                   XferDelay(q, capped, held))
      BY <1>1, <1>2, <2>2, FinishOne
    <3> QED BY <3>1 DEF Keep
  <2>5. TableOf(q)' = TableOf(q)
    BY <1>2 DEF TableOf
  <2>6. Books(w, q)'
    BY <1>1, <1>2, <1>8 DEF HoldInv, Books
  <2>7. SavesHeld(w, q)'
    <3>1. q \in saving /\ held => q \in saving'
      BY <1>1 DEF RequestFinished, Delays, SaveDelay, trackVars
    <3> QED BY <1>1, <1>2, <1>3, <1>8, <2>1, <2>3, <2>5, <3>1 DEF HoldInv, SavesHeld
  <2>8. OneRelease(w, q)'
    <3>1. ~SentBy(w, q)'
      BY <1>2, <2>2 DEF SentBy
    <3>2. q \in onSave[w] => Delays(q, capped, held) /\ Release(q, capped, held).save
      BY <2>3 DEF Delays, SaveDelay, Release
    <3>3. status'[q] = "finished" <=> Delays(q, capped, held)
      BY <1>4
    <3> QED BY <1>2, <2>2, <2>4, <3>1, <3>2, <3>3 DEF OneRelease, SentBy
  <2>9. Sources(w, q)'
    <3>1. XferDelay(q, capped, held) => /\ Delays(q, capped, held)
                                        /\ Release(q, capped, held).xfer
      BY DEF Delays, Release
    <3>2. Source(q, TableOf(q), capped, held).table = TableOf(q)
      BY DEF Source
    <3> QED BY <1>2, <2>2, <2>4, <2>5, <3>1, <3>2 DEF Sources
  <2>10. Quiet(w, q)'
    BY <1>2, <1>4 DEF Quiet
  <2> QED BY <1>6, <1>8, <2>6, <2>7, <2>8, <2>9, <2>10 DEF HoldInv
<1> QED BY <1>7, <1>8

\* An abort keeps the invariant.
LEMMA AbortEnds ==
  ASSUME EngineInv, NEW q \in Req, Abort(q)
  PROVE  EngineInv'
<1> DEFINE held == Held(q)
<1>1. held \in BOOLEAN /\ FALSE \in BOOLEAN
  BY DEF Held
<1>2. Ends(q, FALSE, held)
  <2>1. status[q] = "remote" => q \notin saving
    BY DEF EngineInv, RequestInv, Remembers, Abort
  <2>2. status[q] = "remote" => ~Delays(q, FALSE, held)
    BY <2>1 DEF Delays, SaveDelay, XferDelay
  <2>3. held \/ status[q] = "waiting"
    BY DEF Held, Abort
  <2>4. status \in [Req -> {"waiting", "remote", "loaded", "running", "finished", "aborted", "gone"}]
    BY DEF EngineInv, EngineTypeOK
  <2>5. status' = [status EXCEPT ![q] = IF status[q] = "remote" THEN "aborted"
                                     ELSE IF Delays(q, FALSE, held) THEN "finished" ELSE "gone"]
    BY <2>4 DEF Abort
  <2> HIDE DEF held
  <2> QED BY <2>2, <2>3, <2>5 DEF Abort, Ends, held
<1>3. /\ stopping' = stopping \ {q} /\ q \notin DOMAIN scheduled /\ q \notin matched
      /\ q \notin admitted /\ phase # "execute"
  BY DEF Abort, EngineInv, StepShape
<1> HIDE DEF held
<1>4. /\ EngineTypeOK' /\ Shapes' /\ IdsBounded' /\ StepShape'
      /\ \A r \in Req : RequestInv(r)'
  BY <1>1, <1>2, <1>3, EndsRequests
<1>5. \A w \in Rank, r \in Req : LoadInv(w, r)' /\ HoldInv(w, r)'
  BY <1>1, <1>2, <1>4, EndsRanks
<1> QED BY <1>4, <1>5 DEF EngineInv

\* A stop keeps the invariant.
LEMMA StopEnds ==
  ASSUME EngineInv, NEW q \in Req, NEW capped \in BOOLEAN, Stop(q, capped)
  PROVE  EngineInv'
<1>1. TRUE \in BOOLEAN
  OBVIOUS
<1>2. status[q] = "running"
  BY DEF Stop, EngineInv, RequestInv, InStep
<1>3. Ends(q, capped, TRUE)
  <2>1. preempting = {}
    BY DEF Stop, EngineInv, StepShape
  <2>2. status' = [status EXCEPT ![q] = IF status[q] = "remote" THEN "aborted"
                                     ELSE IF Delays(q, capped, TRUE) THEN "finished" ELSE "gone"]
    BY <1>2 DEF Stop
  <2> QED BY <1>2, <2>1, <2>2 DEF Stop, Ends
<1>4. /\ stopping' = stopping \ {q} /\ q \notin DOMAIN scheduled /\ q \notin matched
      /\ q \notin admitted /\ phase # "execute"
  BY DEF Stop, EngineInv, StepShape
<1>5. /\ EngineTypeOK' /\ Shapes' /\ IdsBounded' /\ StepShape'
      /\ \A r \in Req : RequestInv(r)'
  BY <1>1, <1>3, <1>4, EndsRequests
<1>6. \A w \in Rank, r \in Req : LoadInv(w, r)' /\ HoldInv(w, r)'
  BY <1>1, <1>3, <1>5, EndsRanks
<1> QED BY <1>5, <1>6 DEF EngineInv

-----------------------------------------------------------------------------
\* build_connector_meta: what the batch has goes to the ranks.

\* What was due in the batch is due in the metadata, on every rank.
LEMMA BuildDues ==
  ASSUME EngineInv, Build, NEW w \in Rank, NEW r \in Req
  PROVE  /\ LoadsOf(w, r)' = LoadsOf(w, r) /\ PlansOf(w, r)' = PlansOf(w, r)
         /\ ReadyOf(w, r)' = ReadyOf(w, r) /\ WaitsOf(w, r)' = WaitsOf(w, r)
         /\ r \in preempting => PlansOf(w, r)' = {}
         /\ Unfenced(w, r)' <=> Unfenced(w, r)
         /\ Unfenced(w, r) <=> r \in preempting
<1>1. LoadInv(w, r) /\ HoldInv(w, r) /\ InStep(r) /\ StepShape
  BY DEF EngineInv, RequestInv
<1>2. /\ phase = "schedule" /\ phase' = "execute" /\ ran' = {} /\ preempting' = {}
      /\ fenced' = IF preempting = {} THEN Rank ELSE {}
  BY DEF Build
<1>3. ~Due(w) /\ Due(w)'
  BY <1>2 DEF Due
<1>4. batch' = NoBatch /\ DOMAIN finishedWaits' = {}
  BY DEF Build, BuildConnectorMeta
<1>5. /\ metadata'.loads = Filtered(batch.loads, preempting)
      /\ metadata'.plans = Filtered(batch.plans, ended \cup preempting)
      /\ metadata'.states = Filtered(batch.states, preempting)
      /\ metadata'.waits = Without(finishedWaits, preempting)
      /\ metadata'.preempted = preempting
  BY DEF Build, BuildConnectorMeta
<1>6. r \in preempting => /\ LoadsOf(w, r) = {} /\ PlansOf(w, r) = {} /\ ReadyOf(w, r) = {}
                          /\ WaitsOf(w, r) = {}
  <2> SUFFICES ASSUME r \in preempting PROVE /\ LoadsOf(w, r) = {} /\ PlansOf(w, r) = {}
                                             /\ ReadyOf(w, r) = {} /\ WaitsOf(w, r) = {}
    OBVIOUS
  <2>1. status[r] = "waiting"
    BY <1>1 DEF InStep
  <2>2. LoadsOf(w, r) = {} /\ WaitsOf(w, r) = {} /\ ReadyOf(w, r) = {}
    BY <1>1, <2>1 DEF LoadInv, LoadsNew, Remote, HoldInv, OneRelease, Sources
  <2>3. PlansOf(w, r) = {}
    BY <1>1, <1>3, <2>1 DEF PlansOf, Keep, StepShape, InStep
  <2> QED BY <2>2, <2>3
<1>7. r \in ended => PlansOf(w, r) = {}
  BY <1>1, <1>3 DEF PlansOf, Keep, StepShape, InStep
<1>8. LoadsOf(w, r)' = LoadsOf(w, r)
  BY <1>3, <1>4, <1>5, <1>6 DEF LoadsOf, Keep, Filtered, NoBatch
<1>9. PlansOf(w, r)' = PlansOf(w, r)
  BY <1>3, <1>4, <1>5, <1>6, <1>7 DEF PlansOf, Keep, Filtered, NoBatch
<1>10. ReadyOf(w, r)' = ReadyOf(w, r)
  BY <1>3, <1>4, <1>5, <1>6 DEF ReadyOf, Keep, Filtered, NoBatch
<1>11. WaitsOf(w, r)' = WaitsOf(w, r)
  BY <1>3, <1>4, <1>5, <1>6 DEF WaitsOf, Keep, Without
<1>12. (Unfenced(w, r)' <=> Unfenced(w, r)) /\ (Unfenced(w, r) <=> r \in preempting)
  BY <1>2, <1>5 DEF Unfenced
<1> QED BY <1>6, <1>8, <1>9, <1>10, <1>11, <1>12

Saved == {r \in DOMAIN scheduled : Saves(r, scheduled[r])}

\* The saves are of scheduled requests, which run and are not preempted.
LEMMA BuildSaves ==
  ASSUME EngineInv, Build
  PROVE  /\ metadata'.saves = Filtered({[req |-> r, table |-> TableOf(r), from |-> SaveFrom(r),
                                         to |-> scheduled[r]] : r \in Saved}, preempting)
         /\ saving' = (saving \cup Saved) \ preempting
         /\ \A r \in Saved : status[r] = "running" /\ r \in Req /\ r \notin preempting
<1>1. batch.saves = {} /\ \A r \in Req : InStep(r)
  BY DEF EngineInv, RequestInv, StepShape
<1>2. DOMAIN scheduled \subseteq Req
  BY DEF EngineInv, EngineTypeOK
<1>3. \A r \in DOMAIN scheduled : [x \in Req |-> TableOf(x)][r] = TableOf(r)
  BY <1>2
<1>4. \A r \in Saved : status[r] = "running" /\ r \in Req /\ r \notin preempting
  BY <1>1, <1>2 DEF Saved, InStep
<1>5. {[req |-> r, table |-> [x \in Req |-> TableOf(x)][r], from |-> SaveFrom(r),
        to |-> scheduled[r]] : r \in Saved}
      = {[req |-> r, table |-> TableOf(r), from |-> SaveFrom(r), to |-> scheduled[r]] : r \in Saved}
  BY <1>3 DEF Saved
<1>6. metadata'.saves = Filtered({[req |-> r, table |-> [x \in Req |-> TableOf(x)][r],
                                   from |-> SaveFrom(r), to |-> scheduled[r]] : r \in Saved},
                                 preempting)
  BY <1>1 DEF Build, BuildConnectorMeta, Saved
<1>7. saving' = (saving \cup Saved) \ preempting
  BY DEF Build, BuildConnectorMeta, Saved
<1> QED BY <1>4, <1>5, <1>6, <1>7

\* The metadata is typed.
LEMMA BuildTypes ==
  ASSUME EngineInv, Build
  PROVE  EngineTypeOK' /\ Shapes'
<1> USE EngineAssumption
<1>1. EngineTypeOK /\ SchedulerTypeOK /\ Shapes
  BY DEF EngineInv, EngineTypeOK
<1>2. metadata'.saves \subseteq SaveRequest
  <2>1. \A r \in Saved : r \in Req /\ scheduled[r] \in Tokens /\ TableOf(r) \in Table
    BY <1>1, BuildSaves DEF Saved, EngineTypeOK, TableOf, Table
  <2>2. \A r \in Saved : SaveFrom(r) \in Tokens
    BY <1>1 DEF Saved, Saves, SaveFrom, SchedulerTypeOK, Tokens
  <2>3. \A r \in Saved : [req |-> r, table |-> TableOf(r), from |-> SaveFrom(r),
                          to |-> scheduled[r]] \in SaveRequest
    BY <2>1, <2>2 DEF SaveRequest
  <2> QED BY <2>3, BuildSaves DEF Filtered
<1>3. /\ metadata'.loads \subseteq LoadRequest /\ metadata'.plans \subseteq TransferPlan
      /\ metadata'.states \subseteq SourceState /\ metadata'.preempted \subseteq Req
      /\ DOMAIN metadata'.waits \subseteq Req
      /\ \A r \in DOMAIN metadata'.waits : metadata'.waits[r] \in Wait
  BY <1>1 DEF Build, BuildConnectorMeta, Filtered, Without, Shapes, EngineTypeOK, SchedulerTypeOK
<1>4. /\ DOMAIN tracked' \subseteq Req /\ \A r \in DOMAIN tracked' : tracked'[r] \in Tokens
  BY <1>1 DEF Build, BuildConnectorMeta, EngineTypeOK, SchedulerTypeOK
<1>5. /\ DOMAIN loadDecision' \subseteq Req /\ DOMAIN xferDecision' \subseteq Req
      /\ DOMAIN traces' \subseteq Req
      /\ \A r \in DOMAIN traces' : traces'[r] \in [id : LoadId, reports : SUBSET Rank]
      /\ DOMAIN finishedWaits' = {}
  BY <1>1 DEF Build, BuildConnectorMeta, Without, SchedulerTypeOK
<1>6. saving' \subseteq Req /\ transferring' \subseteq Req /\ delayed' \subseteq Req
  BY <1>1, BuildSaves DEF Build, BuildConnectorMeta, SchedulerTypeOK
<1>7. batch' = NoBatch /\ UNCHANGED <<kind, remotePrefill, nextLoadId>>
  BY DEF Build, BuildConnectorMeta
<1>8. SchedulerTypeOK'
  BY <1>1, <1>2, <1>3, <1>4, <1>5, <1>6, <1>7 DEF SchedulerTypeOK, NoBatch
<1>9. EngineTypeOK'
  <2>1. WorkerTypeOK'
    BY <1>1, WorkerSame DEF Build, EngineTypeOK
  <2> QED BY <1>1, <1>8, <2>1 DEF Build, EngineTypeOK, vllmVars
<1>10. Shapes'
  BY <1>1, <1>3, <1>7 DEF Build, Shapes, NoBatch, workerVars, backends
<1> QED BY <1>9, <1>10

\* The requests stay where vLLM has them.
LEMMA BuildRequests ==
  ASSUME EngineInv, Build
  PROVE  /\ IdsBounded' /\ StepShape'
         /\ \A r \in Req : RequestInv(r)'
<1>1. IdsBounded'
  BY DEF Build, BuildConnectorMeta, EngineInv, IdsBounded, TablesUsed, vllmVars
<1>2. StepShape'
  BY DEF Build, BuildConnectorMeta, EngineInv, StepShape, NoBatch
<1>3. ASSUME NEW r \in Req PROVE RequestInv(r)'
  <2>0. RequestInv(r)
    BY DEF EngineInv
  <2>1. UNCHANGED <<status, local, computed, remotePrefill, scheduled, stopping>>
    BY DEF Build, BuildConnectorMeta, vllmVars
  <2>2. InStep(r)'
    <3>1. metadata'.preempted = preempting /\ matched' = {} /\ admitted' = {} /\ ended' = {}
          /\ preempting' = {}
      BY DEF Build, BuildConnectorMeta
    <3> QED BY <2>0, <2>1, <3>1 DEF RequestInv, InStep
  <2>3. Decided(r)'
    <3>1. /\ DOMAIN loadDecision' = DOMAIN loadDecision \ (ended \cup preempting)
          /\ DOMAIN xferDecision' = DOMAIN xferDecision \ (ended \cup preempting)
          /\ matched' = {}
      BY DEF Build, BuildConnectorMeta, Without
    <3> QED BY <2>0, <2>1, <3>1 DEF RequestInv, Decided
  <2>4. Remembers(r)'
    <3>1. /\ DOMAIN tracked' \subseteq DOMAIN tracked /\ DOMAIN traces' \subseteq DOMAIN traces
          /\ transferring' \subseteq transferring /\ delayed' \subseteq delayed
      BY DEF Build, BuildConnectorMeta, Without
    <3> QED BY <2>0, <2>1, <3>1, BuildSaves DEF RequestInv, Remembers
  <2> QED BY <2>2, <2>3, <2>4 DEF RequestInv
<1> QED BY <1>1, <1>2, <1>3

\* Saves become due; preempted requests have nothing due.
LEMMA BuildRanks ==
  ASSUME EngineInv, Build, NEW w \in Rank, NEW r \in Req
  PROVE  LoadInv(w, r)' /\ HoldInv(w, r)'
<1>1. LoadInv(w, r) /\ HoldInv(w, r) /\ EngineTypeOK /\ Shapes /\ InStep(r)
  BY DEF EngineInv, RequestInv
<1>2. UNCHANGED <<table, local, computed, status, receivedBy, sentBy, getOp, putOp,
                  pull, source, onLoad, onSave, onXfer, waits, valid, output>>
  BY DEF Build, workerVars, backends, vllmVars
<1>3. phase = "schedule" /\ metadata'.preempted = preempting
  BY DEF Build, BuildConnectorMeta
<1>4. LoadInv(w, r)'
  <2>1. computed[r] \in Tokens /\ computed[r] <= computed[r]
    BY <1>1, EngineAssumption DEF EngineTypeOK, Tokens
  <2>2. KeepsLoad(w, r) /\ KeepsCover(w, r)
    BY <1>2, <1>3, <2>1, BuildDues DEF KeepsLoad, KeepsCover, Remote, SameAt, Reported
  <2>3. Covers(w, r)'
    BY <1>1, <2>2, FrameCovers DEF LoadInv
  <2> QED BY <1>1, <2>2, <2>3, FrameLoad
<1>5. TableOf(r)' = TableOf(r)
  BY <1>2 DEF TableOf
<1>6. Books(w, r)'
  BY <1>1, <1>2 DEF HoldInv, Books
<1>7. SavesHeld(w, r)'
  <2>1. /\ SavesOf(w, r)' # {} => r \in Saved
        /\ \A x \in SavesOf(w, r)' : x.table = TableOf(r)
    <3>1. batch' = NoBatch /\ phase' = "execute" /\ ran' = {}
      BY DEF Build, BuildConnectorMeta
    <3>2. SavesOf(w, r)' = {x \in metadata'.saves : x.req = r}
      BY <3>1 DEF SavesOf, Due, Keep
    <3> QED BY <3>2, BuildSaves DEF Filtered
  <2>2. SavesOf(w, r) = {}
    BY <1>3 DEF SavesOf, Due, Keep
  <2>3. r \in saving \/ Unfenced(w, r) => r \in saving' \/ Unfenced(w, r)'
    BY BuildDues, BuildSaves
  <2>4. r \in Saved => r \in saving' /\ status[r] = "running"
    BY BuildSaves
  <2> QED BY <1>1, <1>2, <1>5, <2>1, <2>2, <2>3, <2>4 DEF HoldInv, SavesHeld
<1>8. OneRelease(w, r)'
  BY <1>1, <1>2, BuildDues DEF HoldInv, OneRelease, SentBy
<1>9. Sources(w, r)'
  BY <1>1, <1>2, <1>5, BuildDues DEF HoldInv, Sources
<1>10. Quiet(w, r)'
  BY <1>1, <1>2, <1>3, BuildDues DEF HoldInv, Quiet
<1> QED BY <1>4, <1>6, <1>7, <1>8, <1>9, <1>10 DEF HoldInv

-----------------------------------------------------------------------------
\* handle_preemptions on a rank.

\* What is left of well-typed workers is well typed.
LEMMA FewerEntries ==
  ASSUME WorkerTypeOK,
         \A w \in Rank :
           /\ \A r \in DOMAIN getOp'[w] : r \in DOMAIN getOp[w] /\ getOp'[w][r] = getOp[w][r]
           /\ \A r \in DOMAIN putOp'[w] : r \in DOMAIN putOp[w] /\ putOp'[w][r] = putOp[w][r]
           /\ \A r \in DOMAIN pull'[w] : r \in DOMAIN pull[w] /\ pull'[w][r] = pull[w][r]
           /\ \A r \in DOMAIN source'[w] : r \in DOMAIN source[w] /\ source'[w][r] = source[w][r]
           /\ \A r \in DOMAIN onLoad'[w] : r \in DOMAIN onLoad[w] /\ onLoad'[w][r] = onLoad[w][r]
           /\ onSave'[w] \subseteq onSave[w] /\ valid'[w] = valid[w]
           /\ \A r \in DOMAIN onXfer'[w] : r \in DOMAIN onXfer[w] /\ onXfer'[w][r] = onXfer[w][r]
           /\ \A r \in DOMAIN waits'[w] : r \in DOMAIN waits[w] /\ waits'[w][r] = waits[w][r]
  PROVE  WorkerTypeOK'
<1> SUFFICES ASSUME NEW w \in Rank
             PROVE  /\ \A r \in DOMAIN getOp'[w] : getOp'[w][r] \in
                         [table : Table, from : Tokens, to : Tokens, upto : Tokens,
                          state : {"busy", "done"}]
                    /\ \A r \in DOMAIN putOp'[w] :
                         putOp'[w][r] \in [table : Table, state : {"busy", "done"}]
                    /\ \A r \in DOMAIN pull'[w] : pull'[w][r] \in
                         [table : Table, from : Tokens, to : Tokens, state : {"busy", "ok", "error"}]
                    /\ \A r \in DOMAIN source'[w] : source'[w][r] \in
                         [table : Table, state : {"prepared", "published", "sent"}]
                    /\ \A r \in DOMAIN onLoad'[w] : onLoad'[w][r] \in LoadRequest
                    /\ onSave'[w] \subseteq Req
                    /\ \A r \in DOMAIN onXfer'[w] : onXfer'[w][r] \in
                         [plan : TransferPlan, stage : {"POOL_LOADING", "POOL_DONE", "TRANSFER_LOADING"},
                          A : Tokens]
                    /\ \A r \in DOMAIN waits'[w] : waits'[w][r] \in
                         [wait : Wait, saveDone : BOOLEAN, xferDone : BOOLEAN]
                    /\ valid'[w] \subseteq Table \X Tokens
  BY DEF WorkerTypeOK
<1>1. \A r \in DOMAIN getOp'[w] : getOp'[w][r] \in
        [table : Table, from : Tokens, to : Tokens, upto : Tokens, state : {"busy", "done"}]
  BY DEF WorkerTypeOK
<1>2. \A r \in DOMAIN putOp'[w] : putOp'[w][r] \in [table : Table, state : {"busy", "done"}]
  BY DEF WorkerTypeOK
<1>3. \A r \in DOMAIN pull'[w] : pull'[w][r] \in
        [table : Table, from : Tokens, to : Tokens, state : {"busy", "ok", "error"}]
  BY DEF WorkerTypeOK
<1>4. \A r \in DOMAIN source'[w] : source'[w][r] \in
        [table : Table, state : {"prepared", "published", "sent"}]
  BY DEF WorkerTypeOK
<1>5. \A r \in DOMAIN onLoad'[w] : onLoad'[w][r] \in LoadRequest
  BY DEF WorkerTypeOK
<1>6. onSave'[w] \subseteq Req /\ valid'[w] \subseteq Table \X Tokens
  BY DEF WorkerTypeOK
<1>7. \A r \in DOMAIN onXfer'[w] : onXfer'[w][r] \in
        [plan : TransferPlan, stage : {"POOL_LOADING", "POOL_DONE", "TRANSFER_LOADING"}, A : Tokens]
  BY DEF WorkerTypeOK
<1>8. \A r \in DOMAIN waits'[w] : waits'[w][r] \in
        [wait : Wait, saveDone : BOOLEAN, xferDone : BOOLEAN]
  BY DEF WorkerTypeOK
<1> QED BY <1>1, <1>2, <1>3, <1>4, <1>5, <1>6, <1>7, <1>8

\* A fence changes the state of one rank only.
LEMMA FenceRequests ==
  ASSUME EngineInv, NEW v \in Rank, Fence(v)
  PROVE  /\ EngineTypeOK' /\ Shapes' /\ IdsBounded' /\ StepShape'
         /\ \A r \in Req : RequestInv(r)'
<1>1. EngineTypeOK /\ Shapes
  BY DEF EngineInv
<1>2. EngineTypeOK'
  <2>1. WorkerTypeOK'
    <3> SUFFICES ASSUME NEW w \in Rank
                 PROVE  /\ \A r \in DOMAIN getOp'[w] : r \in DOMAIN getOp[w] /\ getOp'[w][r] = getOp[w][r]
                        /\ \A r \in DOMAIN putOp'[w] : r \in DOMAIN putOp[w] /\ putOp'[w][r] = putOp[w][r]
                        /\ \A r \in DOMAIN pull'[w] : r \in DOMAIN pull[w] /\ pull'[w][r] = pull[w][r]
                        /\ \A r \in DOMAIN source'[w] : r \in DOMAIN source[w] /\ source'[w][r] = source[w][r]
                        /\ \A r \in DOMAIN onLoad'[w] : r \in DOMAIN onLoad[w] /\ onLoad'[w][r] = onLoad[w][r]
                        /\ onSave'[w] \subseteq onSave[w] /\ valid'[w] = valid[w]
                        /\ \A r \in DOMAIN onXfer'[w] : r \in DOMAIN onXfer[w] /\ onXfer'[w][r] = onXfer[w][r]
                        /\ \A r \in DOMAIN waits'[w] : r \in DOMAIN waits[w] /\ waits'[w][r] = waits[w][r]
      BY <1>1, FewerEntries DEF EngineTypeOK
    <3> QED BY <1>1 DEF Shapes, Fence, HandlePreemptions, Without
  <2>2. SchedulerTypeOK'
    BY <1>1, SchedulerSame DEF Fence, EngineTypeOK
  <2> QED BY <1>1, <2>1, <2>2 DEF Fence, EngineTypeOK, vllmVars
<1>3. Shapes'
  <2>1. UNCHANGED <<batch, metadata, output, valid>>
    BY DEF Fence, HandlePreemptions, schedVars
  <2>2. /\ getOp' = [w \in Rank |-> getOp'[w]] /\ putOp' = [w \in Rank |-> putOp'[w]]
        /\ pull' = [w \in Rank |-> pull'[w]] /\ source' = [w \in Rank |-> source'[w]]
        /\ onLoad' = [w \in Rank |-> onLoad'[w]] /\ onXfer' = [w \in Rank |-> onXfer'[w]]
        /\ waits' = [w \in Rank |-> waits'[w]]
        /\ onSave' \in [Rank -> SUBSET Req]
    BY <1>1 DEF Shapes, Fence, HandlePreemptions
  <2>3. ASSUME NEW w \in Rank
        PROVE /\ DOMAIN getOp'[w] \subseteq Req /\ DOMAIN putOp'[w] \subseteq Req
              /\ DOMAIN pull'[w] \subseteq Req /\ DOMAIN source'[w] \subseteq Req
              /\ DOMAIN onLoad'[w] \subseteq Req /\ DOMAIN onXfer'[w] \subseteq Req
              /\ DOMAIN waits'[w] \subseteq Req
    BY <1>1 DEF Shapes, Fence, HandlePreemptions, Without
  <2> QED BY <1>1, <2>1, <2>2, <2>3 DEF Shapes
<1>4. IdsBounded'
  BY DEF Fence, schedVars, vllmVars, EngineInv, IdsBounded, TablesUsed
<1>5. StepShape'
  BY DEF Fence, HandlePreemptions, schedVars, EngineInv, StepShape
<1>6. ASSUME NEW r \in Req PROVE RequestInv(r)'
  BY DEF Fence, schedVars, trackVars, decideVars, vllmVars, EngineInv, RequestInv, InStep, Decided,
         Remembers
<1> QED BY <1>2, <1>3, <1>4, <1>5, <1>6

\* After the fence nothing is left of the preempted requests.
LEMMA FenceRanks ==
  ASSUME EngineInv, NEW v \in Rank, Fence(v), NEW w \in Rank, NEW r \in Req
  PROVE  LoadInv(w, r)' /\ HoldInv(w, r)'
<1>1. LoadInv(w, r) /\ HoldInv(w, r) /\ EngineTypeOK /\ Shapes /\ InStep(r)
  BY DEF EngineInv, RequestInv
<1>2. UNCHANGED <<batch, metadata, finishedWaits, phase, ran, status, table, local, computed,
                  receivedBy, sentBy, valid, output, saving, preempting>>
  BY DEF Fence, HandlePreemptions, schedVars, trackVars, vllmVars
<1>3. phase = "execute" /\ fenced' = fenced \cup {v}
  BY DEF Fence
<1>4. CASE w # v \/ r \notin metadata.preempted
  <2>1. /\ SameAt(getOp[w], getOp'[w], r) /\ SameAt(onXfer[w], onXfer'[w], r)
        /\ SameAt(pull[w], pull'[w], r) /\ SameAt(putOp[w], putOp'[w], r)
        /\ SameAt(waits[w], waits'[w], r) /\ SameAt(source[w], source'[w], r)
        /\ r \in DOMAIN onLoad'[w] <=> r \in DOMAIN onLoad[w]
        /\ r \in onSave'[w] <=> r \in onSave[w]
    <3>1. CASE w # v
      BY <1>1, <3>1 DEF SameAt, Shapes, Fence, HandlePreemptions
    <3>2. CASE r \notin metadata.preempted
      BY <1>1, <3>2 DEF SameAt, Shapes, Fence, HandlePreemptions, Without
    <3> QED BY <1>4, <3>1, <3>2
  <2>2. Unfenced(w, r)' <=> Unfenced(w, r)
    BY <1>2, <1>3, <1>4 DEF Unfenced
  <2>3. computed[r] \in Tokens /\ computed[r] <= computed[r]
    BY <1>1, EngineAssumption DEF EngineTypeOK, Tokens
  <2>4. KeepsLoad(w, r) /\ KeepsCover(w, r)
    BY <1>2, <2>1, <2>3, DuesSame DEF KeepsLoad, KeepsCover, Remote, Reported
  <2>5. KeepsHold(w, r)
    BY <1>1, <1>2, <2>1, <2>2, DuesSame DEF KeepsHold, HoldInv, SavesHeld, SentBy
  <2>6. Covers(w, r)'
    BY <1>1, <2>4, FrameCovers DEF LoadInv
  <2> QED BY <1>1, <2>4, <2>5, <2>6, FrameLoad, FrameHold
<1>5. CASE w = v /\ r \in metadata.preempted
  <2>1. status[r] = "waiting"
    BY <1>1, <1>3, <1>5 DEF InStep
  <2>2. /\ LoadsOf(w, r) = {} /\ PlansOf(w, r) = {} /\ SavesOf(w, r) = {}
        /\ WaitsOf(w, r) = {} /\ ReadyOf(w, r) = {} /\ ~Reported(w, r) /\ ~SentBy(w, r)
    BY <1>1, <1>3, <1>5, <2>1
       DEF LoadInv, LoadsNew, OneReport, Remote, HoldInv, SavesHeld, OneRelease, Sources, Quiet
  <2>3. /\ r \notin DOMAIN getOp'[w] /\ r \notin DOMAIN onXfer'[w] /\ r \notin DOMAIN pull'[w]
        /\ r \notin DOMAIN putOp'[w] /\ r \notin DOMAIN onLoad'[w] /\ r \notin DOMAIN waits'[w]
        /\ r \notin onSave'[w]
    BY <1>1, <1>5 DEF Shapes, Fence, HandlePreemptions, Without
  <2>4. r \in DOMAIN source'[w] => source'[w][r].state = "prepared"
    BY <1>1, <1>5 DEF Shapes, Fence, HandlePreemptions, Without
  <2>5. /\ LoadsOf(w, r)' = {} /\ PlansOf(w, r)' = {} /\ SavesOf(w, r)' = {}
        /\ WaitsOf(w, r)' = {} /\ ReadyOf(w, r)' = {}
    BY <1>2, <2>2, DuesSame
  <2>6. ~Reported(w, r)' /\ ~SentBy(w, r)' /\ ~Remote(r)'
    BY <1>2, <2>1, <2>2 DEF Reported, SentBy, Remote
  <2>7. LoadInv(w, r)'
    BY <1>2, <2>1, <2>3, <2>5, <2>6, NoLoad
  <2>8. Books(w, r)' /\ SavesHeld(w, r)' /\ Quiet(w, r)'
    BY <2>3, <2>5 DEF Books, SavesHeld, Quiet
  <2>9. OneRelease(w, r)'
    BY <1>2, <2>1, <2>3, <2>5, <2>6 DEF OneRelease, SentBy
  <2>10. Sources(w, r)'
    BY <2>4, <2>5 DEF Sources
  <2> QED BY <2>7, <2>8, <2>9, <2>10 DEF HoldInv
<1> QED BY <1>4, <1>5

-----------------------------------------------------------------------------
\* The I/O of a rank.

\* What an end of I/O changes: one entry of one backend, and the blocks filled.
LEMMA IOEntries ==
  ASSUME EngineTypeOK, Shapes, NEW v \in Rank, IO(v)
  PROVE  \E q \in Req, upto \in Tokens :
           /\ \A w \in Rank, r \in Req : w # v \/ r # q =>
                /\ SameAt(getOp[w], getOp'[w], r) /\ SameAt(putOp[w], putOp'[w], r)
                /\ SameAt(pull[w], pull'[w], r) /\ SameAt(source[w], source'[w], r)
           /\ \A w \in Rank : valid[w] \subseteq valid'[w]
           /\ \/ GetEnds(v, q, upto) \/ PutEnds(v, q) \/ SourceEnds(v, q)
              \/ \E result \in {"ok", "error"} : PullEnds(v, q, result)
<1> USE EngineAssumption
<1>0. 0 \in Tokens
  BY DEF Tokens
<1>1. ASSUME NEW q \in Req, NEW upto \in Tokens, GetEnds(v, q, upto)
      PROVE  /\ \A w \in Rank, r \in Req : w # v \/ r # q =>
                  /\ SameAt(getOp[w], getOp'[w], r) /\ SameAt(putOp[w], putOp'[w], r)
                  /\ SameAt(pull[w], pull'[w], r) /\ SameAt(source[w], source'[w], r)
             /\ \A w \in Rank : valid[w] \subseteq valid'[w]
  BY <1>1 DEF GetEnds, Fill, SameAt, Shapes
<1>2. ASSUME NEW q \in Req, PutEnds(v, q)
      PROVE  /\ \A w \in Rank, r \in Req : w # v \/ r # q =>
                  /\ SameAt(getOp[w], getOp'[w], r) /\ SameAt(putOp[w], putOp'[w], r)
                  /\ SameAt(pull[w], pull'[w], r) /\ SameAt(source[w], source'[w], r)
             /\ \A w \in Rank : valid[w] \subseteq valid'[w]
  BY <1>2 DEF PutEnds, SameAt, Shapes
<1>3. ASSUME NEW q \in Req, SourceEnds(v, q)
      PROVE  /\ \A w \in Rank, r \in Req : w # v \/ r # q =>
                  /\ SameAt(getOp[w], getOp'[w], r) /\ SameAt(putOp[w], putOp'[w], r)
                  /\ SameAt(pull[w], pull'[w], r) /\ SameAt(source[w], source'[w], r)
             /\ \A w \in Rank : valid[w] \subseteq valid'[w]
  BY <1>3 DEF SourceEnds, SameAt, Shapes
<1>4. ASSUME NEW q \in Req, NEW result \in {"ok", "error"}, PullEnds(v, q, result)
      PROVE  /\ \A w \in Rank, r \in Req : w # v \/ r # q =>
                  /\ SameAt(getOp[w], getOp'[w], r) /\ SameAt(putOp[w], putOp'[w], r)
                  /\ SameAt(pull[w], pull'[w], r) /\ SameAt(source[w], source'[w], r)
             /\ \A w \in Rank : valid[w] \subseteq valid'[w]
  BY <1>4 DEF PullEnds, Fill, SameAt, Shapes
<1> QED BY <1>0, <1>1, <1>2, <1>3, <1>4 DEF IO

\* One entry of a backend gets another state.
LEMMA StateChange ==
  ASSUME NEW f, f = [w \in Rank |-> f[w]], NEW v \in Rank, NEW q \in DOMAIN f[v], NEW state,
         NEW h, h = [f EXCEPT ![v][q].state = state]
  PROVE  /\ h = [w \in Rank |-> h[w]]
         /\ \A w \in Rank : DOMAIN h[w] = DOMAIN f[w]
         /\ h[v][q] = [f[v][q] EXCEPT !.state = state]
         /\ \A w \in Rank : \A r \in DOMAIN f[w] : w # v \/ r # q => h[w][r] = f[w][r]
<1>1. h = [w \in Rank |-> IF w = v THEN [f[v] EXCEPT ![q].state = state] ELSE f[w]]
  OBVIOUS
<1>2. h = [w \in Rank |-> h[w]]
  BY <1>1
<1>3. h[v] = [f[v] EXCEPT ![q].state = state] /\ \A w \in Rank : w # v => h[w] = f[w]
  BY <1>1
<1>4. DOMAIN h[v] = DOMAIN f[v] /\ h[v][q] = [f[v][q] EXCEPT !.state = state]
  BY <1>3
<1>5. \A r \in DOMAIN f[v] : r # q => h[v][r] = f[v][r]
  BY <1>3
<1> QED BY <1>2, <1>3, <1>4, <1>5

\* The end of an I/O changes one entry of a backend and what it filled.
LEMMA IORequests ==
  ASSUME EngineInv, NEW v \in Rank, IO(v)
  PROVE  /\ EngineTypeOK' /\ Shapes' /\ IdsBounded' /\ StepShape'
         /\ \A r \in Req : RequestInv(r)'
<1> USE EngineAssumption
<1>1. EngineTypeOK /\ Shapes /\ WorkerTypeOK
  BY DEF EngineInv, EngineTypeOK
<1>2. PICK q \in Req, upto \in Tokens :
        \/ GetEnds(v, q, upto) \/ PutEnds(v, q) \/ SourceEnds(v, q)
        \/ \E result \in {"ok", "error"} : PullEnds(v, q, result)
  BY <1>1, IOEntries
<1>3. UNCHANGED <<onLoad, onSave, onXfer, waits, output>>
  BY <1>2 DEF GetEnds, PutEnds, SourceEnds, PullEnds
<1>4. ASSUME NEW from \in Tokens, NEW to \in Tokens, NEW i \in from .. to - 1 PROVE i \in Tokens
  BY DEF Tokens
<1>5. WorkerTypeOK' /\ Shapes'
  <2>0. UNCHANGED <<batch, metadata>>
    BY DEF IO, schedVars
  <2>1. CASE GetEnds(v, q, upto)
    <3>1. /\ q \in DOMAIN getOp[v] /\ getOp[v][q].table \in Table /\ getOp[v][q].from \in Tokens
          /\ getOp[v][q] \in [table : Table, from : Tokens, to : Tokens, upto : Tokens,
                              state : {"busy", "done"}]
      BY <1>1, <2>1 DEF GetEnds, In, WorkerTypeOK
    <3>2. \A i \in getOp[v][q].from .. upto - 1 : <<getOp[v][q].table, i>> \in Table \X Tokens
      BY <1>4, <3>1
    <3>3. valid' \in [Rank -> SUBSET (Table \X Tokens)]
      BY <1>1, <2>1, <3>2 DEF GetEnds, Fill, Shapes
    <3>4. [getOp[v][q] EXCEPT !.state = "done", !.upto = upto]
             \in [table : Table, from : Tokens, to : Tokens, upto : Tokens,
                  state : {"busy", "done"}]
      BY <3>1
    <3>5. /\ getOp' = [w \in Rank |-> getOp'[w]]
          /\ \A w \in Rank : DOMAIN getOp'[w] = DOMAIN getOp[w]
          /\ getOp'[v][q] = [getOp[v][q] EXCEPT !.state = "done", !.upto = upto]
          /\ \A w \in Rank : \A r \in DOMAIN getOp[w] :
                w # v \/ r # q => getOp'[w][r] = getOp[w][r]
      BY <1>1, <2>1, <3>1 DEF GetEnds, Shapes
    <3>6. ASSUME NEW w \in Rank, NEW r \in DOMAIN getOp'[w]
          PROVE  getOp'[w][r] \in [table : Table, from : Tokens, to : Tokens, upto : Tokens,
                                   state : {"busy", "done"}]
      <4>1. r \in DOMAIN getOp[w]
        BY <3>5
      <4>2. getOp[w][r] \in [table : Table, from : Tokens, to : Tokens, upto : Tokens,
                             state : {"busy", "done"}]
        BY <1>1, <4>1 DEF WorkerTypeOK
      <4>3. w # v \/ r # q => getOp'[w][r] = getOp[w][r]
        BY <3>5, <4>1
      <4>4. CASE w = v /\ r = q
        BY <3>4, <3>5, <4>4
      <4> QED BY <4>2, <4>3, <4>4
    <3>7. UNCHANGED <<putOp, pull, source>>
      BY <2>1 DEF GetEnds
    <3>8. WorkerTypeOK'
      BY <1>1, <1>3, <3>3, <3>6, <3>7 DEF WorkerTypeOK
    <3>9. Shapes'
      BY <1>1, <1>3, <2>0, <3>3, <3>5, <3>7 DEF Shapes
    <3> QED BY <3>8, <3>9
  <2>2. CASE PutEnds(v, q)
    <3>1. \A w \in Rank : \A r \in DOMAIN putOp'[w] : /\ r \in DOMAIN putOp[w]
            /\ putOp'[w][r] \in [table : Table, state : {"busy", "done"}]
      <4>1. q \in DOMAIN putOp[v] /\ putOp = [w \in Rank |-> putOp[w]]
            /\ putOp' = [putOp EXCEPT ![v][q].state = "done"]
        BY <1>1, <2>2 DEF PutEnds, In, Shapes
      <4>2. /\ \A w \in Rank : DOMAIN putOp'[w] = DOMAIN putOp[w]
            /\ putOp'[v][q] = [putOp[v][q] EXCEPT !.state = "done"]
            /\ \A w \in Rank : \A r \in DOMAIN putOp[w] :
                 w # v \/ r # q => putOp'[w][r] = putOp[w][r]
        BY <4>1, StateChange
      <4>3. \A w \in Rank : \A r \in DOMAIN putOp[w] : putOp[w][r] \in
              [table : Table, state : {"busy", "done"}]
        BY <1>1 DEF WorkerTypeOK
      <4>4. putOp'[v][q] \in [table : Table, state : {"busy", "done"}]
        BY <4>1, <4>2, <4>3
      <4> QED BY <4>2, <4>3, <4>4
    <3>2. putOp' = [w \in Rank |-> putOp'[w]] /\ UNCHANGED <<getOp, pull, source, valid>>
      BY <1>1, <2>2 DEF PutEnds, Shapes
    <3>3. WorkerTypeOK'
      BY <1>1, <1>3, <3>1, <3>2 DEF WorkerTypeOK
    <3>4. Shapes'
      BY <1>1, <1>3, <2>0, <3>1, <3>2 DEF Shapes
    <3> QED BY <3>3, <3>4
  <2>3. CASE SourceEnds(v, q)
    <3>1. \A w \in Rank : \A r \in DOMAIN source'[w] : /\ r \in DOMAIN source[w]
            /\ source'[w][r] \in [table : Table, state : {"prepared", "published", "sent"}]
      <4>1. q \in DOMAIN source[v] /\ source = [w \in Rank |-> source[w]]
            /\ source' = [source EXCEPT ![v][q].state = "sent"]
        BY <1>1, <2>3 DEF SourceEnds, In, Shapes
      <4>2. /\ \A w \in Rank : DOMAIN source'[w] = DOMAIN source[w]
            /\ source'[v][q] = [source[v][q] EXCEPT !.state = "sent"]
            /\ \A w \in Rank : \A r \in DOMAIN source[w] :
                 w # v \/ r # q => source'[w][r] = source[w][r]
        BY <4>1, StateChange
      <4>3. \A w \in Rank : \A r \in DOMAIN source[w] : source[w][r] \in
              [table : Table, state : {"prepared", "published", "sent"}]
        BY <1>1 DEF WorkerTypeOK
      <4>4. source'[v][q] \in [table : Table, state : {"prepared", "published", "sent"}]
        BY <4>1, <4>2, <4>3
      <4> QED BY <4>2, <4>3, <4>4
    <3>2. source' = [w \in Rank |-> source'[w]] /\ UNCHANGED <<getOp, putOp, pull, valid>>
      BY <1>1, <2>3 DEF SourceEnds, Shapes
    <3>3. WorkerTypeOK'
      BY <1>1, <1>3, <3>1, <3>2 DEF WorkerTypeOK
    <3>4. Shapes'
      BY <1>1, <1>3, <2>0, <3>1, <3>2 DEF Shapes
    <3> QED BY <3>3, <3>4
  <2>4. ASSUME NEW result \in {"ok", "error"}, PullEnds(v, q, result)
        PROVE  WorkerTypeOK' /\ Shapes'
    <3>1. /\ pull[v][q].table \in Table /\ pull[v][q].from \in Tokens /\ pull[v][q].to \in Tokens
      BY <1>1, <2>4 DEF PullEnds, In, WorkerTypeOK
    <3>2. \A i \in pull[v][q].from .. pull[v][q].to - 1 :
             <<pull[v][q].table, i>> \in Table \X Tokens
      BY <1>4, <3>1
    <3>3. valid' \in [Rank -> SUBSET (Table \X Tokens)]
      BY <1>1, <2>4, <3>2 DEF PullEnds, Fill, Shapes
    <3>4. \A w \in Rank : \A r \in DOMAIN pull'[w] : /\ r \in DOMAIN pull[w]
            /\ pull'[w][r] \in [table : Table, from : Tokens, to : Tokens,
                                state : {"busy", "ok", "error"}]
      <4>1. q \in DOMAIN pull[v] /\ pull = [w \in Rank |-> pull[w]]
            /\ pull' = [pull EXCEPT ![v][q].state = result]
        BY <1>1, <2>4 DEF PullEnds, In, Shapes
      <4>2. /\ \A w \in Rank : DOMAIN pull'[w] = DOMAIN pull[w]
            /\ pull'[v][q] = [pull[v][q] EXCEPT !.state = result]
            /\ \A w \in Rank : \A r \in DOMAIN pull[w] :
                 w # v \/ r # q => pull'[w][r] = pull[w][r]
        BY <4>1, StateChange
      <4>3. \A w \in Rank : \A r \in DOMAIN pull[w] : pull[w][r] \in
              [table : Table, from : Tokens, to : Tokens,
                                state : {"busy", "ok", "error"}]
        BY <1>1 DEF WorkerTypeOK
      <4>4. pull'[v][q] \in [table : Table, from : Tokens, to : Tokens,
                                state : {"busy", "ok", "error"}]
        BY <4>1, <4>2, <4>3
      <4> QED BY <4>2, <4>3, <4>4
    <3>5. pull' = [w \in Rank |-> pull'[w]] /\ UNCHANGED <<getOp, putOp, source>>
      BY <1>1, <2>4 DEF PullEnds, Shapes
    <3>6. WorkerTypeOK'
      BY <1>1, <1>3, <3>3, <3>4, <3>5 DEF WorkerTypeOK
    <3>7. Shapes'
      BY <1>1, <1>3, <2>0, <3>3, <3>4, <3>5 DEF Shapes
    <3> QED BY <3>6, <3>7
  <2> QED BY <1>2, <2>1, <2>2, <2>3, <2>4
<1>6. EngineTypeOK'
  <2>1. SchedulerTypeOK'
    BY <1>1, SchedulerSame DEF IO, EngineTypeOK
  <2> QED BY <1>1, <1>5, <2>1 DEF IO, EngineTypeOK, vllmVars, stepVars
<1>7. IdsBounded'
  BY DEF IO, schedVars, vllmVars, EngineInv, IdsBounded, TablesUsed
<1>8. StepShape'
  BY <1>3 DEF IO, schedVars, stepVars, EngineInv, StepShape
<1>9. ASSUME NEW r \in Req PROVE RequestInv(r)'
  BY DEF IO, schedVars, trackVars, decideVars, vllmVars, stepVars, EngineInv, RequestInv, InStep,
         Decided, Remembers
<1> QED BY <1>5, <1>6, <1>7, <1>8, <1>9

\* A GET or a receive that ends has filled what it says.
LEMMA IORanks ==
  ASSUME EngineInv, NEW v \in Rank, IO(v), NEW w \in Rank, NEW r \in Req
  PROVE  LoadInv(w, r)' /\ HoldInv(w, r)'
<1> USE EngineAssumption
<1>1. LoadInv(w, r) /\ HoldInv(w, r) /\ EngineTypeOK /\ Shapes /\ WorkerTypeOK
  BY DEF EngineInv, EngineTypeOK
<1>2. PICK q \in Req, upto \in Tokens :
        /\ w # v \/ r # q =>
             /\ SameAt(getOp[w], getOp'[w], r) /\ SameAt(putOp[w], putOp'[w], r)
             /\ SameAt(pull[w], pull'[w], r) /\ SameAt(source[w], source'[w], r)
        /\ valid[w] \subseteq valid'[w]
        /\ \/ GetEnds(v, q, upto) \/ PutEnds(v, q) \/ SourceEnds(v, q)
           \/ \E result \in {"ok", "error"} : PullEnds(v, q, result)
  BY <1>1, IOEntries
<1>3. UNCHANGED <<onLoad, onSave, onXfer, waits, output, batch, metadata, finishedWaits, phase,
                  ran, status, table, local, computed, receivedBy, sentBy, saving, preempting,
                  fenced>>
  <2>1. UNCHANGED <<onLoad, onSave, onXfer, waits, output>>
    BY <1>2 DEF GetEnds, PutEnds, SourceEnds, PullEnds
  <2> QED BY <2>1 DEF IO, schedVars, trackVars, vllmVars, stepVars
<1>4. Unfenced(w, r)' <=> Unfenced(w, r)
  BY <1>3 DEF Unfenced
<1>5. computed[r] \in Tokens /\ computed[r] <= computed[r] /\ TableOf(r)' = TableOf(r)
  BY <1>1, <1>3 DEF EngineTypeOK, Tokens, TableOf
<1>6. /\ SameAt(getOp[w], getOp'[w], r) /\ SameAt(pull[w], pull'[w], r)
      => LoadInv(w, r)'
  <2> SUFFICES ASSUME SameAt(getOp[w], getOp'[w], r), SameAt(pull[w], pull'[w], r)
               PROVE  LoadInv(w, r)'
    OBVIOUS
  <2>1. KeepsLoad(w, r) /\ KeepsCover(w, r)
    BY <1>2, <1>3, <1>5, DuesSame DEF KeepsLoad, KeepsCover, Remote, SameAt, Reported
  <2>2. Covers(w, r)'
    BY <1>1, <2>1, FrameCovers DEF LoadInv
  <2> QED BY <1>1, <2>1, <2>2, FrameLoad
<1>7. /\ SameAt(getOp[w], getOp'[w], r) /\ SameAt(putOp[w], putOp'[w], r)
      /\ SameAt(source[w], source'[w], r)
      => HoldInv(w, r)'
  <2> SUFFICES ASSUME SameAt(getOp[w], getOp'[w], r), SameAt(putOp[w], putOp'[w], r),
                      SameAt(source[w], source'[w], r)
               PROVE  HoldInv(w, r)'
    OBVIOUS
  <2>1. KeepsHold(w, r)
    BY <1>1, <1>3, <1>4, DuesSame DEF KeepsHold, HoldInv, SavesHeld, SameAt, SentBy
  <2> QED BY <1>1, <2>1, FrameHold
<1>8. CASE w # v \/ r # q
  BY <1>2, <1>6, <1>7, <1>8
<1>9. CASE w = v /\ r = q /\ GetEnds(w, r, upto)
  <2> DEFINE op == getOp[w][r]
  <2>1. /\ r \in DOMAIN getOp[w] /\ upto \in op.from .. op.to
        /\ DOMAIN getOp'[w] = DOMAIN getOp[w]
        /\ getOp'[w][r].table = op.table /\ getOp'[w][r].from = op.from
        /\ getOp'[w][r].to = op.to /\ getOp'[w][r].upto = upto
        /\ op.from \in Nat /\ op.to \in Nat
    BY <1>1, <1>9 DEF GetEnds, In, Shapes, WorkerTypeOK, Tokens
  <2>2. /\ UNCHANGED <<putOp, pull, source>>
        /\ \A i \in op.from .. upto - 1 : <<op.table, i>> \in valid'[w]
    BY <1>1, <1>9 DEF GetEnds, Fill, Shapes
  <2> HIDE DEF op
  <2>3. HoldInv(w, r)'
    <3>1. Books(w, r)'
      BY <1>1, <1>3, <2>1, <2>2 DEF HoldInv, Books
    <3>2. SavesHeld(w, r)'
      BY <1>1, <1>3, <1>4, <1>5, <2>2, DuesSame DEF HoldInv, SavesHeld
    <3>3. OneRelease(w, r)'
      BY <1>1, <1>3, <2>2, DuesSame DEF HoldInv, OneRelease, SentBy
    <3>4. Sources(w, r)'
      BY <1>1, <1>3, <1>5, <2>2, DuesSame DEF HoldInv, Sources
    <3>5. Quiet(w, r)'
      BY <1>1, <1>3, <1>4, <2>1, <2>2, DuesSame DEF HoldInv, Quiet
    <3> QED BY <3>1, <3>2, <3>3, <3>4, <3>5 DEF HoldInv
  <2>4. LoadInv(w, r)'
    <3>1. LoadsNew(w, r)' /\ PlansNew(w, r)'
      BY <1>1, <1>3, <1>5, <2>1, DuesSame DEF LoadInv, LoadsNew, PlansNew, Remote, Awaited
    <3>2. Gets(w, r)'
      <4>1. /\ Remote(r) /\ op.table = TableOf(r) /\ op.from = local[r]
            /\ IF r \in DOMAIN onXfer[w]
               THEN onXfer[w][r].stage = "POOL_LOADING" /\ op.to = onXfer[w][r].plan.H
               ELSE status[r] = "remote" => computed[r] <= op.to
        BY <1>1, <2>1 DEF LoadInv, Gets, op
      <4> QED BY <1>3, <1>5, <2>1, <2>2, <4>1 DEF Gets, Filled, Remote
    <3>3. Transfers(w, r)'
      BY <1>1, <1>2, <1>3, <1>5, <2>1 DEF LoadInv, Transfers, Filled, Awaited, Remote
    <3>4. Pulls(w, r)'
      BY <1>1, <1>2, <1>3, <1>5, <2>2 DEF LoadInv, Pulls, Filled
    <3>5. OneReport(w, r)'
      BY <1>1, <1>3, <2>1, DuesSame DEF LoadInv, OneReport, Loading, Reported, Remote, Awaited
    <3>6. Covers(w, r)'
      BY <1>1, <1>2, <1>3, <1>5 DEF LoadInv, Covers, Covered, Reported, Filled
    <3> QED BY <3>1, <3>2, <3>3, <3>4, <3>5, <3>6 DEF LoadInv
  <2> QED BY <2>3, <2>4
<1>10. CASE w = v /\ r = q /\ PutEnds(w, r)
  <2>1. /\ DOMAIN putOp'[w] = DOMAIN putOp[w]
        /\ r \in DOMAIN putOp[w] => putOp'[w][r].table = putOp[w][r].table
    BY <1>1, <1>10 DEF PutEnds, In, Shapes, WorkerTypeOK
  <2>2. UNCHANGED <<getOp, pull, source>>
    BY <1>10 DEF PutEnds
  <2>3. LoadInv(w, r)'
    BY <1>6, <2>2 DEF SameAt
  <2>4. HoldInv(w, r)'
    <3>1. Books(w, r)'
      BY <1>1, <1>3, <2>1, <2>2 DEF HoldInv, Books
    <3>2. SavesHeld(w, r)'
      BY <1>1, <1>3, <1>4, <1>5, <2>1, DuesSame DEF HoldInv, SavesHeld
    <3>3. OneRelease(w, r)'
      BY <1>1, <1>3, <2>2, DuesSame DEF HoldInv, OneRelease, SentBy
    <3>4. Sources(w, r)'
      BY <1>1, <1>3, <1>5, <2>2, DuesSame DEF HoldInv, Sources
    <3>5. Quiet(w, r)'
      BY <1>1, <1>3, <1>4, <2>1, <2>2, DuesSame DEF HoldInv, Quiet
    <3> QED BY <3>1, <3>2, <3>3, <3>4, <3>5 DEF HoldInv
  <2> QED BY <2>3, <2>4
<1>11. CASE w = v /\ r = q /\ SourceEnds(w, r)
  <2>1. source'[w][r].state = "sent" /\ UNCHANGED <<getOp, pull, putOp>>
    BY <1>1, <1>11 DEF SourceEnds, In, Shapes, WorkerTypeOK
  <2>2. LoadInv(w, r)'
    BY <1>6, <2>1 DEF SameAt
  <2>3. HoldInv(w, r)'
    <3>1. Books(w, r)'
      BY <1>1, <1>3, <2>1 DEF HoldInv, Books
    <3>2. SavesHeld(w, r)'
      BY <1>1, <1>3, <1>4, <1>5, <2>1, DuesSame DEF HoldInv, SavesHeld
    <3>3. OneRelease(w, r)'
      BY <1>1, <1>3, DuesSame DEF HoldInv, OneRelease, SentBy
    <3>4. Sources(w, r)'
      BY <1>1, <1>3, <1>5, <2>1, DuesSame DEF HoldInv, Sources
    <3>5. Quiet(w, r)'
      BY <1>1, <1>3, <1>4, <2>1, DuesSame DEF HoldInv, Quiet
    <3> QED BY <3>1, <3>2, <3>3, <3>4, <3>5 DEF HoldInv
  <2> QED BY <2>2, <2>3
<1>12. ASSUME w = v, r = q, NEW result \in {"ok", "error"}, PullEnds(w, r, result)
       PROVE  LoadInv(w, r)' /\ HoldInv(w, r)'
  <2>1. UNCHANGED <<getOp, putOp, source>>
    BY <1>12 DEF PullEnds
  <2>2. HoldInv(w, r)'
    BY <1>7, <2>1 DEF SameAt
  <2>3. /\ r \in DOMAIN pull[w] /\ DOMAIN pull'[w] = DOMAIN pull[w]
        /\ pull'[w][r].table = pull[w][r].table /\ pull'[w][r].from = pull[w][r].from
        /\ pull'[w][r].to = pull[w][r].to /\ pull'[w][r].state = result
    BY <1>1, <1>12 DEF PullEnds, In, Shapes, WorkerTypeOK
  <2>4. result = "ok" => \A i \in pull[w][r].from .. pull[w][r].to - 1 :
                           <<pull[w][r].table, i>> \in valid'[w]
    BY <1>1, <1>12 DEF PullEnds, Fill, Shapes
  <2>5. LoadInv(w, r)'
    <3>1. LoadsNew(w, r)' /\ PlansNew(w, r)'
      BY <1>1, <1>3, <1>5, <2>1, DuesSame DEF LoadInv, LoadsNew, PlansNew, Remote, Awaited
    <3>2. Gets(w, r)'
      BY <1>1, <1>2, <1>3, <1>5, <2>1 DEF LoadInv, Gets, Filled, Remote
    <3>3. Transfers(w, r)'
      BY <1>1, <1>2, <1>3, <1>5, <2>1 DEF LoadInv, Transfers, Filled, Awaited, Remote
    <3>4. Pulls(w, r)'
      BY <1>1, <1>3, <1>5, <2>3, <2>4 DEF LoadInv, Pulls, Filled
    <3>5. OneReport(w, r)'
      BY <1>1, <1>3, <2>1, DuesSame DEF LoadInv, OneReport, Loading, Reported, Remote, Awaited
    <3>6. Covers(w, r)'
      BY <1>1, <1>2, <1>3, <1>5 DEF LoadInv, Covers, Covered, Reported, Filled
    <3> QED BY <3>1, <3>2, <3>3, <3>4, <3>5, <3>6 DEF LoadInv
  <2> QED BY <2>2, <2>5
<1> QED BY <1>2, <1>8, <1>9, <1>10, <1>11, <1>12

-----------------------------------------------------------------------------
\* The outputs of a step.

\* A cut is at most what was computed, and at most the first invalid block.
LEMMA CutBelow ==
  ASSUME EngineTypeOK, NEW r \in Req
  PROVE  /\ Cut(r) \in Tokens /\ Cut(r) <= computed[r]
         /\ \A i \in Tokens : <<TableOf(r), i>> \in output.invalid => Cut(r) <= i
<1> DEFINE S == {computed[r]} \cup {i \in Tokens : <<TableOf(r), i>> \in output.invalid}
<1>1. S \subseteq Tokens /\ S \subseteq Nat /\ S # {}
  BY EngineAssumption DEF EngineTypeOK, Tokens
<1>2. Min(S) \in S /\ \A y \in S : Min(S) <= y
  BY <1>1, MinIsLeast
<1>3. Cut(r) = Min(S)
  BY DEF Cut
<1> QED BY <1>1, <1>2, <1>3

\* A remote load is left what Cut leaves it, a loaded request all it had.
LEMMA OutputComputed ==
  ASSUME EngineInv, NEW stops \in SUBSET Req, ModelOutput(stops), NEW r \in Req
  PROVE  /\ computed'[r] \in Tokens
         /\ status[r] = "remote" => computed'[r] = Cut(r)
         /\ status[r] = "loaded" => computed'[r] = computed[r]
<1>1. EngineTypeOK /\ InStep(r)
  BY DEF EngineInv, RequestInv
<1>2. computed'[r] = IF r \in DOMAIN scheduled THEN scheduled[r]
                     ELSE IF status[r] = "remote" THEN Cut(r) ELSE computed[r]
  BY DEF ModelOutput
<1> QED BY <1>1, <1>2, CutBelow DEF EngineTypeOK, InStep

\* Requests that may stop are those that ran.
LEMMA OutputRequests ==
  ASSUME EngineInv, NEW stops \in SUBSET Req, ModelOutput(stops)
  PROVE  /\ EngineTypeOK' /\ Shapes' /\ IdsBounded' /\ StepShape'
         /\ \A r \in Req : RequestInv(r)'
<1>1. EngineTypeOK /\ Shapes /\ StepShape
  BY DEF EngineInv
<1>2. EngineTypeOK'
  <2>1. SchedulerTypeOK' /\ WorkerTypeOK'
    BY <1>1, SchedulerSame, WorkerSame DEF ModelOutput, EngineTypeOK
  <2>2. computed' \in [Req -> Tokens]
    <3>1. computed' = [r \in Req |-> computed'[r]]
      BY DEF ModelOutput
    <3> QED BY <3>1, OutputComputed
  <2> QED BY <1>1, <2>1, <2>2 DEF ModelOutput, EngineTypeOK
<1>3. Shapes'
  BY <1>1 DEF ModelOutput, schedVars, workerVars, backends, Shapes
<1>4. IdsBounded'
  BY DEF ModelOutput, schedVars, EngineInv, IdsBounded, TablesUsed
<1>5. StepShape'
  BY <1>1 DEF ModelOutput, schedVars, workerVars, StepShape
<1>6. ASSUME NEW r \in Req PROVE RequestInv(r)'
  <2>1. RequestInv(r)
    BY DEF EngineInv
  <2>2. /\ UNCHANGED <<status, saving, delayed, tracked, traces, transferring, preempting, matched,
                       admitted, ended, metadata, table, loadDecision, xferDecision, remotePrefill,
                       local>>
        /\ stopping' \subseteq DOMAIN scheduled /\ DOMAIN scheduled' = {} /\ phase' = "update"
        /\ matched' = {}
    BY <1>1 DEF ModelOutput, schedVars, trackVars, decideVars, StepShape
  <2>3. InStep(r)'
    BY <2>1, <2>2 DEF RequestInv, InStep
  <2>4. Decided(r)'
    BY <2>1, <2>2 DEF RequestInv, Decided
  <2>5. Remembers(r)'
    BY <2>1, <2>2 DEF RequestInv, Remembers
  <2> QED BY <2>3, <2>4, <2>5 DEF RequestInv
<1> QED BY <1>2, <1>3, <1>4, <1>5, <1>6

\* After the cut all that is computed is filled.
LEMMA OutputRanks ==
  ASSUME EngineInv, NEW stops \in SUBSET Req, ModelOutput(stops), NEW w \in Rank, NEW r \in Req
  PROVE  LoadInv(w, r)' /\ HoldInv(w, r)'
<1> USE EngineAssumption
<1>1. LoadInv(w, r) /\ HoldInv(w, r) /\ EngineTypeOK /\ Shapes /\ StepShape
  BY DEF EngineInv
<1>2. /\ UNCHANGED <<batch, metadata, finishedWaits, getOp, putOp, pull, source, onLoad, onSave,
                     onXfer, waits, valid, output, status, table, local, receivedBy, sentBy,
                     saving, preempting, fenced, ran>>
      /\ phase = "execute" /\ phase' = "update" /\ ran = Rank /\ preempting = {}
  BY <1>1 DEF ModelOutput, schedVars, trackVars, workerVars, backends, StepShape
<1>3. ~Due(w) /\ ~Due(w)'
  BY <1>2 DEF Due
<1>4. /\ LoadsOf(w, r)' = LoadsOf(w, r) /\ PlansOf(w, r)' = PlansOf(w, r)
      /\ SavesOf(w, r)' = SavesOf(w, r) /\ ReadyOf(w, r)' = ReadyOf(w, r)
      /\ WaitsOf(w, r)' = WaitsOf(w, r)
  BY <1>2, <1>3 DEF LoadsOf, PlansOf, SavesOf, ReadyOf, WaitsOf, Keep
<1>5. ~Unfenced(w, r) /\ ~Unfenced(w, r)'
  <2>1. w \in fenced
    BY <1>1, <1>2 DEF EngineTypeOK
  <2> QED BY <1>2, <2>1 DEF Unfenced
<1>6. HoldInv(w, r)'
  <2>1. KeepsHold(w, r)
    BY <1>1, <1>2, <1>4, <1>5 DEF KeepsHold, HoldInv, SavesHeld, SameAt, SentBy
  <2> QED BY <1>1, <2>1, FrameHold
<1>7. /\ computed'[r] \in Tokens /\ computed[r] \in Tokens /\ local[r] \in Tokens
      /\ status[r] = "remote" => computed'[r] = Cut(r)
      /\ status[r] = "loaded" => computed'[r] = computed[r]
      /\ Cut(r) <= computed[r] /\ Cut(r) \in Tokens
      /\ \A i \in Tokens : <<TableOf(r), i>> \in output.invalid => Cut(r) <= i
  BY <1>1, OutputComputed, CutBelow DEF EngineTypeOK
<1>8. KeepsLoad(w, r)
  BY <1>2, <1>4, <1>7 DEF KeepsLoad, SameAt, Reported, Remote
<1>9. Covers(w, r)'
  <2>1. TableOf(r)' = TableOf(r)
    BY <1>2 DEF TableOf
  <2>2. ASSUME status[r] = "remote", Reported(w, r), NEW i \in local[r] .. computed'[r] - 1
        PROVE  Covered(w, r, i)'
    <3>1. i \in local[r] .. computed[r] - 1 /\ i \in Tokens /\ i < Cut(r)
      BY <1>7, <2>2 DEF Tokens
    <3>2. Covered(w, r, i)
      BY <1>1, <2>2, <3>1 DEF LoadInv, Covers
    <3>3. <<TableOf(r), i>> \notin output.invalid
      BY <1>7, <3>1 DEF Tokens
    <3> QED BY <1>2, <2>1, <3>2, <3>3 DEF Covered
  <2>3. status[r] = "loaded" => Filled(w, r, local[r], computed[r])'
    BY <1>1, <1>2, <1>7, <2>1 DEF LoadInv, Covers, Filled
  <2>4. Reported(w, r)' <=> Reported(w, r)
    BY <1>2 DEF Reported
  <2> QED BY <1>2, <1>7, <2>2, <2>3, <2>4 DEF Covers
<1> QED BY <1>1, <1>6, <1>8, <1>9, FrameLoad

Received == Complete(receivedBy, output.received)
Sent     == Complete(sentBy, output.sent)

\* What every rank has reported is over on every rank.
LEMMA ReceivedOver ==
  ASSUME EngineInv, phase = "update", NEW r \in Received, NEW w \in Rank
  PROVE  /\ Remote(r) /\ Reported(w, r)
         /\ LoadsOf(w, r) = {} /\ PlansOf(w, r) = {} /\ SavesOf(w, r) = {}
         /\ r \notin DOMAIN getOp[w] /\ r \notin DOMAIN onXfer[w] /\ r \notin DOMAIN pull[w]
         /\ r \notin onSave[w]
<1>0. r \in Req
  BY DEF Received, Complete
<1>1. LoadInv(w, r) /\ HoldInv(w, r) /\ Remembers(r) /\ StepShape
  BY <1>0 DEF EngineInv, RequestInv
<1>2. Reported(w, r)
  BY DEF Received, Complete, By, Reported
<1>3. Remote(r) /\ ~Loading(w, r)
  BY <1>1, <1>2 DEF LoadInv, OneReport
<1>4. LoadsOf(w, r) = {} /\ r \notin DOMAIN getOp[w]
  BY <1>3 DEF Loading
<1>5. PlansOf(w, r) = {} /\ r \notin DOMAIN onXfer[w]
  BY <1>1, <1>3 DEF Loading, LoadInv, PlansNew, Transfers
<1>6. r \notin DOMAIN pull[w]
  BY <1>1, <1>5 DEF LoadInv, Pulls
<1>7. ~Unfenced(w, r) /\ r \notin saving
  BY <1>1, <1>3 DEF Unfenced, StepShape, Remembers, Remote
<1>8. SavesOf(w, r) = {} /\ r \notin onSave[w]
  BY <1>1, <1>7 DEF HoldInv, SavesHeld
<1> QED BY <1>2, <1>3, <1>4, <1>5, <1>6, <1>8

\* A request that every rank reported as sent was finished.
LEMMA SentOver ==
  ASSUME EngineInv, NEW r \in Sent, NEW w \in Rank
  PROVE  /\ status[r] = "finished" /\ SentBy(w, r)
         /\ WaitsOf(w, r) = {} /\ ReadyOf(w, r) = {} /\ SavesOf(w, r) = {}
         /\ r \notin DOMAIN waits[w] /\ r \notin onSave[w]
         /\ ~(r \in DOMAIN source[w] /\ source[w][r].state = "published")
<1>0. r \in Req
  BY DEF Sent, Complete
<1>1. HoldInv(w, r)
  BY <1>0 DEF EngineInv
<1>2. SentBy(w, r)
  BY DEF Sent, Complete, By, SentBy
<1>3. status[r] = "finished" /\ WaitsOf(w, r) = {} /\ r \notin DOMAIN waits[w] /\ r \notin onSave[w]
  BY <1>1, <1>2 DEF HoldInv, OneRelease
<1>4. ReadyOf(w, r) = {} /\ ~(r \in DOMAIN source[w] /\ source[w][r].state = "published")
  BY <1>1, <1>3 DEF HoldInv, Sources
<1>5. SavesOf(w, r) = {}
  BY <1>1, <1>3 DEF HoldInv, SavesHeld
<1> QED BY <1>2, <1>3, <1>4, <1>5

\* What update_connector_output does to one request.
LEMMA ConnectorShape ==
  ASSUME EngineInv, ConnectorOutput
  PROVE  /\ phase = "update" /\ phase' = "schedule" /\ output' = NoOutput
         /\ \A r \in Received : Remote(r)
         /\ \A r \in Sent : status[r] = "finished"
         /\ Received \subseteq Req /\ Sent \subseteq Req
         /\ \A r \in Req :
              /\ status'[r] = IF r \in Sent \/ (r \in Received /\ status[r] = "aborted") THEN "gone"
                              ELSE IF r \notin Received THEN status[r]
                              ELSE IF computed[r] = 0 THEN "waiting" ELSE "loaded"
              /\ receivedBy'[r] = IF r \in Received THEN {} ELSE By(receivedBy, output.received, r)
              /\ sentBy'[r] = IF r \in Sent THEN {} ELSE By(sentBy, output.sent, r)
         /\ tracked' = Without(tracked, Sent)
         /\ DOMAIN traces' \subseteq DOMAIN traces \ Sent
         /\ saving' = saving \ Sent /\ transferring' = transferring \ Sent
         /\ delayed' = delayed \ Sent /\ finishedWaits' = Without(finishedWaits, Sent)
         /\ UNCHANGED <<kind, remotePrefill, loadDecision, xferDecision, nextLoadId, batch, metadata,
                        getOp, putOp, pull, source, onLoad, onSave, onXfer, waits, valid, table,
                        local, computed, scheduled, matched, admitted, preempting, ended, stopping,
                        fenced, ran>>
<1>1. phase = "update"
  BY DEF ConnectorOutput
<1>2. \A r \in Received : Remote(r)
  BY <1>1, ReceivedOver, EngineAssumption
<1>3. \A r \in Sent : status[r] = "finished"
  BY SentOver, EngineAssumption
<1>4. Received \subseteq Req /\ Sent \subseteq Req
  BY DEF Received, Sent, Complete
<1>5. UpdateConnectorOutput(output.reports, Sent)
  BY DEF ConnectorOutput, Sent
<1>6. /\ tracked' = Without(tracked, Sent)
      /\ DOMAIN traces' \subseteq DOMAIN traces \ Sent
      /\ saving' = saving \ Sent /\ transferring' = transferring \ Sent
      /\ delayed' = delayed \ Sent /\ finishedWaits' = Without(finishedWaits, Sent)
      /\ UNCHANGED <<kind, remotePrefill, loadDecision, xferDecision, nextLoadId, batch, metadata>>
  BY <1>5 DEF UpdateConnectorOutput, decideVars
<1>7. /\ phase' = "schedule" /\ output' = NoOutput
      /\ UNCHANGED <<getOp, putOp, pull, source, onLoad, onSave, onXfer, waits, valid, table,
                     local, computed, scheduled, matched, admitted, preempting, ended, stopping,
                     fenced, ran>>
  BY DEF ConnectorOutput, backends
<1>8. ASSUME NEW r \in Req
      PROVE  /\ status'[r] = IF r \in Sent \/ (r \in Received /\ status[r] = "aborted") THEN "gone"
                             ELSE IF r \notin Received THEN status[r]
                             ELSE IF computed[r] = 0 THEN "waiting" ELSE "loaded"
             /\ receivedBy'[r] = IF r \in Received THEN {} ELSE By(receivedBy, output.received, r)
             /\ sentBy'[r] = IF r \in Sent THEN {} ELSE By(sentBy, output.sent, r)
  BY DEF ConnectorOutput, Received, Sent
<1> QED BY <1>1, <1>2, <1>3, <1>4, <1>6, <1>7, <1>8

\* Requests that are over are forgotten, others stay remembered.
LEMMA ConnectorRequests ==
  ASSUME EngineInv, ConnectorOutput
  PROVE  /\ EngineTypeOK' /\ Shapes' /\ IdsBounded' /\ StepShape'
         /\ \A r \in Req : RequestInv(r)'
<1>1. EngineTypeOK /\ Shapes /\ StepShape /\ SchedulerTypeOK
  BY DEF EngineInv, EngineTypeOK
<1>2. SchedulerTypeOK'
  <2>1. \A r \in DOMAIN traces' : traces'[r] \in [id : LoadId, reports : SUBSET Rank]
    <3>1. \A r : Counted(output.reports, r) \subseteq Rank
      BY <1>1 DEF Counted, Shapes
    <3>2. ASSUME NEW r \in DOMAIN traces'
          PROVE  /\ r \in DOMAIN traces
                 /\ traces'[r] = [traces[r] EXCEPT !.reports = traces[r].reports
                                                               \cup Counted(output.reports, r)]
      BY DEF ConnectorOutput, UpdateConnectorOutput
    <3> QED BY <1>1, <3>1, <3>2 DEF SchedulerTypeOK
  <2>2. /\ DOMAIN tracked' \subseteq DOMAIN tracked
        /\ \A r \in DOMAIN tracked' : tracked'[r] = tracked[r]
        /\ DOMAIN finishedWaits' \subseteq DOMAIN finishedWaits
        /\ \A r \in DOMAIN finishedWaits' : finishedWaits'[r] = finishedWaits[r]
    BY ConnectorShape DEF Without
  <2> QED BY <1>1, <2>1, <2>2, ConnectorShape DEF SchedulerTypeOK
<1>3. EngineTypeOK'
  <2>1. WorkerTypeOK'
    BY <1>1, ConnectorShape DEF EngineTypeOK, WorkerTypeOK
  <2>2. /\ status' \in [Req -> {"waiting", "remote", "loaded", "running", "finished", "aborted", "gone"}]
        /\ receivedBy' \in [Req -> SUBSET Rank] /\ sentBy' \in [Req -> SUBSET Rank]
    <3>1. /\ status' = [r \in Req |-> status'[r]] /\ receivedBy' = [r \in Req |-> receivedBy'[r]]
          /\ sentBy' = [r \in Req |-> sentBy'[r]]
      BY DEF ConnectorOutput
    <3>2. ASSUME NEW r \in Req
          PROVE  /\ status'[r] \in {"waiting", "remote", "loaded", "running", "finished", "aborted", "gone"}
                 /\ receivedBy'[r] \in SUBSET Rank /\ sentBy'[r] \in SUBSET Rank
      BY <1>1, ConnectorShape DEF EngineTypeOK, By
    <3> QED BY <3>1, <3>2
  <2> QED BY <1>1, <1>2, <2>1, <2>2, ConnectorShape DEF EngineTypeOK
<1>4. Shapes'
  BY <1>1, ConnectorShape DEF Shapes, NoOutput
<1>5. IdsBounded'
  BY ConnectorShape DEF EngineInv, IdsBounded, TablesUsed
<1>6. StepShape'
  BY <1>1, ConnectorShape DEF StepShape, ConnectorOutput
<1>7. ASSUME NEW r \in Req PROVE RequestInv(r)'
  <2>1. RequestInv(r)
    BY DEF EngineInv
  <2>2. /\ preempting = {} /\ DOMAIN scheduled = {} /\ stopping = {} /\ matched = {} /\ admitted = {}
    BY <1>1, ConnectorShape DEF StepShape, ConnectorOutput
  <2>3. /\ r \notin Received => status'[r] = IF r \in Sent THEN "gone" ELSE status[r]
        /\ r \in Received => /\ status[r] \in {"remote", "aborted"}
                             /\ status[r] = "aborted" => status'[r] = "gone"
                             /\ status'[r] \in {"gone", "waiting", "loaded"}
        /\ r \in Sent => status[r] = "finished" /\ r \notin Received
    BY ConnectorShape DEF Remote
  <2>4. InStep(r)'
    BY <2>1, <2>2, <2>3, ConnectorShape DEF RequestInv, InStep
  <2>5. Decided(r)'
    BY <2>1, <2>2, <2>3, ConnectorShape DEF RequestInv, Decided
  <2>6. Remembers(r)'
    <3>1. /\ DOMAIN tracked' = DOMAIN tracked \ Sent
      BY ConnectorShape DEF Without
    <3>2. /\ r \in saving => status[r] \in {"running", "finished"}
          /\ r \in delayed => status[r] = "finished"
          /\ status[r] \in {"aborted", "gone"} =>
               r \notin DOMAIN tracked \cup DOMAIN traces \cup saving \cup transferring
      BY <2>1, <2>2 DEF RequestInv, Remembers
    <3>3. status'[r] = "gone" => r \in Sent \/ status[r] \in {"aborted", "gone"}
      BY ConnectorShape
    <3> QED BY <2>3, <3>1, <3>2, <3>3, ConnectorShape DEF Remembers
  <2> QED BY <2>4, <2>5, <2>6 DEF RequestInv
<1> QED BY <1>3, <1>4, <1>5, <1>6, <1>7

\* A load ends when every rank has reported it.
LEMMA ConnectorRanks ==
  ASSUME EngineInv, ConnectorOutput, NEW w \in Rank, NEW r \in Req
  PROVE  LoadInv(w, r)' /\ HoldInv(w, r)'
<1> USE EngineAssumption
<1>1. LoadInv(w, r) /\ HoldInv(w, r) /\ EngineTypeOK /\ Shapes /\ StepShape
  BY DEF EngineInv
<1>2. /\ UNCHANGED <<batch, metadata, getOp, putOp, pull, source, onLoad, onSave, onXfer, waits,
                     valid, table, local, computed, preempting, fenced, ran>>
      /\ phase = "update" /\ phase' = "schedule" /\ preempting = {} /\ output' = NoOutput
  BY <1>1, ConnectorShape DEF StepShape
<1>3. /\ status'[r] = IF r \in Sent \/ (r \in Received /\ status[r] = "aborted") THEN "gone"
                      ELSE IF r \notin Received THEN status[r]
                      ELSE IF computed[r] = 0 THEN "waiting" ELSE "loaded"
      /\ r \in Received => Remote(r) /\ r \notin Sent
      /\ r \in Sent => status[r] = "finished"
  BY ConnectorShape DEF Remote
<1>4. /\ LoadsOf(w, r)' = LoadsOf(w, r) /\ PlansOf(w, r)' = PlansOf(w, r)
      /\ SavesOf(w, r)' = SavesOf(w, r) /\ ReadyOf(w, r)' = ReadyOf(w, r)
  BY <1>2 DEF LoadsOf, PlansOf, SavesOf, ReadyOf, Due
<1>5. WaitsOf(w, r)' = WaitsOf(w, r)
  <2>1. finishedWaits' = Without(finishedWaits, Sent)
    BY ConnectorShape
  <2>2. r \in Sent => WaitsOf(w, r) = {}
    BY SentOver
  <2> QED BY <1>2, <2>1, <2>2 DEF WaitsOf, Due, Without, Keep
<1>6. ~Unfenced(w, r) /\ ~Unfenced(w, r)'
  BY <1>2 DEF Unfenced
<1>7. r \notin Received => (Reported(w, r)' <=> Reported(w, r))
  <2>1. receivedBy'[r] = IF r \in Received THEN {} ELSE By(receivedBy, output.received, r)
    BY ConnectorShape
  <2> QED BY <1>2, <2>1 DEF Reported, By, NoOutput
<1>8. r \notin Sent => (SentBy(w, r)' <=> SentBy(w, r))
  <2>1. sentBy'[r] = IF r \in Sent THEN {} ELSE By(sentBy, output.sent, r)
    BY ConnectorShape
  <2> QED BY <1>2, <2>1 DEF SentBy, By, NoOutput
<1>9. TableOf(r)' = TableOf(r)
  BY <1>2 DEF TableOf
<1>10. computed[r] \in Tokens /\ computed[r] <= computed[r]
  BY <1>1 DEF EngineTypeOK, Tokens
<1>11. LoadInv(w, r)'
  <2>1. CASE r \notin Received
    <3>1. KeepsLoad(w, r) /\ KeepsCover(w, r)
      BY <1>2, <1>3, <1>4, <1>7, <1>10, <2>1 DEF KeepsLoad, KeepsCover, SameAt, Remote, NoOutput
    <3>2. Covers(w, r)'
      BY <1>1, <3>1, FrameCovers DEF LoadInv
    <3> QED BY <1>1, <3>1, <3>2, FrameLoad
  <2>2. CASE r \in Received
    <3>1. /\ LoadsOf(w, r)' = {} /\ PlansOf(w, r)' = {} /\ r \notin DOMAIN getOp'[w]
          /\ r \notin DOMAIN onXfer'[w] /\ r \notin DOMAIN pull'[w]
      BY <1>2, <1>4, <2>2, ReceivedOver
    <3>2. ~Reported(w, r)' /\ ~Remote(r)'
      <4>1. receivedBy'[r] = {}
        BY <2>2, ConnectorShape
      <4> QED BY <1>2, <1>3, <2>2, <4>1 DEF Reported, Remote, NoOutput
    <3>3. Covers(w, r)'
      <4>1. Reported(w, r)
        BY <1>2, <2>2, ReceivedOver
      <4>2. status'[r] = "loaded" => Filled(w, r, local[r], computed[r])
        BY <1>1, <1>2, <1>3, <2>2, <4>1 DEF LoadInv, Covers, Covered, Filled, Remote
      <4> QED BY <1>2, <1>9, <3>2, <4>2 DEF Covers, Filled, Remote
    <3> QED BY <3>1, <3>2, <3>3
            DEF LoadInv, LoadsNew, PlansNew, Gets, Transfers, Pulls, OneReport, Reported
  <2> QED BY <2>1, <2>2
<1>12. CASE r \notin Received /\ r \notin Sent
  <2>1. KeepsHold(w, r)
    <3>1. r \in saving => r \in saving'
      BY <1>12, ConnectorShape
    <3>3. status'[r] = status[r]
      BY <1>3, <1>12
    <3> QED BY <1>1, <1>2, <1>4, <1>5, <1>6, <1>8, <1>12, <3>1, <3>3
            DEF KeepsHold, HoldInv, SavesHeld, SameAt, NoOutput
  <2> QED BY <1>1, <1>11, <2>1, FrameHold
<1>13. CASE r \in Received
  <2>1. /\ r \notin DOMAIN getOp[w] /\ r \notin DOMAIN onXfer[w] /\ r \notin onSave[w]
        /\ SavesOf(w, r) = {} /\ PlansOf(w, r) = {}
    BY <1>2, <1>13, ReceivedOver
  <2>2. status[r] # "finished" /\ status'[r] # "finished" /\ r \notin Sent
    BY <1>3, <1>13 DEF Remote
  <2>3. Books(w, r)'
    BY <1>1, <1>2 DEF HoldInv, Books
  <2>4. SavesHeld(w, r)'
    BY <1>1, <1>2, <1>4, <1>9, <2>1 DEF HoldInv, SavesHeld
  <2>5. OneRelease(w, r)'
    BY <1>1, <1>2, <1>5, <1>8, <2>2 DEF HoldInv, OneRelease, SentBy
  <2>6. Sources(w, r)'
    BY <1>1, <1>2, <1>4, <1>5, <1>9 DEF HoldInv, Sources
  <2>7. Quiet(w, r)'
    BY <1>2, <1>4, <2>1 DEF Quiet
  <2> QED BY <1>11, <2>3, <2>4, <2>5, <2>6, <2>7 DEF HoldInv
<1>14. CASE r \in Sent
  <2>1. /\ WaitsOf(w, r) = {} /\ ReadyOf(w, r) = {} /\ SavesOf(w, r) = {}
        /\ r \notin DOMAIN waits[w] /\ r \notin onSave[w]
        /\ ~(r \in DOMAIN source[w] /\ source[w][r].state = "published")
    BY <1>14, SentOver
  <2>2. status'[r] = "gone" /\ ~SentBy(w, r)'
    <3>1. sentBy'[r] = {}
      BY <1>14, ConnectorShape
    <3> QED BY <1>2, <1>3, <1>14, <3>1 DEF SentBy, NoOutput
  <2>3. Books(w, r)'
    BY <1>1, <1>2 DEF HoldInv, Books
  <2>4. SavesHeld(w, r)'
    BY <1>1, <1>2, <1>4, <1>9, <2>1 DEF HoldInv, SavesHeld
  <2>5. OneRelease(w, r)'
    BY <1>2, <1>5, <2>1, <2>2 DEF OneRelease, SentBy
  <2>6. Sources(w, r)'
    BY <1>2, <1>4, <2>1 DEF Sources
  <2>7. Quiet(w, r)'
    BY <1>2, <2>2 DEF Quiet
  <2> QED BY <1>11, <2>3, <2>4, <2>5, <2>6, <2>7 DEF HoldInv
<1> QED BY <1>12, <1>13, <1>14

-----------------------------------------------------------------------------
\* get_finished on a rank.

Got(v)     == In(getOp[v], "done")
SavesIn    == Reqs(metadata.saves)
Put(v)     == In(putOp[v], "done") \ SavesIn
Pulled(v)  == In(pull[v], "ok") \cup In(pull[v], "error")
SentNow(v) == In(source[v], "sent")
Starts(v)  == {r \in DOMAIN WithPlans(v) :
                 \/ WithPlans(v)[r].stage = "POOL_DONE"
                 \/ WithPlans(v)[r].stage = "POOL_LOADING" /\ r \in Got(v)}
Prefix(v, r) == IF WithPlans(v)[r].stage = "POOL_DONE" THEN WithPlans(v)[r].plan.L
                ELSE ActualPrefix(getOp[v][r])
Ended(v)   == Pulled(v) \cap DOMAIN WithPlans(v)
Plain(v)   == Got(v) \ DOMAIN WithPlans(v)
PoolErrors(v) == (UNION {Missed(getOp[v][r]) : r \in Got(v)})
                 \ (UNION {Candidates(WithPlans(v)[r].plan) : r \in DOMAIN WithPlans(v)})
Suffix(v, r) == {<<WithPlans(v)[r].plan.table, i>> :
                   i \in WithPlans(v)[r].A .. WithPlans(v)[r].plan.T - 1}
Settled(v) == [r \in DOMAIN WithWaits(v) |->
                 [WithWaits(v)[r] EXCEPT !.saveDone = @ \/ r \in Put(v),
                                         !.xferDone = @ \/ r \in SentNow(v)]]
Released(v) == {r \in DOMAIN Settled(v) : WaitOver(Settled(v)[r])}
NewGet(r) == LET x == Of(metadata.loads, r)
             IN  [table |-> x.table, from |-> x.from, to |-> x.to, upto |-> x.from, state |-> "busy"]

\* get_finished, variable by variable.
LEMMA ExecFields ==
  ASSUME Shapes, NEW v \in Rank, GetFinished(v)
  PROVE  /\ getOp'[v] = Over([r \in Reqs(metadata.loads) |-> NewGet(r)], Without(getOp[v], Got(v)))
         /\ putOp'[v] = Over([r \in SavesIn |-> Op(Of(metadata.saves, r).table, "busy")],
                             Without(putOp[v], Put(v)))
         /\ pull'[v] = Over([r \in Starts(v) |->
                               [table |-> WithPlans(v)[r].plan.table, from |-> Prefix(v, r),
                                to |-> WithPlans(v)[r].plan.T, state |-> "busy"]],
                            Without(pull[v], Pulled(v)))
         /\ source'[v] = Without(WithSources(v), SentNow(v))
         /\ onLoad'[v] = Without(WithLoads(v), Got(v))
         /\ onSave'[v] = (onSave[v] \cup SavesIn) \ Put(v)
         /\ onXfer'[v] = [r \in DOMAIN WithPlans(v) \ Ended(v) |->
                            IF r \in Starts(v)
                            THEN [WithPlans(v)[r] EXCEPT !.stage = "TRANSFER_LOADING",
                                                         !.A = Prefix(v, r)]
                            ELSE WithPlans(v)[r]]
         /\ waits'[v] = Without(Settled(v), Released(v))
<1>1. getOp'[v] = Over([r \in Reqs(metadata.loads) |-> NewGet(r)], Without(getOp[v], Got(v)))
  BY DEF Shapes, GetFinished, Got, NewGet
<1>2. putOp'[v] = Over([r \in SavesIn |-> Op(Of(metadata.saves, r).table, "busy")],
                       Without(putOp[v], Put(v)))
  BY DEF Shapes, GetFinished, Put, SavesIn
<1>3. pull'[v] = Over([r \in Starts(v) |->
                         [table |-> WithPlans(v)[r].plan.table, from |-> Prefix(v, r),
                          to |-> WithPlans(v)[r].plan.T, state |-> "busy"]],
                      Without(pull[v], Pulled(v)))
  BY DEF Shapes, GetFinished, Starts, Prefix, Pulled, Got
<1>4. source'[v] = Without(WithSources(v), SentNow(v))
  BY DEF Shapes, GetFinished, SentNow
<1>5. onLoad'[v] = Without(WithLoads(v), Got(v))
  BY DEF Shapes, GetFinished, Got
<1>6. onSave'[v] = (onSave[v] \cup SavesIn) \ Put(v)
  BY DEF Shapes, GetFinished, Put, SavesIn
<1>7. onXfer'[v] = [r \in DOMAIN WithPlans(v) \ Ended(v) |->
                      IF r \in Starts(v)
                      THEN [WithPlans(v)[r] EXCEPT !.stage = "TRANSFER_LOADING",
                                                   !.A = Prefix(v, r)]
                      ELSE WithPlans(v)[r]]
  BY DEF Shapes, GetFinished, Starts, Prefix, Pulled, Got, Ended
<1>8. waits'[v] = Without(Settled(v), Released(v))
  BY DEF Shapes, GetFinished, Settled, Released, Put, SavesIn, SentNow
<1> QED BY <1>1, <1>2, <1>3, <1>4, <1>5, <1>6, <1>7, <1>8

\* ... and the output of the rank.
LEMMA ExecOutput ==
  ASSUME NEW v \in Rank, GetFinished(v)
  PROVE  /\ output'.invalid = output.invalid \cup PoolErrors(v)
                              \cup UNION {Suffix(v, r) : r \in Ended(v) \cap In(pull[v], "error")}
         /\ output'.sent = output.sent \cup {<<v, r>> : r \in Released(v)}
         /\ output'.received = output.received
                               \cup {<<v, r>> : r \in Plain(v)
                                       \cup {x \in Ended(v) : Awaited(WithPlans(v)[x].plan)}}
         /\ output'.reports = output.reports
                              \cup {Report(v, r, WithLoads(v)[r].id) :
                                      r \in Plain(v) \cap DOMAIN WithLoads(v)}
                              \cup {Report(v, r, WithPlans(v)[r].plan.id) : r \in Ended(v)}
<1>1. output'.invalid = output.invalid \cup PoolErrors(v)
                        \cup UNION {Suffix(v, r) : r \in Ended(v) \cap In(pull[v], "error")}
  BY DEF GetFinished, PoolErrors, Suffix, Ended, Pulled, Got
<1>2. output'.sent = output.sent \cup {<<v, r>> : r \in Released(v)}
  BY DEF GetFinished, Settled, Released, Put, SavesIn, SentNow
<1>3. output'.received = output.received
                         \cup {<<v, r>> : r \in Plain(v)
                                 \cup {x \in Ended(v) : Awaited(WithPlans(v)[x].plan)}}
  BY DEF GetFinished, Plain, Ended, Pulled, Got
<1>4. output'.reports = output.reports
                        \cup {Report(v, r, WithLoads(v)[r].id) :
                                r \in Plain(v) \cap DOMAIN WithLoads(v)}
                        \cup {Report(v, r, WithPlans(v)[r].plan.id) : r \in Ended(v)}
  BY DEF GetFinished, Plain, Ended, Pulled, Got
<1> QED BY <1>1, <1>2, <1>3, <1>4

\* The other ranks.
LEMMA ExecOthers ==
  ASSUME Shapes, NEW v \in Rank, GetFinished(v), NEW w \in Rank \ {v}
  PROVE  /\ getOp'[w] = getOp[w] /\ putOp'[w] = putOp[w] /\ pull'[w] = pull[w]
         /\ source'[w] = source[w] /\ onLoad'[w] = onLoad[w] /\ onSave'[w] = onSave[w]
         /\ onXfer'[w] = onXfer[w] /\ waits'[w] = waits[w]
BY DEF Shapes, GetFinished

\* The variables stay functions of the rank.
LEMMA ExecFrame ==
  ASSUME Shapes, NEW v \in Rank, GetFinished(v)
  PROVE  /\ getOp' = [w \in Rank |-> getOp'[w]] /\ putOp' = [w \in Rank |-> putOp'[w]]
         /\ pull' = [w \in Rank |-> pull'[w]] /\ source' = [w \in Rank |-> source'[w]]
         /\ onLoad' = [w \in Rank |-> onLoad'[w]] /\ onXfer' = [w \in Rank |-> onXfer'[w]]
         /\ waits' = [w \in Rank |-> waits'[w]] /\ onSave' = [w \in Rank |-> onSave'[w]]
         /\ valid' = valid
BY DEF Shapes, GetFinished

\* What the rank that runs has due, and that nothing is due afterwards.
LEMMA ExecDues ==
  ASSUME EngineInv, NEW v \in Rank, Execute(v), NEW r \in Req
  PROVE  /\ LoadsOf(v, r) = {x \in metadata.loads : x.req = r}
         /\ PlansOf(v, r) = {x \in metadata.plans : x.req = r}
         /\ SavesOf(v, r) = {x \in metadata.saves : x.req = r}
         /\ ReadyOf(v, r) = {x \in metadata.states : x.req = r /\ x.state = "ready"}
         /\ WaitsOf(v, r) = {metadata.waits[x] : x \in DOMAIN metadata.waits \cap {r}}
         /\ LoadsOf(v, r)' = {} /\ PlansOf(v, r)' = {} /\ SavesOf(v, r)' = {}
         /\ ReadyOf(v, r)' = {} /\ WaitsOf(v, r)' = {}
         /\ ~Unfenced(v, r)
<1>1. batch = NoBatch /\ DOMAIN finishedWaits = {} /\ preempting = {}
  BY DEF EngineInv, StepShape, Execute
<1>2. Due(v) /\ ~Due(v)' /\ UNCHANGED <<batch, finishedWaits, metadata>>
  BY DEF Due, Execute, schedVars
<1>3. /\ LoadsOf(v, r) = {x \in metadata.loads : x.req = r} /\ LoadsOf(v, r)' = {}
  BY <1>1, <1>2 DEF LoadsOf, Keep, NoBatch
<1>4. /\ PlansOf(v, r) = {x \in metadata.plans : x.req = r} /\ PlansOf(v, r)' = {}
  BY <1>1, <1>2 DEF PlansOf, Keep, NoBatch
<1>5. /\ SavesOf(v, r) = {x \in metadata.saves : x.req = r} /\ SavesOf(v, r)' = {}
  BY <1>1, <1>2 DEF SavesOf, Keep, NoBatch
<1>6. /\ ReadyOf(v, r) = {x \in metadata.states : x.req = r /\ x.state = "ready"}
      /\ ReadyOf(v, r)' = {}
  BY <1>1, <1>2 DEF ReadyOf, Keep, NoBatch
<1>7. /\ WaitsOf(v, r) = {metadata.waits[x] : x \in DOMAIN metadata.waits \cap {r}}
      /\ WaitsOf(v, r)' = {}
  BY <1>1, <1>2 DEF WaitsOf, Keep, NoBatch
<1>8. ~Unfenced(v, r)
  BY <1>1 DEF Unfenced, Execute
<1> QED BY <1>3, <1>4, <1>5, <1>6, <1>7, <1>8

\* The plans of a rank, new ones included.
LEMMA PlansEntry ==
  ASSUME EngineInv, NEW v \in Rank, Execute(v), NEW r \in Req
  PROVE  /\ r \in DOMAIN WithPlans(v) <=> r \in DOMAIN onXfer[v] \/ PlansOf(v, r) # {}
         /\ r \in DOMAIN onXfer[v] => PlansOf(v, r) = {} /\ WithPlans(v)[r] = onXfer[v][r]
         /\ PlansOf(v, r) # {} => \E p \in PlansOf(v, r) :
              WithPlans(v)[r] = [plan |-> p, stage |-> Stage(p), A |-> p.L]
<1>1. PlansNew(v, r)
  BY DEF EngineInv, LoadInv
<1>2. r \in DOMAIN onXfer[v] => PlansOf(v, r) = {}
  BY <1>1 DEF PlansNew
<1>3. PlansOf(v, r) = {x \in metadata.plans : x.req = r}
  BY ExecDues
<1>4. r \in Reqs(NewPlans(v)) <=> PlansOf(v, r) # {}
  BY <1>2, <1>3 DEF Reqs, NewPlans
<1>5. PlansOf(v, r) # {} => Of(NewPlans(v), r) \in PlansOf(v, r)
  <2> SUFFICES ASSUME PlansOf(v, r) # {} PROVE Of(NewPlans(v), r) \in PlansOf(v, r)
    OBVIOUS
  <2>1. Of(NewPlans(v), r) \in NewPlans(v) /\ Of(NewPlans(v), r).req = r
    BY <1>4, OneOf
  <2> QED BY <1>3, <2>1 DEF NewPlans
<1>6. DOMAIN WithPlans(v) = Reqs(NewPlans(v)) \cup DOMAIN onXfer[v]
  BY DEF WithPlans, Over
<1>7. r \in Reqs(NewPlans(v)) =>
        WithPlans(v)[r] = [plan |-> Of(NewPlans(v), r), stage |-> Stage(Of(NewPlans(v), r)),
                           A |-> Of(NewPlans(v), r).L]
  BY DEF WithPlans, Over
<1>8. r \in DOMAIN onXfer[v] /\ r \notin Reqs(NewPlans(v)) => WithPlans(v)[r] = onXfer[v][r]
  BY DEF WithPlans, Over
<1> QED BY <1>2, <1>4, <1>5, <1>6, <1>7, <1>8

\* Where the plan of a request is, for a rank that runs.
LEMMA PlansShape ==
  ASSUME EngineInv, NEW v \in Rank, Execute(v), NEW r \in DOMAIN WithPlans(v)
  PROVE  /\ r \in Req /\ WithPlans(v)[r].plan.table = TableOf(r)
         /\ WithPlans(v)[r] \in [plan : TransferPlan,
                                 stage : {"POOL_LOADING", "POOL_DONE", "TRANSFER_LOADING"},
                                 A : Tokens]
<1>1. EngineTypeOK /\ Shapes /\ SchedulerTypeOK /\ WorkerTypeOK
  BY DEF EngineInv, EngineTypeOK
<1>2. r \in Req
  BY <1>1 DEF WithPlans, Over, Reqs, NewPlans, Shapes, SchedulerTypeOK, TransferPlan
<1>3. LoadInv(v, r)
  BY <1>2 DEF EngineInv
<1>4. CASE r \in DOMAIN onXfer[v]
  <2>1. WithPlans(v)[r] = onXfer[v][r]
    BY <1>2, <1>4, PlansEntry
  <2> QED BY <1>1, <1>2, <1>3, <1>4, <2>1 DEF WorkerTypeOK, LoadInv, Transfers
<1>5. CASE PlansOf(v, r) # {}
  <2>1. PICK p \in PlansOf(v, r) : WithPlans(v)[r] = [plan |-> p, stage |-> Stage(p), A |-> p.L]
    BY <1>2, <1>5, PlansEntry
  <2>2. p \in TransferPlan /\ p.L \in Tokens
    BY <1>1, <1>2, DueTypes DEF TransferPlan
  <2>3. p.table = TableOf(r)
    BY <1>3 DEF LoadInv, PlansNew
  <2> QED BY <1>2, <2>1, <2>2, <2>3 DEF Stage
<1> QED BY <1>2, <1>4, <1>5, PlansEntry

\* The GETs of a rank.
LEMMA GetsEntry ==
  ASSUME EngineInv, NEW v \in Rank, Execute(v), NEW r \in Req
  PROVE  /\ r \in DOMAIN getOp'[v] <=> LoadsOf(v, r) # {} \/ (r \in DOMAIN getOp[v] /\ r \notin Got(v))
         /\ LoadsOf(v, r) # {} => r \notin DOMAIN getOp[v] /\ \E x \in LoadsOf(v, r) :
              getOp'[v][r] = [table |-> x.table, from |-> x.from, to |-> x.to, upto |-> x.from,
                              state |-> "busy"]
         /\ LoadsOf(v, r) = {} /\ r \in DOMAIN getOp'[v] => getOp'[v][r] = getOp[v][r]
         /\ r \in Got(v) => r \in DOMAIN getOp[v]
<1>1. getOp'[v] = Over([x \in Reqs(metadata.loads) |-> NewGet(x)], Without(getOp[v], Got(v)))
  BY ExecFields DEF EngineInv, Execute
<1>2. r \in Reqs(metadata.loads) <=> LoadsOf(v, r) # {}
  BY ExecDues DEF Reqs
<1>3. LoadsOf(v, r) # {} => r \notin DOMAIN getOp[v]
  BY DEF EngineInv, LoadInv, LoadsNew
<1>4. LoadsOf(v, r) # {} => Of(metadata.loads, r) \in LoadsOf(v, r)
  BY <1>2, OneOf, ExecDues
<1>5. DOMAIN getOp'[v] = Reqs(metadata.loads) \cup (DOMAIN getOp[v] \ Got(v))
  BY <1>1 DEF Over, Without
<1>6. /\ r \in Reqs(metadata.loads) => getOp'[v][r] = NewGet(r)
      /\ r \in DOMAIN getOp[v] \ Got(v) /\ r \notin Reqs(metadata.loads) =>
           getOp'[v][r] = getOp[v][r]
  BY <1>1 DEF Over, Without
<1>7. r \in Got(v) => r \in DOMAIN getOp[v]
  BY DEF Got, In
<1>8. LoadsOf(v, r) # {} =>
        \E x \in LoadsOf(v, r) :
              getOp'[v][r] = [table |-> x.table, from |-> x.from, to |-> x.to, upto |-> x.from,
                              state |-> "busy"]
  BY <1>2, <1>4, <1>6 DEF NewGet
<1> QED BY <1>2, <1>3, <1>5, <1>6, <1>7, <1>8

\* The plans and the receives after the step.
LEMMA XfersEntry ==
  ASSUME EngineInv, NEW v \in Rank, Execute(v), NEW r \in Req
  PROVE  /\ r \in DOMAIN onXfer'[v] <=> r \in DOMAIN WithPlans(v) /\ r \notin Pulled(v)
         /\ r \in DOMAIN onXfer'[v] /\ r \notin Starts(v) => onXfer'[v][r] = WithPlans(v)[r]
         /\ r \in DOMAIN onXfer'[v] /\ r \in Starts(v) =>
              onXfer'[v][r] = [WithPlans(v)[r] EXCEPT !.stage = "TRANSFER_LOADING",
                                                      !.A = Prefix(v, r)]
         /\ r \in DOMAIN pull'[v] <=> r \in Starts(v) \/ (r \in DOMAIN pull[v] /\ r \notin Pulled(v))
         /\ r \in Starts(v) =>
              pull'[v][r] = [table |-> WithPlans(v)[r].plan.table, from |-> Prefix(v, r),
                             to |-> WithPlans(v)[r].plan.T, state |-> "busy"]
         /\ r \notin Starts(v) /\ r \in DOMAIN pull'[v] => pull'[v][r] = pull[v][r]
         /\ r \in Pulled(v) => r \in DOMAIN pull[v] /\ pull[v][r].state # "busy"
         /\ r \in DOMAIN pull[v] /\ r \notin Pulled(v) => pull[v][r].state = "busy"
<1>1. EngineTypeOK /\ Shapes /\ WorkerTypeOK
  BY DEF EngineInv, EngineTypeOK
<1>2. /\ pull'[v] = Over([x \in Starts(v) |->
                           [table |-> WithPlans(v)[x].plan.table, from |-> Prefix(v, x),
                            to |-> WithPlans(v)[x].plan.T, state |-> "busy"]],
                        Without(pull[v], Pulled(v)))
      /\ onXfer'[v] = [x \in DOMAIN WithPlans(v) \ Ended(v) |->
                         IF x \in Starts(v)
                         THEN [WithPlans(v)[x] EXCEPT !.stage = "TRANSFER_LOADING",
                                                      !.A = Prefix(v, x)]
                         ELSE WithPlans(v)[x]]
  BY <1>1, ExecFields DEF Execute
<1>3. /\ r \in DOMAIN onXfer'[v] <=> r \in DOMAIN WithPlans(v) /\ r \notin Pulled(v)
      /\ r \in DOMAIN onXfer'[v] /\ r \notin Starts(v) => onXfer'[v][r] = WithPlans(v)[r]
      /\ r \in DOMAIN onXfer'[v] /\ r \in Starts(v) =>
           onXfer'[v][r] = [WithPlans(v)[r] EXCEPT !.stage = "TRANSFER_LOADING",
                                                   !.A = Prefix(v, r)]
  BY <1>2 DEF Ended
<1>4. /\ r \in DOMAIN pull'[v] <=> r \in Starts(v) \/ (r \in DOMAIN pull[v] /\ r \notin Pulled(v))
      /\ r \in Starts(v) =>
           pull'[v][r] = [table |-> WithPlans(v)[r].plan.table, from |-> Prefix(v, r),
                          to |-> WithPlans(v)[r].plan.T, state |-> "busy"]
      /\ r \notin Starts(v) /\ r \in DOMAIN pull'[v] => pull'[v][r] = pull[v][r]
  BY <1>2 DEF Over, Without
<1>5. /\ r \in Pulled(v) => r \in DOMAIN pull[v] /\ pull[v][r].state # "busy"
      /\ r \in DOMAIN pull[v] /\ r \notin Pulled(v) => pull[v][r].state = "busy"
  BY <1>1 DEF Pulled, In, WorkerTypeOK
<1> QED BY <1>3, <1>4, <1>5

\* What the rank reports of a request.
LEMMA OutputEntry ==
  ASSUME NEW v \in Rank, Execute(v), NEW w \in Rank, NEW r \in Req
  PROVE  /\ <<w, r>> \in output'.received <=>
              \/ <<w, r>> \in output.received
              \/ w = v /\ r \in Plain(v)
              \/ w = v /\ r \in Ended(v) /\ Awaited(WithPlans(v)[r].plan)
         /\ <<w, r>> \in output'.sent <=>
              <<w, r>> \in output.sent \/ (w = v /\ r \in Released(v))
         /\ output.invalid \subseteq output'.invalid
         /\ UNCHANGED <<receivedBy, sentBy>>
<1>1. /\ output'.received = output.received
                            \cup {<<v, x>> : x \in Plain(v)
                                    \cup {y \in Ended(v) : Awaited(WithPlans(v)[y].plan)}}
      /\ output'.sent = output.sent \cup {<<v, x>> : x \in Released(v)}
      /\ output.invalid \subseteq output'.invalid
  BY ExecOutput DEF Execute
<1>2. UNCHANGED <<receivedBy, sentBy>>
  BY DEF Execute, vllmVars
<1> QED BY <1>1, <1>2

\* The blocks that a load of the pool has missed, where no plan takes over, and
\* those that P has failed to bring.
LEMMA InvalidEntry ==
  ASSUME EngineInv, NEW v \in Rank, Execute(v), NEW r \in Req, NEW i \in Int
  PROVE  /\ r \in Plain(v) /\ getOp[v][r].table = TableOf(r)
              /\ getOp[v][r].upto <= i /\ i < getOp[v][r].to
            => <<TableOf(r), i>> \in output'.invalid
         /\ r \in Ended(v) /\ pull[v][r].state # "ok"
              /\ WithPlans(v)[r].A <= i /\ i < WithPlans(v)[r].plan.T
            => <<TableOf(r), i>> \in output'.invalid
<1>1. EngineTypeOK /\ Shapes /\ WorkerTypeOK
  BY DEF EngineInv, EngineTypeOK
<1>2. output'.invalid = output.invalid \cup PoolErrors(v)
                        \cup UNION {Suffix(v, x) : x \in Ended(v) \cap In(pull[v], "error")}
  BY ExecOutput DEF Execute
<1>3. ASSUME r \in Plain(v), getOp[v][r].table = TableOf(r), getOp[v][r].upto <= i,
             i < getOp[v][r].to
      PROVE  <<TableOf(r), i>> \in output'.invalid
  <2>1. r \in Got(v) /\ r \notin DOMAIN WithPlans(v) /\ r \in DOMAIN getOp[v]
    BY <1>3 DEF Plain, Got, In
  <2>2. getOp[v][r].upto \in Nat /\ getOp[v][r].to \in Nat
    BY <1>1, <2>1, EngineAssumption DEF WorkerTypeOK, Tokens
  <2>3. i \in getOp[v][r].upto .. getOp[v][r].to - 1
    BY <1>3, <2>2
  <2>4. <<TableOf(r), i>> \in Missed(getOp[v][r])
    BY <1>3, <2>3 DEF Missed
  <2>5. ASSUME NEW x \in DOMAIN WithPlans(v)
        PROVE  <<TableOf(r), i>> \notin Candidates(WithPlans(v)[x].plan)
    <3>1. WithPlans(v)[x].plan.table = TableOf(x)
      BY PlansShape
    <3>2. TableOf(x) # TableOf(r)
      BY <2>1 DEF TableOf
    <3> QED BY <3>1, <3>2 DEF Candidates
  <2> DEFINE b == <<TableOf(r), i>>
  <2> HIDE DEF b
  <2>6. b \in UNION {Missed(getOp[v][x]) : x \in Got(v)}
    BY <2>1, <2>4 DEF b
  <2>7. b \notin UNION {Candidates(WithPlans(v)[x].plan) : x \in DOMAIN WithPlans(v)}
    BY <2>5 DEF b
  <2>8. b \in PoolErrors(v)
    BY <2>6, <2>7 DEF PoolErrors
  <2> QED BY <1>2, <2>8 DEF b
<1>4. ASSUME r \in Ended(v), pull[v][r].state # "ok", WithPlans(v)[r].A <= i,
             i < WithPlans(v)[r].plan.T
      PROVE  <<TableOf(r), i>> \in output'.invalid
  <2>1. r \in DOMAIN WithPlans(v) /\ r \in In(pull[v], "error")
    BY <1>4 DEF Ended, Pulled, In
  <2>2. /\ WithPlans(v)[r].plan.table = TableOf(r)
        /\ WithPlans(v)[r].A \in Nat /\ WithPlans(v)[r].plan.T \in Nat
    BY <2>1, PlansShape, EngineAssumption DEF TransferPlan, Tokens
  <2>3. <<TableOf(r), i>> \in Suffix(v, r)
    BY <1>4, <2>2 DEF Suffix
  <2> QED BY <1>2, <1>4, <2>1, <2>3
<1> QED BY <1>3, <1>4

\* A request without a plan.
LEMMA ExecPlain ==
  ASSUME EngineInv, NEW v \in Rank, Execute(v), NEW r \in Req, r \notin DOMAIN WithPlans(v)
  PROVE  LoadInv(v, r)'
<1> USE EngineAssumption
<1>1. LoadInv(v, r) /\ EngineTypeOK /\ Shapes /\ WorkerTypeOK
  BY DEF EngineInv, EngineTypeOK
<1>2. UNCHANGED <<status, table, local, computed, valid, phase>> /\ phase = "execute"
  BY DEF Execute, GetFinished, vllmVars
<1>3. r \notin DOMAIN onXfer[v] /\ PlansOf(v, r) = {} /\ r \notin DOMAIN pull[v]
  BY <1>1, PlansEntry DEF LoadInv, Pulls
<1>4. r \notin DOMAIN onXfer'[v] /\ r \notin DOMAIN pull'[v] /\ r \notin Ended(v)
  BY <1>3, XfersEntry DEF Starts, Ended
<1>5. LoadsOf(v, r)' = {} /\ PlansOf(v, r)' = {}
  BY ExecDues
<1>6. TableOf(r)' = TableOf(r) /\ (Remote(r)' <=> Remote(r))
  BY <1>2 DEF TableOf, Remote
<1>7. LoadsNew(v, r)' /\ PlansNew(v, r)' /\ Transfers(v, r)' /\ Pulls(v, r)'
  BY <1>4, <1>5 DEF LoadsNew, PlansNew, Transfers, Pulls
<1>8. Gets(v, r)'
  <2>1. CASE LoadsOf(v, r) # {}
    <3>1. PICK x \in LoadsOf(v, r) :
            getOp'[v][r] = [table |-> x.table, from |-> x.from, to |-> x.to, upto |-> x.from,
                            state |-> "busy"]
      BY <2>1, GetsEntry
    <3>2. x.from \in Tokens /\ x.to \in Tokens
      BY <1>1, DueTypes DEF EngineTypeOK, LoadRequest
    <3>3. /\ Remote(r) /\ x.table = TableOf(r) /\ x.from = local[r] /\ x.from < x.to
          /\ status[r] = "remote" => computed[r] <= x.to
      BY <1>1, <1>3 DEF LoadInv, LoadsNew
    <3>4. \A i \in x.from .. x.from - 1 : FALSE
      BY <3>2 DEF Tokens
    <3> QED BY <1>2, <1>4, <1>6, <3>1, <3>2, <3>3, <3>4 DEF Gets, Filled, Tokens
  <2>2. CASE LoadsOf(v, r) = {}
    BY <1>1, <1>2, <1>3, <1>4, <1>6, <2>2, GetsEntry DEF LoadInv, Gets, Filled
  <2> QED BY <2>1, <2>2
<1>9. /\ r \in Got(v) <=> r \in Plain(v)
      /\ Reported(v, r)' <=> Reported(v, r) \/ r \in Got(v)
  BY <1>4, OutputEntry DEF Plain, Reported
<1>10. Loading(v, r)' <=> Loading(v, r) /\ r \notin Got(v)
  <2>1. Loading(v, r) <=> LoadsOf(v, r) # {} \/ r \in DOMAIN getOp[v]
    BY <1>3 DEF Loading
  <2>2. Loading(v, r)' <=> r \in DOMAIN getOp'[v]
    BY <1>4, <1>5 DEF Loading
  <2> QED BY <2>1, <2>2, GetsEntry
<1>11. r \in Got(v) => Remote(r) /\ Loading(v, r) /\ ~Reported(v, r)
  BY <1>1, GetsEntry DEF LoadInv, Gets, Loading, OneReport
<1>12. OneReport(v, r)'
  <2>1. ~(v \in receivedBy'[r] /\ <<v, r>> \in output'.received)
    BY <1>1, <1>4, <1>9, <1>11, OutputEntry DEF LoadInv, OneReport, Reported
  <2> QED BY <1>1, <1>6, <1>9, <1>10, <1>11, <2>1 DEF LoadInv, OneReport
<1>13. Covers(v, r)'
  <2>1. status[r] = "loaded" => Filled(v, r, local[r], computed[r])'
    BY <1>1, <1>2, <1>6 DEF LoadInv, Covers, Filled
  <2>2. ASSUME status[r] = "remote", Reported(v, r)', NEW i \in local[r] .. computed[r] - 1
        PROVE  Covered(v, r, i)'
    <3>1. CASE Reported(v, r)
      BY <1>1, <1>2, <1>6, <2>2, <3>1, OutputEntry DEF LoadInv, Covers, Covered
    <3>2. CASE r \in Got(v)
      <4> DEFINE op == getOp[v][r]
      <4>1. /\ op.table = TableOf(r) /\ op.from = local[r] /\ Filled(v, r, op.from, op.upto)
            /\ computed[r] <= op.to
        BY <1>1, <1>3, <2>2, <3>2, GetsEntry DEF LoadInv, Gets
      <4>2. op.from \in Nat /\ op.upto \in Nat /\ op.to \in Nat /\ computed[r] \in Nat /\ i \in Int
        BY <1>1, <3>2, GetsEntry DEF WorkerTypeOK, EngineTypeOK, Tokens
      <4> HIDE DEF op
      <4>3. CASE i < op.upto
        <5>1. <<TableOf(r), i>> \in valid[v]
          BY <4>1, <4>2, <4>3 DEF Filled
        <5> QED BY <1>2, <1>6, <5>1 DEF Covered
      <4>4. CASE op.upto <= i
        <5>1. i < op.to
          BY <4>1, <4>2
        <5>2. <<TableOf(r), i>> \in output'.invalid
          BY <1>9, <3>2, <4>1, <4>2, <4>4, <5>1, InvalidEntry DEF op
        <5> QED BY <1>2, <1>6, <5>2 DEF Covered
      <4> QED BY <4>2, <4>3, <4>4
    <3> QED BY <1>9, <2>2, <3>1, <3>2
  <2> QED BY <1>2, <2>1, <2>2 DEF Covers
<1> QED BY <1>7, <1>8, <1>12, <1>13 DEF LoadInv

\* What the step leaves alone, for a rank that runs.
LEMMA ExecSame ==
  ASSUME NEW v \in Rank, Execute(v)
  PROVE  /\ UNCHANGED <<status, table, local, computed, valid, phase, receivedBy, sentBy, saving,
                        metadata, batch, preempting, finishedWaits>>
         /\ phase = "execute" /\ v \in fenced /\ v \notin ran /\ ran' = ran \cup {v}
         /\ UNCHANGED fenced /\ \A r \in Req : TableOf(r)' = TableOf(r) /\ (Remote(r)' <=> Remote(r))
BY DEF Execute, GetFinished, vllmVars, schedVars, trackVars, TableOf, Remote

\* A request whose plan is new.
LEMMA ExecNew ==
  ASSUME EngineInv, NEW v \in Rank, Execute(v), NEW r \in Req, PlansOf(v, r) # {}
  PROVE  LoadInv(v, r)'
<1> USE EngineAssumption
<1>1. LoadInv(v, r) /\ EngineTypeOK /\ Shapes /\ WorkerTypeOK /\ SchedulerTypeOK
  BY DEF EngineInv, EngineTypeOK
<1>2. PICK p \in PlansOf(v, r) : WithPlans(v)[r] = [plan |-> p, stage |-> Stage(p), A |-> p.L]
  BY PlansEntry
<1>3. p.L \in Nat /\ p.H \in Nat /\ p.T \in Nat /\ p.L \in Tokens /\ p.T \in Tokens
  BY <1>1, DueTypes DEF TransferPlan, Tokens
<1>4. /\ r \notin DOMAIN getOp[v] /\ r \notin DOMAIN onXfer[v]
      /\ p.table = TableOf(r) /\ p.L = local[r] /\ p.L <= p.T /\ p.H <= p.T
      /\ Awaited(p) <=> Remote(r)
      /\ p.H > p.L <=> LoadsOf(v, r) # {}
      /\ \A x \in LoadsOf(v, r) : x.to = p.H
      /\ status[r] = "remote" => computed[r] <= p.T
  BY <1>1 DEF LoadInv, PlansNew
<1>5. r \notin DOMAIN pull[v] /\ r \notin Pulled(v) /\ r \notin Got(v)
  BY <1>1, <1>4, GetsEntry, XfersEntry DEF LoadInv, Pulls
<1>6. r \in DOMAIN WithPlans(v) /\ r \notin Ended(v) /\ r \notin Plain(v)
  BY <1>5, PlansEntry DEF Ended, Plain
<1>7. LoadsOf(v, r)' = {} /\ PlansOf(v, r)' = {}
  BY ExecDues
<1>8. LoadsNew(v, r)' /\ PlansNew(v, r)'
  BY <1>7 DEF LoadsNew, PlansNew
<1>9. Reported(v, r)' <=> Reported(v, r)
  BY <1>6, OutputEntry DEF Reported
<1>10. ~(v \in receivedBy'[r] /\ <<v, r>> \in output'.received)
  BY <1>1, <1>6, OutputEntry DEF LoadInv, OneReport
<1>11. Loading(v, r) <=> Remote(r)
  <2>1. \A y \in PlansOf(v, r) : Awaited(y) <=> Remote(r)
    BY <1>1 DEF LoadInv, PlansNew
  <2>2. LoadsOf(v, r) # {} => Remote(r)
    BY <1>1 DEF LoadInv, LoadsNew
  <2> QED BY <1>2, <1>4, <2>1, <2>2 DEF Loading
<1>12. ~Reported(v, r)
  BY <1>1, <1>11 DEF LoadInv, OneReport
<1>13. Covers(v, r)'
  <2>1. status[r] = "loaded" => Filled(v, r, local[r], computed[r])'
    BY <1>1, ExecSame DEF LoadInv, Covers, Filled
  <2> QED BY <1>9, <1>12, <2>1, ExecSame DEF Covers
<1>14. CASE LoadsOf(v, r) # {}
  <2>1. PICK x \in LoadsOf(v, r) :
          getOp'[v][r] = [table |-> x.table, from |-> x.from, to |-> x.to, upto |-> x.from,
                          state |-> "busy"]
    BY <1>14, GetsEntry
  <2>2. x.from \in Nat /\ x.to \in Nat
    BY <1>1, DueTypes DEF LoadRequest, Tokens
  <2>3. Remote(r) /\ x.table = TableOf(r) /\ x.from = local[r] /\ x.from < x.to /\ x.to = p.H
    BY <1>1, <1>4 DEF LoadInv, LoadsNew
  <2>4. Stage(p) = "POOL_LOADING" /\ r \notin Starts(v)
    BY <1>2, <1>4, <1>5, <1>14 DEF Stage, Starts
  <2>5. /\ r \in DOMAIN onXfer'[v] /\ onXfer'[v][r] = [plan |-> p, stage |-> Stage(p), A |-> p.L]
        /\ r \notin DOMAIN pull'[v] /\ r \in DOMAIN getOp'[v]
    BY <1>2, <1>5, <1>6, <1>14, <2>4, XfersEntry, GetsEntry
  <2>6. Gets(v, r)'
    <3>1. \A i \in x.from .. x.from - 1 : FALSE
      BY <2>2
    <3> QED BY <2>1, <2>2, <2>3, <2>4, <2>5, <3>1, ExecSame DEF Gets, Filled
  <2>7. Transfers(v, r)'
    BY <1>4, <2>4, <2>5, ExecSame DEF Transfers
  <2>8. Pulls(v, r)'
    BY <2>4, <2>5 DEF Pulls
  <2>9. Loading(v, r)'
    BY <2>5 DEF Loading
  <2>10. OneReport(v, r)'
    BY <1>9, <1>10, <1>12, <2>3, <2>9, ExecSame DEF OneReport
  <2> QED BY <1>8, <1>13, <2>6, <2>7, <2>8, <2>10 DEF LoadInv
<1>15. CASE LoadsOf(v, r) = {}
  <2>1. Stage(p) = "POOL_DONE" /\ r \in Starts(v) /\ Prefix(v, r) = p.L
    BY <1>2, <1>4, <1>6, <1>15 DEF Stage, Starts, Prefix
  <2>2. /\ r \in DOMAIN onXfer'[v] /\ r \in DOMAIN pull'[v] /\ r \notin DOMAIN getOp'[v]
        /\ onXfer'[v][r] = [plan |-> p, stage |-> "TRANSFER_LOADING", A |-> p.L]
        /\ pull'[v][r] = [table |-> p.table, from |-> p.L, to |-> p.T, state |-> "busy"]
    <3>1. /\ r \in DOMAIN onXfer'[v] /\ r \in DOMAIN pull'[v] /\ r \notin DOMAIN getOp'[v]
      BY <1>4, <1>5, <1>6, <1>15, <2>1, XfersEntry, GetsEntry
    <3>2. onXfer'[v][r] = [WithPlans(v)[r] EXCEPT !.stage = "TRANSFER_LOADING",
                                                  !.A = Prefix(v, r)]
      BY <2>1, <3>1, XfersEntry
    <3>3. onXfer'[v][r] = [plan |-> p, stage |-> "TRANSFER_LOADING", A |-> p.L]
      <4> DEFINE W == WithPlans(v)[r]
                 a == Prefix(v, r)
      <4>1. W = [plan |-> p, stage |-> Stage(p), A |-> p.L] /\ a = p.L
            /\ onXfer'[v][r] = [W EXCEPT !.stage = "TRANSFER_LOADING", !.A = a]
        BY <1>2, <2>1, <3>2
      <4> HIDE DEF W, a
      <4>2. [W EXCEPT !.stage = "TRANSFER_LOADING", !.A = a]
              = [plan |-> p, stage |-> "TRANSFER_LOADING", A |-> a]
        BY <4>1
      <4> QED BY <4>1, <4>2
    <3>4. pull'[v][r] = [table |-> WithPlans(v)[r].plan.table, from |-> Prefix(v, r),
                         to |-> WithPlans(v)[r].plan.T, state |-> "busy"]
      BY <2>1, XfersEntry
    <3> QED BY <1>2, <2>1, <3>1, <3>3, <3>4
  <2>3. Gets(v, r)'
    BY <2>2 DEF Gets
  <2>4. Transfers(v, r)'
    <3>1. \A i \in p.L .. p.L - 1 : FALSE
      BY <1>3
    <3> QED BY <1>3, <1>4, <2>2, <3>1, ExecSame DEF Transfers, Filled
  <2>5. Pulls(v, r)'
    BY <1>4, <2>2, ExecSame DEF Pulls
  <2>6. Loading(v, r)' <=> Remote(r)
    BY <1>4, <1>7, <2>2 DEF Loading, Awaited
  <2>7. OneReport(v, r)'
    BY <1>9, <1>10, <1>12, <2>6, ExecSame DEF OneReport
  <2> QED BY <1>8, <1>13, <2>3, <2>4, <2>5, <2>7 DEF LoadInv
<1> QED BY <1>14, <1>15

\* A request whose plan is under way.
LEMMA ExecOld ==
  ASSUME EngineInv, NEW v \in Rank, Execute(v), NEW r \in DOMAIN onXfer[v]
  PROVE  LoadInv(v, r)'
<1> USE EngineAssumption
<1> DEFINE X == onXfer[v][r]
<1>0. r \in Req
  BY DEF EngineInv, Shapes
<1>1. LoadInv(v, r) /\ EngineTypeOK /\ Shapes /\ WorkerTypeOK /\ SchedulerTypeOK
  BY <1>0 DEF EngineInv, EngineTypeOK
<1>2. /\ r \in DOMAIN WithPlans(v) /\ WithPlans(v)[r] = X /\ PlansOf(v, r) = {}
      /\ LoadsOf(v, r) = {}
  BY <1>0, <1>1, PlansEntry DEF LoadInv, LoadsNew
<1>3. X \in [plan : TransferPlan, stage : {"POOL_LOADING", "POOL_DONE", "TRANSFER_LOADING"},
             A : Tokens]
  BY <1>1 DEF WorkerTypeOK
<1>4. X.plan.L \in Nat /\ X.plan.H \in Nat /\ X.plan.T \in Nat /\ X.A \in Nat
  BY <1>3 DEF TransferPlan, Tokens
<1>5. /\ X.plan.table = TableOf(r) /\ X.plan.L = local[r]
      /\ X.plan.L <= X.plan.T /\ X.plan.H <= X.plan.T
      /\ Awaited(X.plan) <=> Remote(r)
      /\ status[r] = "remote" => computed[r] <= X.plan.T
      /\ IF r \in DOMAIN getOp[v] THEN X.stage = "POOL_LOADING"
         ELSE /\ X.stage = "TRANSFER_LOADING"
              /\ X.plan.L <= X.A /\ X.A <= X.plan.T
              /\ Filled(v, r, X.plan.L, X.A)
  BY <1>1 DEF LoadInv, Transfers
<1>6. r \in DOMAIN pull[v] <=> X.stage = "TRANSFER_LOADING"
  BY <1>1 DEF LoadInv, Pulls
<1>7. LoadsOf(v, r)' = {} /\ PlansOf(v, r)' = {}
  BY <1>0, ExecDues
<1>8. LoadsNew(v, r)' /\ PlansNew(v, r)'
  BY <1>7 DEF LoadsNew, PlansNew
<1>9. r \notin Plain(v)
  BY <1>2 DEF Plain
<1>10. /\ r \in Ended(v) <=> r \in Pulled(v)
       /\ Reported(v, r)' <=> Reported(v, r) \/ (r \in Pulled(v) /\ Remote(r))
  <2>1. r \in Ended(v) <=> r \in Pulled(v)
    BY <1>2 DEF Ended
  <2> QED BY <1>0, <1>2, <1>5, <1>9, <2>1, OutputEntry DEF Reported
<1>11. Loading(v, r) <=> Remote(r)
  <2>1. r \in DOMAIN getOp[v] => Remote(r)
    BY <1>1 DEF LoadInv, Gets
  <2> QED BY <1>2, <1>5, <2>1 DEF Loading
<1>12. ~Reported(v, r)
  BY <1>1, <1>11 DEF LoadInv, OneReport
<1>13. ~(v \in receivedBy'[r] /\ <<v, r>> \in output'.received)
  BY <1>0, <1>12, OutputEntry DEF Reported
<1>14. status[r] = "loaded" => Filled(v, r, local[r], computed[r])'
  BY <1>0, <1>1, ExecSame DEF LoadInv, Covers, Filled
<1> HIDE DEF X
<1>15. CASE r \in Pulled(v)
  <2>1. r \in DOMAIN pull[v] /\ X.stage = "TRANSFER_LOADING" /\ r \notin Starts(v)
    BY <1>0, <1>2, <1>6, <1>15, XfersEntry DEF Starts
  <2>2. r \notin DOMAIN getOp[v]
    BY <1>5, <2>1
  <2>3. /\ r \notin DOMAIN onXfer'[v] /\ r \notin DOMAIN pull'[v] /\ r \notin DOMAIN getOp'[v]
    BY <1>0, <1>2, <1>15, <2>1, <2>2, XfersEntry, GetsEntry
  <2>4. Gets(v, r)' /\ Transfers(v, r)' /\ Pulls(v, r)'
    BY <2>3 DEF Gets, Transfers, Pulls
  <2>5. OneReport(v, r)'
    BY <1>0, <1>7, <1>10, <1>12, <1>13, <1>15, <2>3, ExecSame DEF OneReport, Loading
  <2>6. ASSUME status[r] = "remote", NEW i \in local[r] .. computed[r] - 1
        PROVE  Covered(v, r, i)'
    <3>1. local[r] \in Nat /\ computed[r] \in Nat /\ i \in Int /\ local[r] <= i /\ i < computed[r]
      BY <1>0, <1>1 DEF EngineTypeOK, Tokens
    <3>2. i < X.plan.T
      BY <1>4, <1>5, <2>6, <3>1
    <3>3. CASE i < X.A
      <4>1. <<TableOf(r), i>> \in valid[v]
        BY <1>4, <1>5, <2>1, <2>2, <3>1, <3>3 DEF Filled
      <4> QED BY <1>0, <4>1, ExecSame DEF Covered
    <3>4. CASE X.A <= i /\ pull[v][r].state = "ok"
      <4>1. Filled(v, r, X.A, X.plan.T)
        BY <1>1, <2>1, <3>4 DEF LoadInv, Pulls, X
      <4>2. i \in X.A .. X.plan.T - 1
        BY <1>4, <3>1, <3>2, <3>4
      <4>3. <<TableOf(r), i>> \in valid[v]
        BY <4>1, <4>2 DEF Filled
      <4> QED BY <1>0, <4>3, ExecSame DEF Covered
    <3>5. CASE X.A <= i /\ pull[v][r].state # "ok"
      <4>1. <<TableOf(r), i>> \in output'.invalid
        BY <1>0, <1>2, <1>10, <1>15, <3>1, <3>2, <3>5, InvalidEntry
      <4> QED BY <1>0, <4>1, ExecSame DEF Covered
    <3> QED BY <1>4, <3>1, <3>3, <3>4, <3>5
  <2>7. Covers(v, r)'
    BY <1>14, <2>6, ExecSame DEF Covers
  <2> QED BY <1>8, <2>4, <2>5, <2>7 DEF LoadInv
<1>16. r \notin Pulled(v) => Covers(v, r)'
  BY <1>10, <1>12, <1>14, ExecSame DEF Covers
<1>17. CASE r \notin Pulled(v) /\ r \in Got(v)
  <2> DEFINE op == getOp[v][r]
  <2>1. /\ r \in DOMAIN getOp[v] /\ X.stage = "POOL_LOADING" /\ r \in Starts(v)
        /\ Prefix(v, r) = op.upto
    BY <1>0, <1>2, <1>5, <1>17, GetsEntry DEF Starts, Prefix, ActualPrefix
  <2>2. /\ op.from = local[r] /\ op.from <= op.upto /\ op.upto <= op.to /\ op.to = X.plan.H
        /\ Filled(v, r, op.from, op.upto) /\ op.table = TableOf(r)
    BY <1>1, <2>1 DEF LoadInv, Gets, X
  <2>3. op.from \in Nat /\ op.upto \in Nat /\ op.to \in Nat
    BY <1>1, <2>1 DEF WorkerTypeOK, Tokens
  <2>4. /\ r \in DOMAIN onXfer'[v] /\ r \in DOMAIN pull'[v]
        /\ onXfer'[v][r] = [X EXCEPT !.stage = "TRANSFER_LOADING", !.A = Prefix(v, r)]
        /\ pull'[v][r] = [table |-> X.plan.table, from |-> Prefix(v, r), to |-> X.plan.T,
                          state |-> "busy"]
    <3>1. r \in Req /\ r \in Starts(v) /\ r \notin Pulled(v) /\ r \in DOMAIN WithPlans(v)
          /\ WithPlans(v)[r] = X
      BY <1>0, <1>2, <1>17, <2>1
    <3>2. r \in DOMAIN onXfer'[v] /\ r \in DOMAIN pull'[v]
      BY <3>1, XfersEntry
    <3>3. onXfer'[v][r] = [WithPlans(v)[r] EXCEPT !.stage = "TRANSFER_LOADING", !.A = Prefix(v, r)]
      BY <3>1, <3>2, XfersEntry
    <3>4. pull'[v][r] = [table |-> WithPlans(v)[r].plan.table, from |-> Prefix(v, r),
                         to |-> WithPlans(v)[r].plan.T, state |-> "busy"]
      BY <3>1, XfersEntry
    <3> QED BY <3>1, <3>2, <3>3, <3>4
  <2>5. r \notin DOMAIN getOp'[v]
    BY <1>0, <1>2, <1>17, GetsEntry
  <2>6. /\ onXfer'[v][r].stage = "TRANSFER_LOADING" /\ onXfer'[v][r].A = op.upto
        /\ onXfer'[v][r].plan = X.plan
    BY <1>3, <2>1, <2>4
  <2> HIDE DEF op
  <2>7. Gets(v, r)'
    BY <2>5 DEF Gets
  <2>8. Transfers(v, r)'
    <3>1. /\ X.plan.L <= op.upto /\ op.upto <= X.plan.T
      BY <1>4, <1>5, <2>2, <2>3
    <3>2. \A i \in X.plan.L .. op.upto - 1 : <<TableOf(r), i>> \in valid[v]
      BY <1>5, <2>2 DEF Filled
    <3> QED BY <1>0, <1>5, <2>5, <2>6, <3>1, <3>2, ExecSame DEF Transfers, Awaited, Filled
  <2>9. Pulls(v, r)'
    BY <1>0, <1>5, <2>1, <2>4, <2>6, ExecSame DEF Pulls
  <2>10. Loading(v, r)' <=> Remote(r)
    BY <1>5, <1>7, <2>4, <2>5, <2>6 DEF Loading, Awaited
  <2>11. OneReport(v, r)'
    BY <1>0, <1>10, <1>12, <1>13, <1>17, <2>10, ExecSame DEF OneReport
  <2> QED BY <1>8, <1>16, <1>17, <2>7, <2>8, <2>9, <2>11 DEF LoadInv
<1>18. CASE r \notin Pulled(v) /\ r \notin Got(v)
  <2>1. r \notin Starts(v)
    BY <1>2, <1>5, <1>18 DEF Starts
  <2>2. /\ r \in DOMAIN onXfer'[v] /\ onXfer'[v][r] = X
        /\ r \in DOMAIN pull'[v] <=> r \in DOMAIN pull[v]
        /\ r \in DOMAIN pull[v] => pull'[v][r] = pull[v][r]
        /\ r \in DOMAIN getOp'[v] <=> r \in DOMAIN getOp[v]
        /\ r \in DOMAIN getOp[v] => getOp'[v][r] = getOp[v][r]
    <3>1. r \in DOMAIN onXfer'[v] /\ onXfer'[v][r] = X
      BY <1>0, <1>2, <1>18, <2>1, XfersEntry
    <3>2. /\ r \in DOMAIN pull'[v] <=> r \in DOMAIN pull[v]
          /\ r \in DOMAIN pull[v] => pull'[v][r] = pull[v][r]
      BY <1>0, <1>18, <2>1, XfersEntry
    <3>3. /\ r \in DOMAIN getOp'[v] <=> r \in DOMAIN getOp[v]
          /\ r \in DOMAIN getOp[v] => getOp'[v][r] = getOp[v][r]
      BY <1>0, <1>2, <1>18, GetsEntry
    <3> QED BY <3>1, <3>2, <3>3
  <2>3. Gets(v, r)'
    BY <1>0, <1>1, <2>2, ExecSame DEF LoadInv, Gets, Filled, X
  <2>4. Transfers(v, r)'
    BY <1>0, <1>5, <2>2, ExecSame DEF Transfers, Filled, Awaited
  <2>5. Pulls(v, r)'
    BY <1>0, <1>1, <2>2, ExecSame DEF LoadInv, Pulls, Filled, X
  <2>6. Loading(v, r)' <=> Remote(r)
    <3>1. r \in DOMAIN getOp[v] => Remote(r)
      BY <1>1 DEF LoadInv, Gets
    <3> QED BY <1>5, <1>7, <2>2, <3>1 DEF Loading, Awaited
  <2>7. OneReport(v, r)'
    BY <1>0, <1>10, <1>12, <1>13, <1>18, <2>6, ExecSame DEF OneReport
  <2> QED BY <1>8, <1>16, <1>18, <2>3, <2>4, <2>5, <2>7 DEF LoadInv
<1> QED BY <1>15, <1>17, <1>18

\* The saves after the step.
LEMMA SavesEntry ==
  ASSUME EngineInv, NEW v \in Rank, Execute(v), NEW r \in Req
  PROVE  /\ r \in SavesIn <=> SavesOf(v, r) # {}
         /\ r \in DOMAIN putOp'[v] <=> r \in SavesIn \/ (r \in DOMAIN putOp[v] /\ r \notin Put(v))
         /\ r \in SavesIn => \E x \in SavesOf(v, r) : putOp'[v][r] = Op(x.table, "busy")
         /\ r \notin SavesIn /\ r \in DOMAIN putOp'[v] => putOp'[v][r] = putOp[v][r]
         /\ r \in onSave'[v] <=> (r \in onSave[v] \/ r \in SavesIn) /\ r \notin Put(v)
         /\ r \in Put(v) => r \notin SavesIn /\ r \in DOMAIN putOp[v]
<1>1. /\ putOp'[v] = Over([x \in SavesIn |-> Op(Of(metadata.saves, x).table, "busy")],
                          Without(putOp[v], Put(v)))
      /\ onSave'[v] = (onSave[v] \cup SavesIn) \ Put(v)
  BY ExecFields DEF EngineInv, Execute
<1>2. r \in SavesIn <=> SavesOf(v, r) # {}
  BY ExecDues DEF SavesIn, Reqs
<1>3. r \in SavesIn => Of(metadata.saves, r) \in SavesOf(v, r)
  BY <1>2, OneOf, ExecDues DEF SavesIn
<1>4. DOMAIN putOp'[v] = SavesIn \cup (DOMAIN putOp[v] \ Put(v))
  BY <1>1 DEF Over, Without
<1>5. /\ r \in SavesIn => putOp'[v][r] = Op(Of(metadata.saves, r).table, "busy")
      /\ r \notin SavesIn /\ r \in DOMAIN putOp'[v] => putOp'[v][r] = putOp[v][r]
  BY <1>1 DEF Over, Without
<1>6. r \in Put(v) => r \notin SavesIn /\ r \in DOMAIN putOp[v]
  BY DEF Put, In
<1> QED BY <1>1, <1>2, <1>3, <1>4, <1>5, <1>6

\* A wait after the results of a step.
LEMMA SettleFields ==
  ASSUME NEW W \in [wait : Wait, saveDone : BOOLEAN, xferDone : BOOLEAN],
         NEW x \in BOOLEAN, NEW y \in BOOLEAN, NEW S,
         S = [W EXCEPT !.saveDone = @ \/ x, !.xferDone = @ \/ y]
  PROVE  S.wait = W.wait /\ (S.saveDone <=> W.saveDone \/ x) /\ (S.xferDone <=> W.xferDone \/ y)
OBVIOUS

\* The fields of a new wait.
LEMMA WaitFields ==
  ASSUME NEW a \in Wait, NEW b \in BOOLEAN, NEW W,
         W = [wait |-> a, saveDone |-> b, xferDone |-> FALSE]
  PROVE  /\ W \in [wait : Wait, saveDone : BOOLEAN, xferDone : BOOLEAN]
         /\ W.wait = a /\ (W.saveDone <=> b) /\ ~W.xferDone
OBVIOUS

\* The waits after the step.
LEMMA WaitsEntry ==
  ASSUME EngineInv, NEW v \in Rank, Execute(v), NEW r \in Req
  PROVE  /\ r \in DOMAIN Settled(v) <=> r \in DOMAIN waits[v] \/ WaitsOf(v, r) # {}
         /\ r \in DOMAIN waits'[v] <=> r \in DOMAIN Settled(v) /\ r \notin Released(v)
         /\ r \in DOMAIN waits'[v] => waits'[v][r] = Settled(v)[r] /\ ~WaitOver(Settled(v)[r])
         /\ r \in Released(v) => r \in DOMAIN Settled(v) /\ WaitOver(Settled(v)[r])
         /\ WaitsOf(v, r) # {} => \E x \in WaitsOf(v, r) :
              /\ Settled(v)[r].wait = x
              /\ Settled(v)[r].saveDone <=> SaveOver(v, r) \/ r \in Put(v)
              /\ Settled(v)[r].xferDone <=> r \in SentNow(v)
         /\ WaitsOf(v, r) = {} /\ r \in DOMAIN waits[v] /\ r \notin SavesIn =>
              /\ Settled(v)[r].wait = waits[v][r].wait
              /\ Settled(v)[r].saveDone <=> waits[v][r].saveDone \/ r \in Put(v)
              /\ Settled(v)[r].xferDone <=> waits[v][r].xferDone \/ r \in SentNow(v)
<1>0. EngineTypeOK /\ WorkerTypeOK
  BY DEF EngineInv, EngineTypeOK
<1>1. waits'[v] = Without(Settled(v), Released(v))
  BY ExecFields DEF EngineInv, Execute
<1>2. WaitsOf(v, r) # {} <=> r \in DOMAIN metadata.waits
  BY ExecDues
<1>3. r \in DOMAIN metadata.waits => metadata.waits[r] \in WaitsOf(v, r)
  BY ExecDues
<1>4. DOMAIN Settled(v) = DOMAIN waits[v] \cup DOMAIN metadata.waits
  BY DEF Settled, WithWaits, Over
<1>5. r \in DOMAIN metadata.waits =>
        WithWaits(v)[r] = [wait |-> metadata.waits[r], saveDone |-> SaveOver(v, r),
                           xferDone |-> FALSE]
  <2> SUFFICES ASSUME r \in DOMAIN metadata.waits
               PROVE  WithWaits(v)[r] = [wait |-> metadata.waits[r], saveDone |-> SaveOver(v, r),
                                         xferDone |-> FALSE]
    OBVIOUS
  <2>1. r \notin DOMAIN waits[v]
    BY <1>2 DEF EngineInv, HoldInv, OneRelease
  <2> QED BY <2>1 DEF WithWaits, Over
<1>6. r \in DOMAIN waits[v] /\ r \notin SavesIn => WithWaits(v)[r] = waits[v][r]
  BY DEF WithWaits, Over, SavesIn
<1>7. /\ r \in DOMAIN Settled(v) =>
           Settled(v)[r] = [WithWaits(v)[r] EXCEPT !.saveDone = @ \/ r \in Put(v),
                                                   !.xferDone = @ \/ r \in SentNow(v)]
  BY DEF Settled
<1>8. r \in DOMAIN metadata.waits =>
        /\ Settled(v)[r].wait = metadata.waits[r]
        /\ Settled(v)[r].saveDone <=> SaveOver(v, r) \/ r \in Put(v)
        /\ Settled(v)[r].xferDone <=> r \in SentNow(v)
  <2> SUFFICES ASSUME r \in DOMAIN metadata.waits
               PROVE  /\ Settled(v)[r].wait = metadata.waits[r]
                      /\ Settled(v)[r].saveDone <=> SaveOver(v, r) \/ r \in Put(v)
                      /\ Settled(v)[r].xferDone <=> r \in SentNow(v)
    OBVIOUS
  <2>1. metadata.waits[r] \in Wait /\ SaveOver(v, r) \in BOOLEAN
    BY DEF EngineInv, Shapes, SaveOver
  <2>2. /\ WithWaits(v)[r] \in [wait : Wait, saveDone : BOOLEAN, xferDone : BOOLEAN]
        /\ WithWaits(v)[r].wait = metadata.waits[r]
        /\ WithWaits(v)[r].saveDone <=> SaveOver(v, r)
        /\ ~WithWaits(v)[r].xferDone
    <3> DEFINE b == SaveOver(v, r)
    <3>1. b \in BOOLEAN /\ metadata.waits[r] \in Wait
      BY <2>1
    <3>2. WithWaits(v)[r] = [wait |-> metadata.waits[r], saveDone |-> b, xferDone |-> FALSE]
      BY <1>5
    <3> HIDE DEF b
    <3>3. /\ WithWaits(v)[r] \in [wait : Wait, saveDone : BOOLEAN, xferDone : BOOLEAN]
          /\ WithWaits(v)[r].wait = metadata.waits[r]
          /\ WithWaits(v)[r].saveDone <=> b
          /\ ~WithWaits(v)[r].xferDone
      BY <3>1, <3>2, WaitFields
    <3> QED BY <3>3 DEF b
  <2>3. /\ Settled(v)[r].wait = WithWaits(v)[r].wait
        /\ Settled(v)[r].saveDone <=> WithWaits(v)[r].saveDone \/ r \in Put(v)
        /\ Settled(v)[r].xferDone <=> WithWaits(v)[r].xferDone \/ r \in SentNow(v)
    <3> DEFINE x == r \in Put(v)
               y == r \in SentNow(v)
    <3>1. x \in BOOLEAN /\ y \in BOOLEAN
      OBVIOUS
    <3>2. Settled(v)[r] = [WithWaits(v)[r] EXCEPT !.saveDone = @ \/ x, !.xferDone = @ \/ y]
      BY <1>4, <1>7
    <3> HIDE DEF x, y
    <3>3. /\ Settled(v)[r].wait = WithWaits(v)[r].wait
          /\ Settled(v)[r].saveDone <=> WithWaits(v)[r].saveDone \/ x
          /\ Settled(v)[r].xferDone <=> WithWaits(v)[r].xferDone \/ y
      BY <2>2, <3>1, <3>2, SettleFields
    <3> QED BY <3>3, ZenonT(40) DEF x, y
  <2> QED BY <2>2, <2>3
<1>9. r \in DOMAIN waits[v] /\ r \notin SavesIn =>
        /\ Settled(v)[r].wait = waits[v][r].wait
        /\ Settled(v)[r].saveDone <=> waits[v][r].saveDone \/ r \in Put(v)
        /\ Settled(v)[r].xferDone <=> waits[v][r].xferDone \/ r \in SentNow(v)
  <2> SUFFICES ASSUME r \in DOMAIN waits[v], r \notin SavesIn
               PROVE  /\ Settled(v)[r].wait = waits[v][r].wait
                      /\ Settled(v)[r].saveDone <=> waits[v][r].saveDone \/ r \in Put(v)
                      /\ Settled(v)[r].xferDone <=> waits[v][r].xferDone \/ r \in SentNow(v)
    OBVIOUS
  <2>1. waits[v][r] \in [wait : Wait, saveDone : BOOLEAN, xferDone : BOOLEAN]
    BY <1>0 DEF WorkerTypeOK
  <2> DEFINE x == r \in Put(v)
             y == r \in SentNow(v)
  <2>2. x \in BOOLEAN /\ y \in BOOLEAN
    OBVIOUS
  <2>3. Settled(v)[r] = [waits[v][r] EXCEPT !.saveDone = @ \/ x, !.xferDone = @ \/ y]
    BY <1>4, <1>6, <1>7
  <2> DEFINE W == waits[v][r]
             S == Settled(v)[r]
  <2>4. W \in [wait : Wait, saveDone : BOOLEAN, xferDone : BOOLEAN]
        /\ S = [W EXCEPT !.saveDone = @ \/ x, !.xferDone = @ \/ y]
    BY <2>1, <2>3
  <2> HIDE DEF x, y, W, S
  <2>5. S.wait = W.wait /\ (S.saveDone <=> W.saveDone \/ x) /\ (S.xferDone <=> W.xferDone \/ y)
    BY <2>2, <2>4, SettleFields
  <2> QED BY <2>5 DEF x, y, W, S
<1>10. /\ r \in DOMAIN waits'[v] <=> r \in DOMAIN Settled(v) /\ r \notin Released(v)
       /\ r \in DOMAIN waits'[v] => waits'[v][r] = Settled(v)[r] /\ ~WaitOver(Settled(v)[r])
       /\ r \in Released(v) => r \in DOMAIN Settled(v) /\ WaitOver(Settled(v)[r])
  BY <1>1 DEF Without, Released
<1> QED BY <1>2, <1>3, <1>4, <1>8, <1>9, <1>10

\* The sources after the step.
LEMMA SourcesEntry ==
  ASSUME EngineInv, NEW v \in Rank, Execute(v), NEW r \in DOMAIN source'[v],
         source'[v][r].state = "published"
  PROVE  /\ r \notin SentNow(v)
         /\ \/ \E y \in ReadyOf(v, r) : source'[v][r].table = y.table
            \/ /\ r \in DOMAIN source[v] /\ source[v][r].state = "published"
               /\ source'[v][r].table = source[v][r].table
<1> DEFINE new   == {y \in metadata.states : y.state = "ready"}
           gone  == {x.req : x \in {y \in metadata.states : y.state = "cancelled"}}
           early == {y \in metadata.states : y.state = "prepare"}
           rest  == Over(Without(source[v], gone),
                         [x \in Reqs(early) |-> Op(Of(early, x).table, "prepared")])
<1>1. source'[v] = Without(WithSources(v), SentNow(v))
  BY ExecFields DEF EngineInv, Execute
<1>2. r \in DOMAIN WithSources(v) /\ r \notin SentNow(v) /\ source'[v][r] = WithSources(v)[r]
  BY <1>1 DEF Without
<1>3. WithSources(v) = Over([x \in Reqs(new) |-> Op(Of(new, x).table, "published")], rest)
  BY DEF WithSources
<1> HIDE DEF new, rest
<1>4. CASE r \in Reqs(new)
  <2>1. WithSources(v)[r] = Op(Of(new, r).table, "published")
    BY <1>3, <1>4 DEF Over
  <2>2. Of(new, r) \in new /\ Of(new, r).req = r
    BY <1>4, OneOf
  <2>3. r \in Req
    BY <2>2 DEF new, EngineInv, EngineTypeOK, SchedulerTypeOK, SourceState
  <2>4. Of(new, r) \in ReadyOf(v, r)
    BY <2>2, <2>3, ExecDues DEF new
  <2> QED BY <1>2, <2>1, <2>4 DEF Op
<1>5. CASE r \notin Reqs(new)
  <2>1. r \in DOMAIN rest /\ WithSources(v)[r] = rest[r]
    BY <1>2, <1>3, <1>5 DEF Over
  <2>2. rest[r].state = "published"
    BY <1>2, <2>1
  <2>3. r \in DOMAIN source[v] /\ rest[r] = source[v][r]
    BY <2>1, <2>2 DEF rest, Over, Without, Op
  <2> QED BY <1>2, <2>1, <2>2, <2>3
<1> QED BY <1>4, <1>5

\* Saves, sources and releases of a rank that runs.
LEMMA ExecHold ==
  ASSUME EngineInv, NEW v \in Rank, Execute(v), NEW r \in Req
  PROVE  HoldInv(v, r)'
<1>1. LoadInv(v, r) /\ HoldInv(v, r) /\ EngineTypeOK /\ Shapes
  BY DEF EngineInv
<1>2. /\ LoadsOf(v, r)' = {} /\ PlansOf(v, r)' = {} /\ SavesOf(v, r)' = {}
      /\ ReadyOf(v, r)' = {} /\ WaitsOf(v, r)' = {} /\ ~Unfenced(v, r)
  BY ExecDues
<1>3. Books(v, r)'
  <2>1. r \in DOMAIN onLoad'[v] <=> (LoadsOf(v, r) # {} \/ r \in DOMAIN onLoad[v]) /\ r \notin Got(v)
    <3>1. onLoad'[v] = Without(WithLoads(v), Got(v))
      BY <1>1, ExecFields DEF Execute
    <3>2. r \in Reqs(metadata.loads) <=> LoadsOf(v, r) # {}
      BY ExecDues DEF Reqs
    <3> QED BY <3>1, <3>2 DEF WithLoads, Over, Without
  <2>2. r \in DOMAIN getOp'[v] <=> r \in DOMAIN onLoad'[v]
    BY <1>1, <2>1, GetsEntry DEF HoldInv, Books
  <2>3. r \in DOMAIN putOp'[v] <=> r \in onSave'[v]
    BY <1>1, SavesEntry DEF HoldInv, Books
  <2> QED BY <2>2, <2>3 DEF Books
<1>4. SavesHeld(v, r)'
  <2>1. r \in onSave'[v] => r \in saving
    BY <1>1, <1>2, SavesEntry DEF HoldInv, SavesHeld
  <2>2. r \in DOMAIN putOp'[v] => putOp'[v][r].table = TableOf(r)
    <3>1. \A x \in SavesOf(v, r) : x.table = TableOf(r)
      BY <1>1 DEF HoldInv, SavesHeld
    <3>2. r \in DOMAIN putOp[v] => putOp[v][r].table = TableOf(r)
      BY <1>1 DEF HoldInv, SavesHeld
    <3>3. CASE r \in SavesIn
      <4>1. PICK x \in SavesOf(v, r) : putOp'[v][r] = Op(x.table, "busy")
        BY <3>3, SavesEntry
      <4> QED BY <3>1, <4>1 DEF Op
    <3>4. CASE r \notin SavesIn
      BY <3>2, <3>4, SavesEntry
    <3> QED BY <3>3, <3>4
  <2> QED BY <1>2, <2>1, <2>2, ExecSame DEF SavesHeld
<1>5. /\ SentBy(v, r)' <=> SentBy(v, r) \/ r \in Released(v)
      /\ v \in sentBy'[r] <=> v \in sentBy[r]
      /\ <<v, r>> \in output'.sent <=> <<v, r>> \in output.sent \/ r \in Released(v)
  BY OutputEntry DEF SentBy
<1>6. OneRelease(v, r)'
  <2>1. status[r] # "finished" => /\ r \notin DOMAIN Settled(v) /\ ~SentBy(v, r)
    BY <1>1, WaitsEntry DEF HoldInv, OneRelease
  <2>2. r \in DOMAIN Settled(v) => ~SentBy(v, r)
    BY <1>1, WaitsEntry DEF HoldInv, OneRelease
  <2>3. status[r] = "finished" => r \notin SavesIn
    BY <1>1, SavesEntry DEF HoldInv, SavesHeld
  <2>4. ASSUME status[r] = "finished", r \in onSave'[v]
        PROVE  r \in DOMAIN waits'[v] /\ waits'[v][r].wait.save /\ ~waits'[v][r].saveDone
    <3>1. r \in onSave[v] /\ r \notin Put(v) /\ r \notin SavesIn
      BY <2>3, <2>4, SavesEntry
    <3>2. CASE WaitsOf(v, r) # {}
      <4>1. /\ \A x \in WaitsOf(v, r) : x.save
            /\ ~SaveOver(v, r)
        BY <1>1, <2>4, <3>1, <3>2 DEF HoldInv, OneRelease, SaveOver
      <4>2. r \in DOMAIN Settled(v) /\ Settled(v)[r].wait.save /\ ~Settled(v)[r].saveDone
        BY <3>1, <3>2, <4>1, WaitsEntry
      <4>3. ~WaitOver(Settled(v)[r])
        BY <4>2 DEF WaitOver
      <4> QED BY <4>2, <4>3, WaitsEntry
    <3>3. CASE WaitsOf(v, r) = {}
      <4>1. r \in DOMAIN waits[v] /\ waits[v][r].wait.save /\ ~waits[v][r].saveDone
        BY <1>1, <2>4, <3>1, <3>3 DEF HoldInv, OneRelease
      <4>2. r \in DOMAIN Settled(v) /\ Settled(v)[r].wait.save /\ ~Settled(v)[r].saveDone
        BY <3>1, <3>3, <4>1, WaitsEntry
      <4>3. ~WaitOver(Settled(v)[r])
        BY <4>2 DEF WaitOver
      <4> QED BY <4>2, <4>3, WaitsEntry
    <3> QED BY <3>2, <3>3
  <2>5. status[r] # "finished" => r \notin DOMAIN waits'[v] /\ ~SentBy(v, r)'
    BY <1>5, <2>1, WaitsEntry
  <2>6. r \in DOMAIN waits'[v] => ~SentBy(v, r)'
    BY <1>5, <2>2, WaitsEntry
  <2>7. ~(v \in sentBy'[r] /\ <<v, r>> \in output'.sent)
    <3>1. r \in Released(v) => v \notin sentBy[r]
      BY <2>2, WaitsEntry DEF SentBy
    <3> QED BY <1>1, <1>5, <3>1 DEF HoldInv, OneRelease
  <2> QED BY <1>2, <2>4, <2>5, <2>6, <2>7, ExecSame DEF OneRelease
<1>7. Sources(v, r)'
  <2>1. ASSUME r \in DOMAIN source'[v], source'[v][r].state = "published"
        PROVE  /\ source'[v][r].table = TableOf(r)
               /\ r \in DOMAIN waits'[v] /\ waits'[v][r].wait.xfer /\ ~waits'[v][r].xferDone
    <3>0. r \notin SentNow(v)
      BY <2>1, SourcesEntry
    <3>1. CASE ReadyOf(v, r) # {} /\ \E y \in ReadyOf(v, r) : source'[v][r].table = y.table
      <4>1. source'[v][r].table = TableOf(r) /\ WaitsOf(v, r) # {} /\ \A x \in WaitsOf(v, r) : x.xfer
        BY <1>1, <3>1 DEF HoldInv, Sources
      <4>2. r \in DOMAIN Settled(v) /\ Settled(v)[r].wait.xfer /\ ~Settled(v)[r].xferDone
        BY <3>0, <4>1, WaitsEntry
      <4>3. ~WaitOver(Settled(v)[r])
        BY <4>2 DEF WaitOver
      <4> QED BY <4>1, <4>2, <4>3, WaitsEntry
    <3>2. CASE /\ r \in DOMAIN source[v] /\ source[v][r].state = "published"
               /\ source'[v][r].table = source[v][r].table
      <4>1. /\ source'[v][r].table = TableOf(r)
            /\ r \in DOMAIN waits[v] /\ waits[v][r].wait.xfer /\ ~waits[v][r].xferDone
        BY <1>1, <3>2 DEF HoldInv, Sources
      <4>2. WaitsOf(v, r) = {} /\ r \notin SavesIn
        BY <1>1, <4>1, SavesEntry DEF HoldInv, OneRelease, SavesHeld
      <4>3. r \in DOMAIN Settled(v) /\ Settled(v)[r].wait.xfer /\ ~Settled(v)[r].xferDone
        BY <3>0, <4>1, <4>2, WaitsEntry
      <4>4. ~WaitOver(Settled(v)[r])
        BY <4>3 DEF WaitOver
      <4> QED BY <4>1, <4>3, <4>4, WaitsEntry
    <3> QED BY <2>1, <3>1, <3>2, SourcesEntry
  <2> QED BY <1>2, <2>1, ExecSame DEF Sources
<1>8. Quiet(v, r)'
  <2>1. ASSUME status[r] = "waiting"
        PROVE  /\ r \notin DOMAIN getOp'[v] /\ r \notin DOMAIN onXfer'[v] /\ r \notin onSave'[v]
    <3>1. /\ r \notin DOMAIN getOp[v] /\ r \notin DOMAIN onXfer[v] /\ r \notin onSave[v]
          /\ PlansOf(v, r) = {} /\ LoadsOf(v, r) = {} /\ SavesOf(v, r) = {}
      BY <1>1, <1>2, <2>1 DEF HoldInv, Quiet, SavesHeld, LoadInv, LoadsNew, Remote
    <3> QED BY <3>1, GetsEntry, XfersEntry, PlansEntry, SavesEntry
  <2> QED BY <1>2, <2>1, ExecSame DEF Quiet
<1> QED BY <1>3, <1>4, <1>6, <1>7, <1>8 DEF HoldInv

\* A rank that does not run.
LEMMA ExecOther ==
  ASSUME EngineInv, NEW v \in Rank, Execute(v), NEW w \in Rank \ {v}, NEW r \in Req
  PROVE  LoadInv(w, r)' /\ HoldInv(w, r)'
<1>1. LoadInv(w, r) /\ HoldInv(w, r) /\ EngineTypeOK /\ Shapes
  BY DEF EngineInv
<1>2. /\ getOp'[w] = getOp[w] /\ putOp'[w] = putOp[w] /\ pull'[w] = pull[w]
      /\ source'[w] = source[w] /\ onLoad'[w] = onLoad[w] /\ onSave'[w] = onSave[w]
      /\ onXfer'[w] = onXfer[w] /\ waits'[w] = waits[w]
  BY <1>1, ExecOthers DEF Execute
<1>3. Due(w)' <=> Due(w)
  BY ExecSame DEF Due
<1>4. /\ LoadsOf(w, r)' = LoadsOf(w, r) /\ PlansOf(w, r)' = PlansOf(w, r)
      /\ SavesOf(w, r)' = SavesOf(w, r) /\ ReadyOf(w, r)' = ReadyOf(w, r)
      /\ WaitsOf(w, r)' = WaitsOf(w, r)
  <2>1. UNCHANGED <<batch, metadata, finishedWaits>>
    BY ExecSame
  <2> QED BY <1>3, <2>1 DEF LoadsOf, PlansOf, SavesOf, ReadyOf, WaitsOf, Keep
<1>5. /\ <<w, r>> \in output'.received <=> <<w, r>> \in output.received
      /\ <<w, r>> \in output'.sent <=> <<w, r>> \in output.sent
      /\ output.invalid \subseteq output'.invalid
  BY OutputEntry
<1>6. Unfenced(w, r)' <=> Unfenced(w, r)
  BY ExecSame DEF Unfenced
<1>7. computed[r] \in Tokens /\ computed[r] <= computed[r]
  BY <1>1, EngineAssumption DEF EngineTypeOK, Tokens
<1>8. KeepsLoad(w, r)
  BY <1>2, <1>4, <1>5, <1>7, ExecSame DEF KeepsLoad, SameAt, Reported
<1>9. KeepsCover(w, r)
  BY <1>5, <1>7, ExecSame DEF KeepsCover
<1>10. KeepsHold(w, r)
  BY <1>1, <1>2, <1>4, <1>5, <1>6, ExecSame DEF KeepsHold, SameAt, SentBy, HoldInv, SavesHeld
<1>11. LoadInv(w, r)'
  <2>1. Covers(w, r)'
    BY <1>1, <1>8, <1>9, FrameCovers DEF LoadInv
  <2> QED BY <1>1, <1>8, <2>1, FrameLoad
<1>12. HoldInv(w, r)'
  BY <1>1, <1>10, FrameHold
<1> QED BY <1>11, <1>12

\* Every rank keeps its loads and its releases right.
LEMMA ExecRanks ==
  ASSUME EngineInv, NEW v \in Rank, Execute(v), NEW w \in Rank, NEW r \in Req
  PROVE  LoadInv(w, r)' /\ HoldInv(w, r)'
<1>1. CASE w # v
  BY <1>1, ExecOther
<1>2. CASE w = v
  <2>1. LoadInv(v, r)'
    <3>1. r \in DOMAIN WithPlans(v) => r \in DOMAIN onXfer[v] \/ PlansOf(v, r) # {}
      BY PlansEntry
    <3> QED BY <3>1, ExecPlain, ExecNew, ExecOld
  <2> QED BY <1>2, <2>1, ExecHold
<1> QED BY <1>1, <1>2

\* What the worker of a rank that runs has afterwards is typed.
LEMMA ExecGetTypes ==
  ASSUME EngineInv, NEW v \in Rank, Execute(v), NEW r \in DOMAIN getOp'[v]
  PROVE  /\ r \in Req
         /\ getOp'[v][r] \in [table : Table, from : Tokens, to : Tokens, upto : Tokens,
                              state : {"busy", "done"}]
<1>1. EngineTypeOK /\ Shapes /\ WorkerTypeOK /\ SchedulerTypeOK
  BY DEF EngineInv, EngineTypeOK
<1>2. r \in Req
  <2>0. getOp'[v] = Over([x \in Reqs(metadata.loads) |-> NewGet(x)], Without(getOp[v], Got(v)))
    BY <1>1, ExecFields DEF Execute
  <2>1. DOMAIN getOp'[v] = Reqs(metadata.loads) \cup (DOMAIN getOp[v] \ Got(v))
    BY <2>0 DEF Over, Without
  <2>2. Reqs(metadata.loads) \subseteq Req
    BY <1>1 DEF Reqs, SchedulerTypeOK, LoadRequest
  <2> QED BY <1>1, <2>1, <2>2 DEF Shapes
<1>3. CASE LoadsOf(v, r) # {}
  <2>1. PICK x \in LoadsOf(v, r) :
          getOp'[v][r] = [table |-> x.table, from |-> x.from, to |-> x.to, upto |-> x.from,
                          state |-> "busy"]
    BY <1>2, <1>3, GetsEntry
  <2>2. x.table \in Table /\ x.from \in Tokens /\ x.to \in Tokens
    BY <1>1, <1>2, DueTypes DEF LoadRequest
  <2> QED BY <1>2, <2>1, <2>2
<1>4. CASE LoadsOf(v, r) = {}
  BY <1>1, <1>2, <1>4, GetsEntry DEF WorkerTypeOK
<1> QED BY <1>3, <1>4

\* ... its saves ...
LEMMA ExecPutTypes ==
  ASSUME EngineInv, NEW v \in Rank, Execute(v)
  PROVE  /\ \A r \in DOMAIN putOp'[v] : r \in Req /\ putOp'[v][r] \in [table : Table, state : {"busy", "done"}]
         /\ onSave'[v] \subseteq Req
<1>1. EngineTypeOK /\ Shapes /\ WorkerTypeOK /\ SchedulerTypeOK
  BY DEF EngineInv, EngineTypeOK
<1>2. SavesIn \subseteq Req
  BY <1>1 DEF SavesIn, Reqs, SchedulerTypeOK, SaveRequest
<1>3. DOMAIN putOp'[v] = SavesIn \cup (DOMAIN putOp[v] \ Put(v))
  <2>1. putOp'[v] = Over([x \in SavesIn |-> Op(Of(metadata.saves, x).table, "busy")],
                         Without(putOp[v], Put(v)))
    BY <1>1, ExecFields DEF Execute
  <2> QED BY <2>1 DEF Over, Without
<1>4. ASSUME NEW r \in DOMAIN putOp'[v]
      PROVE  r \in Req /\ putOp'[v][r] \in [table : Table, state : {"busy", "done"}]
  <2>1. r \in Req
    BY <1>1, <1>2, <1>3 DEF Shapes
  <2>2. CASE r \in SavesIn
    <3>1. PICK x \in SavesOf(v, r) : putOp'[v][r] = Op(x.table, "busy")
      BY <2>1, <2>2, SavesEntry
    <3>2. x.table \in Table
      BY <1>1, <2>1, DueTypes DEF SaveRequest
    <3> QED BY <2>1, <3>1, <3>2 DEF Op
  <2>3. CASE r \notin SavesIn
    BY <1>1, <2>1, <2>3, SavesEntry DEF WorkerTypeOK
  <2> QED BY <2>2, <2>3
<1>5. onSave'[v] \subseteq Req
  <2>1. onSave[v] \subseteq Req
    BY <1>1 DEF Shapes
  <2>2. onSave'[v] = (onSave[v] \cup SavesIn) \ Put(v)
    BY <1>1, ExecFields DEF Execute
  <2> QED BY <1>2, <2>1, <2>2
<1> QED BY <1>4, <1>5

\* ... its load requests ...
LEMMA ExecLoadTypes ==
  ASSUME EngineInv, NEW v \in Rank, Execute(v), NEW r \in DOMAIN WithLoads(v)
  PROVE  r \in Req /\ WithLoads(v)[r] \in LoadRequest
<1>1. EngineTypeOK /\ Shapes /\ WorkerTypeOK /\ SchedulerTypeOK
  BY DEF EngineInv, EngineTypeOK
<1>2. CASE r \in Reqs(metadata.loads)
  <2>1. WithLoads(v)[r] = Of(metadata.loads, r)
    BY <1>2 DEF WithLoads, Over
  <2>2. Of(metadata.loads, r) \in LoadRequest /\ Of(metadata.loads, r).req = r
    BY <1>1, <1>2, OneOf DEF SchedulerTypeOK
  <2> QED BY <2>1, <2>2 DEF LoadRequest
<1>3. CASE r \notin Reqs(metadata.loads)
  <2>1. r \in DOMAIN onLoad[v] /\ WithLoads(v)[r] = onLoad[v][r]
    BY <1>3 DEF WithLoads, Over
  <2> QED BY <1>1, <2>1 DEF WorkerTypeOK, Shapes
<1> QED BY <1>2, <1>3

\* ... its plans and receives ...
LEMMA ExecXferTypes ==
  ASSUME EngineInv, NEW v \in Rank, Execute(v)
  PROVE  /\ \A r \in Starts(v) : r \in Req /\ Prefix(v, r) \in Tokens
         /\ \A r \in DOMAIN onXfer'[v] : r \in Req /\ onXfer'[v][r] \in
              [plan : TransferPlan, stage : {"POOL_LOADING", "POOL_DONE", "TRANSFER_LOADING"},
               A : Tokens]
         /\ \A r \in DOMAIN pull'[v] : r \in Req /\ pull'[v][r] \in
              [table : Table, from : Tokens, to : Tokens, state : {"busy", "ok", "error"}]
<1>1. EngineTypeOK /\ Shapes /\ WorkerTypeOK
  BY DEF EngineInv, EngineTypeOK
<1>2. ASSUME NEW r \in Starts(v) PROVE r \in Req /\ Prefix(v, r) \in Tokens
  <2>1. r \in DOMAIN WithPlans(v)
    BY DEF Starts
  <2>2. r \in Req /\ WithPlans(v)[r].plan.L \in Tokens
    BY <2>1, PlansShape DEF TransferPlan
  <2>3. WithPlans(v)[r].stage # "POOL_DONE" => r \in DOMAIN getOp[v] /\ getOp[v][r].upto \in Tokens
    BY <1>1, <2>2, GetsEntry DEF Starts, WorkerTypeOK
  <2> QED BY <2>2, <2>3 DEF Prefix, ActualPrefix
<1>3. /\ DOMAIN onXfer'[v] \subseteq DOMAIN WithPlans(v)
      /\ DOMAIN pull'[v] \subseteq Starts(v) \cup DOMAIN pull[v]
  <2>1. /\ pull'[v] = Over([x \in Starts(v) |->
                             [table |-> WithPlans(v)[x].plan.table, from |-> Prefix(v, x),
                              to |-> WithPlans(v)[x].plan.T, state |-> "busy"]],
                          Without(pull[v], Pulled(v)))
        /\ onXfer'[v] = [x \in DOMAIN WithPlans(v) \ Ended(v) |->
                           IF x \in Starts(v)
                           THEN [WithPlans(v)[x] EXCEPT !.stage = "TRANSFER_LOADING",
                                                        !.A = Prefix(v, x)]
                           ELSE WithPlans(v)[x]]
    BY <1>1, ExecFields DEF Execute
  <2>2. DOMAIN onXfer'[v] \subseteq DOMAIN WithPlans(v)
    BY <2>1
  <2>3. DOMAIN pull'[v] \subseteq Starts(v) \cup DOMAIN pull[v]
    BY <2>1 DEF Over, Without
  <2> QED BY <2>2, <2>3
<1>4. ASSUME NEW r \in DOMAIN onXfer'[v]
      PROVE  r \in Req /\ onXfer'[v][r] \in
              [plan : TransferPlan, stage : {"POOL_LOADING", "POOL_DONE", "TRANSFER_LOADING"},
               A : Tokens]
  <2>0. r \in Starts(v) =>
          onXfer'[v][r] = [WithPlans(v)[r] EXCEPT !.stage = "TRANSFER_LOADING",
                                                  !.A = Prefix(v, r)]
    <3>1. r \in Req
      BY <1>3, PlansShape
    <3> QED BY <3>1, XfersEntry
  <2> DEFINE W == WithPlans(v)[r]
             a == Prefix(v, r)
             T == [plan : TransferPlan, stage : {"POOL_LOADING", "POOL_DONE", "TRANSFER_LOADING"},
                   A : Tokens]
  <2>1. r \in Req /\ W \in T
    BY <1>3, PlansShape
  <2>2. CASE r \in Starts(v)
    <3>1. a \in Tokens /\ onXfer'[v][r] = [W EXCEPT !.stage = "TRANSFER_LOADING", !.A = a]
      BY <1>2, <2>0, <2>2
    <3> HIDE DEF W, a
    <3> QED BY <2>1, <3>1
  <2>3. CASE r \notin Starts(v)
    BY <2>1, <2>3, XfersEntry
  <2> QED BY <2>1, <2>2, <2>3
<1>5. ASSUME NEW r \in DOMAIN pull'[v]
      PROVE  r \in Req /\ pull'[v][r] \in
              [table : Table, from : Tokens, to : Tokens, state : {"busy", "ok", "error"}]
  <2>1. r \in Req
    BY <1>1, <1>2, <1>3 DEF Shapes
  <2>2. CASE r \in Starts(v)
    <3>1. r \in DOMAIN WithPlans(v)
      BY <2>2 DEF Starts
    <3>2. WithPlans(v)[r].plan.table \in Table /\ WithPlans(v)[r].plan.T \in Tokens
      BY <3>1, PlansShape DEF TransferPlan
    <3>3. pull'[v][r] = [table |-> WithPlans(v)[r].plan.table, from |-> Prefix(v, r),
                         to |-> WithPlans(v)[r].plan.T, state |-> "busy"]
      BY <2>1, <2>2, XfersEntry
    <3> QED BY <1>2, <2>1, <2>2, <3>2, <3>3
  <2>3. CASE r \notin Starts(v)
    BY <1>1, <2>1, <2>3, XfersEntry DEF WorkerTypeOK
  <2> QED BY <2>1, <2>2, <2>3
<1> QED BY <1>2, <1>4, <1>5

\* ... its sources ...
LEMMA ExecSourceTypes ==
  ASSUME EngineInv, NEW v \in Rank, Execute(v), NEW r \in DOMAIN source'[v]
  PROVE  r \in Req /\ source'[v][r] \in [table : Table, state : {"prepared", "published", "sent"}]
<1> DEFINE new   == {y \in metadata.states : y.state = "ready"}
           gone  == {x.req : x \in {y \in metadata.states : y.state = "cancelled"}}
           early == {y \in metadata.states : y.state = "prepare"}
           rest  == Over(Without(source[v], gone),
                         [x \in Reqs(early) |-> Op(Of(early, x).table, "prepared")])
<1>0. EngineTypeOK /\ Shapes /\ WorkerTypeOK /\ SchedulerTypeOK
  BY DEF EngineInv, EngineTypeOK
<1>1. source'[v] = Without(WithSources(v), SentNow(v))
  BY <1>0, ExecFields DEF Execute
<1>2. r \in DOMAIN WithSources(v) /\ source'[v][r] = WithSources(v)[r]
  BY <1>1 DEF Without
<1>3. WithSources(v) = Over([x \in Reqs(new) |-> Op(Of(new, x).table, "published")], rest)
  BY DEF WithSources
<1>4. new \subseteq SourceState /\ early \subseteq SourceState
  BY <1>0 DEF SchedulerTypeOK
<1> HIDE DEF new, rest, early
<1>5. CASE r \in Reqs(new)
  <2>1. WithSources(v)[r] = Op(Of(new, r).table, "published")
    BY <1>3, <1>5 DEF Over
  <2>2. Of(new, r) \in SourceState /\ Of(new, r).req = r
    BY <1>4, <1>5, OneOf
  <2> QED BY <1>2, <2>1, <2>2 DEF Op, SourceState
<1>6. CASE r \notin Reqs(new)
  <2>1. r \in DOMAIN rest /\ WithSources(v)[r] = rest[r]
    BY <1>2, <1>3, <1>6 DEF Over
  <2>2. CASE r \in DOMAIN Without(source[v], gone)
    <3>1. r \in DOMAIN source[v] /\ rest[r] = source[v][r]
      BY <2>2 DEF rest, Over, Without
    <3> QED BY <1>0, <1>2, <2>1, <3>1 DEF WorkerTypeOK, Shapes
  <2>3. CASE r \notin DOMAIN Without(source[v], gone)
    <3>1. r \in Reqs(early) /\ rest[r] = Op(Of(early, r).table, "prepared")
      BY <2>1, <2>3 DEF rest, Over
    <3>2. Of(early, r) \in SourceState /\ Of(early, r).req = r
      BY <1>4, <3>1, OneOf
    <3> QED BY <1>2, <2>1, <3>1, <3>2 DEF Op, SourceState
  <2> QED BY <2>2, <2>3
<1> QED BY <1>5, <1>6

\* ... and its waits.
LEMMA ExecWaitTypes ==
  ASSUME EngineInv, NEW v \in Rank, Execute(v), NEW r \in DOMAIN waits'[v]
  PROVE  r \in Req /\ waits'[v][r] \in [wait : Wait, saveDone : BOOLEAN, xferDone : BOOLEAN]
<1> DEFINE T == [wait : Wait, saveDone : BOOLEAN, xferDone : BOOLEAN]
<1>1. EngineTypeOK /\ Shapes /\ WorkerTypeOK
  BY DEF EngineInv, EngineTypeOK
<1>2. waits'[v] = Without(Settled(v), Released(v))
  BY <1>1, ExecFields DEF Execute
<1>3. r \in DOMAIN Settled(v) /\ waits'[v][r] = Settled(v)[r]
  BY <1>2 DEF Without
<1>4. /\ r \in DOMAIN WithWaits(v)
      /\ Settled(v)[r] = [WithWaits(v)[r] EXCEPT !.saveDone = @ \/ r \in Put(v),
                                                 !.xferDone = @ \/ r \in SentNow(v)]
  BY <1>3 DEF Settled
<1>5. r \in Req
  BY <1>1, <1>4 DEF WithWaits, Over, Shapes
<1>6. WithWaits(v)[r] \in T
  <2>1. CASE r \in DOMAIN waits[v]
    <3>1. waits[v][r] \in T
      BY <1>1, <2>1 DEF WorkerTypeOK
    <3>2. [waits[v][r] EXCEPT !.saveDone = FALSE] \in T
      BY <3>1
    <3>3. \/ WithWaits(v)[r] = waits[v][r]
          \/ WithWaits(v)[r] = [waits[v][r] EXCEPT !.saveDone = FALSE]
      BY <2>1 DEF WithWaits, Over
    <3> QED BY <3>1, <3>2, <3>3
  <2>2. CASE r \notin DOMAIN waits[v]
    <3> DEFINE b == SaveOver(v, r)
    <3>1. r \in DOMAIN metadata.waits /\ metadata.waits[r] \in Wait /\ b \in BOOLEAN
      BY <1>1, <1>4, <2>2 DEF WithWaits, Over, Shapes, SaveOver
    <3>2. WithWaits(v)[r] = [wait |-> metadata.waits[r], saveDone |-> b, xferDone |-> FALSE]
      BY <2>2, <3>1 DEF WithWaits, Over
    <3> HIDE DEF b
    <3> QED BY <3>1, <3>2
  <2> QED BY <2>1, <2>2
<1>7. Settled(v)[r] \in T
  <2> DEFINE x == r \in Put(v)
             y == r \in SentNow(v)
             W == WithWaits(v)[r]
  <2>1. x \in BOOLEAN /\ y \in BOOLEAN /\ W \in T
    BY <1>6
  <2>2. Settled(v)[r] = [W EXCEPT !.saveDone = @ \/ x, !.xferDone = @ \/ y]
    BY <1>4
  <2> HIDE DEF x, y, W
  <2> QED BY <2>1, <2>2
<1> QED BY <1>3, <1>5, <1>7

\* get_finished keeps the workers typed.
LEMMA ExecWorkerType ==
  ASSUME EngineInv, NEW v \in Rank, Execute(v)
  PROVE  WorkerTypeOK'
<1>1. EngineTypeOK /\ Shapes /\ WorkerTypeOK
  BY DEF EngineInv, EngineTypeOK
<1>2. valid' = valid
  BY ExecSame
<1>3. ASSUME NEW w \in Rank, NEW r \in DOMAIN getOp'[w]
      PROVE  getOp'[w][r] \in [table : Table, from : Tokens, to : Tokens, upto : Tokens,
                               state : {"busy", "done"}]
  <2>1. w # v => getOp'[w] = getOp[w]
    BY <1>1, ExecOthers DEF Execute
  <2>2. w = v => getOp'[w][r] \in [table : Table, from : Tokens, to : Tokens, upto : Tokens,
                                   state : {"busy", "done"}]
    BY ExecGetTypes
  <2> QED BY <1>1, <2>1, <2>2 DEF WorkerTypeOK
<1>4. ASSUME NEW w \in Rank
      PROVE  /\ \A r \in DOMAIN putOp'[w] : putOp'[w][r] \in [table : Table, state : {"busy", "done"}]
             /\ onSave'[w] \subseteq Req
  <2>1. w # v => putOp'[w] = putOp[w] /\ onSave'[w] = onSave[w]
    BY <1>1, ExecOthers DEF Execute
  <2> QED BY <1>1, <2>1, ExecPutTypes DEF WorkerTypeOK
<1>5. ASSUME NEW w \in Rank
      PROVE  /\ \A r \in DOMAIN pull'[w] : pull'[w][r] \in
                  [table : Table, from : Tokens, to : Tokens, state : {"busy", "ok", "error"}]
             /\ \A r \in DOMAIN onXfer'[w] : onXfer'[w][r] \in
                  [plan : TransferPlan, stage : {"POOL_LOADING", "POOL_DONE", "TRANSFER_LOADING"},
                   A : Tokens]
  <2>1. w # v => pull'[w] = pull[w] /\ onXfer'[w] = onXfer[w]
    BY <1>1, ExecOthers DEF Execute
  <2> QED BY <1>1, <2>1, ExecXferTypes DEF WorkerTypeOK
<1>6. ASSUME NEW w \in Rank, NEW r \in DOMAIN source'[w]
      PROVE  source'[w][r] \in [table : Table, state : {"prepared", "published", "sent"}]
  <2>1. w # v => source'[w] = source[w]
    BY <1>1, ExecOthers DEF Execute
  <2>2. w = v => source'[w][r] \in [table : Table, state : {"prepared", "published", "sent"}]
    BY ExecSourceTypes
  <2> QED BY <1>1, <2>1, <2>2 DEF WorkerTypeOK
<1>7. ASSUME NEW w \in Rank, NEW r \in DOMAIN onLoad'[w]
      PROVE  onLoad'[w][r] \in LoadRequest
  <2>1. w # v => onLoad'[w] = onLoad[w]
    BY <1>1, ExecOthers DEF Execute
  <2>2. CASE w = v
    <3>1. onLoad'[v] = Without(WithLoads(v), Got(v))
      BY <1>1, ExecFields DEF Execute
    <3>2. r \in DOMAIN WithLoads(v) /\ onLoad'[v][r] = WithLoads(v)[r]
      BY <2>2, <3>1 DEF Without
    <3> QED BY <2>2, <3>2, ExecLoadTypes
  <2> QED BY <1>1, <2>1, <2>2 DEF WorkerTypeOK
<1>8. ASSUME NEW w \in Rank, NEW r \in DOMAIN waits'[w]
      PROVE  waits'[w][r] \in [wait : Wait, saveDone : BOOLEAN, xferDone : BOOLEAN]
  <2>1. w # v => waits'[w] = waits[w]
    BY <1>1, ExecOthers DEF Execute
  <2>2. w = v => waits'[w][r] \in [wait : Wait, saveDone : BOOLEAN, xferDone : BOOLEAN]
    BY ExecWaitTypes
  <2> QED BY <1>1, <2>1, <2>2 DEF WorkerTypeOK
<1>9. \A w \in Rank : valid'[w] \subseteq Table \X Tokens
  BY <1>1, <1>2 DEF WorkerTypeOK
<1> QED BY <1>3, <1>4, <1>5, <1>6, <1>7, <1>8, <1>9 DEF WorkerTypeOK

\* ... and their dictionaries and outputs about known requests.
LEMMA ExecShapes ==
  ASSUME EngineInv, NEW v \in Rank, Execute(v)
  PROVE  Shapes'
<1>1. EngineTypeOK /\ Shapes
  BY DEF EngineInv
<1>2. /\ getOp' = [w \in Rank |-> getOp'[w]] /\ putOp' = [w \in Rank |-> putOp'[w]]
      /\ pull' = [w \in Rank |-> pull'[w]] /\ source' = [w \in Rank |-> source'[w]]
      /\ onLoad' = [w \in Rank |-> onLoad'[w]] /\ onXfer' = [w \in Rank |-> onXfer'[w]]
      /\ waits' = [w \in Rank |-> waits'[w]] /\ onSave' = [w \in Rank |-> onSave'[w]]
      /\ valid' = valid
  BY <1>1, ExecFrame DEF Execute
<1>3. onSave' \in [Rank -> SUBSET Req]
  <2>1. \A w \in Rank : onSave'[w] \in SUBSET Req
    BY ExecWorkerType DEF WorkerTypeOK
  <2> QED BY <1>2, <2>1
<1>4. ASSUME NEW w \in Rank
      PROVE  /\ DOMAIN getOp'[w] \subseteq Req /\ DOMAIN putOp'[w] \subseteq Req
             /\ DOMAIN pull'[w] \subseteq Req /\ DOMAIN source'[w] \subseteq Req
             /\ DOMAIN onLoad'[w] \subseteq Req /\ DOMAIN onXfer'[w] \subseteq Req
             /\ DOMAIN waits'[w] \subseteq Req
  <2>1. CASE w # v
    BY <1>1, <2>1, ExecOthers DEF Execute, Shapes
  <2>2. DOMAIN getOp'[v] \subseteq Req /\ DOMAIN putOp'[v] \subseteq Req
    BY ExecGetTypes, ExecPutTypes
  <2>3. DOMAIN pull'[v] \subseteq Req /\ DOMAIN onXfer'[v] \subseteq Req
    BY ExecXferTypes
  <2>4. DOMAIN source'[v] \subseteq Req /\ DOMAIN waits'[v] \subseteq Req
    BY ExecSourceTypes, ExecWaitTypes
  <2>5. DOMAIN onLoad'[v] \subseteq Req
    <3>1. onLoad'[v] = Without(WithLoads(v), Got(v))
      BY <1>1, ExecFields DEF Execute
    <3>2. DOMAIN onLoad'[v] \subseteq DOMAIN WithLoads(v)
      BY <3>1 DEF Without
    <3> QED BY <3>2, ExecLoadTypes
  <2> QED BY <2>1, <2>2, <2>3, <2>4, <2>5
<1>5. output'.reports \subseteq [req : Req, rank : Rank, id : LoadId]
  <2>1. output'.reports = output.reports
                          \cup {Report(v, r, WithLoads(v)[r].id) :
                                  r \in Plain(v) \cap DOMAIN WithLoads(v)}
                          \cup {Report(v, r, WithPlans(v)[r].plan.id) : r \in Ended(v)}
    BY ExecOutput DEF Execute
  <2>2. \A r \in DOMAIN WithLoads(v) :
          Report(v, r, WithLoads(v)[r].id) \in [req : Req, rank : Rank, id : LoadId]
    BY ExecLoadTypes DEF Report, LoadRequest
  <2>3. ASSUME NEW r \in Ended(v)
        PROVE  Report(v, r, WithPlans(v)[r].plan.id) \in [req : Req, rank : Rank, id : LoadId]
    <3>1. r \in DOMAIN WithPlans(v)
      BY DEF Ended
    <3>2. r \in Req /\ WithPlans(v)[r].plan.id \in LoadId
      BY <3>1, PlansShape DEF TransferPlan
    <3> QED BY <3>2 DEF Report
  <2> QED BY <1>1, <2>1, <2>2, <2>3 DEF Shapes
<1>6. output'.received \subseteq Rank \X Req
  <2>1. output'.received = output.received
                           \cup {<<v, r>> : r \in Plain(v)
                                   \cup {x \in Ended(v) : Awaited(WithPlans(v)[x].plan)}}
    BY ExecOutput DEF Execute
  <2>2. Plain(v) \subseteq Req /\ Ended(v) \subseteq Req
    BY <1>1 DEF Plain, Got, Ended, Pulled, In, Shapes
  <2> QED BY <1>1, <2>1, <2>2 DEF Shapes
<1>7. output'.sent \subseteq Rank \X Req
  <2>1. output'.sent = output.sent \cup {<<v, r>> : r \in Released(v)}
    BY ExecOutput DEF Execute
  <2>2. Released(v) \subseteq Req
    BY <1>1 DEF Released, Settled, WithWaits, Over, Shapes
  <2> QED BY <1>1, <2>1, <2>2 DEF Shapes
<1>8. UNCHANGED <<batch, metadata>>
  BY ExecSame
<1> QED BY <1>1, <1>2, <1>3, <1>4, <1>5, <1>6, <1>7, <1>8 DEF Shapes

\* get_finished leaves the requests to vLLM.
LEMMA ExecRequests ==
  ASSUME EngineInv, NEW v \in Rank, Execute(v)
  PROVE  /\ EngineTypeOK' /\ Shapes' /\ IdsBounded' /\ StepShape'
         /\ \A r \in Req : RequestInv(r)'
<1>1. EngineTypeOK /\ Shapes /\ StepShape
  BY DEF EngineInv
<1>2. EngineTypeOK'
  <2>1. SchedulerTypeOK'
    BY <1>1, SchedulerSame DEF Execute, EngineTypeOK
  <2>2. WorkerTypeOK'
    BY ExecWorkerType
  <2>3. ran' \subseteq fenced'
    BY <1>1 DEF Execute, EngineTypeOK
  <2> QED BY <1>1, <2>1, <2>2, <2>3 DEF Execute, EngineTypeOK, vllmVars
<1>3. IdsBounded'
  BY DEF Execute, schedVars, vllmVars, EngineInv, IdsBounded, TablesUsed
<1>4. StepShape'
  BY <1>1 DEF Execute, schedVars, StepShape
<1>5. ASSUME NEW r \in Req PROVE RequestInv(r)'
  BY DEF Execute, schedVars, trackVars, decideVars, vllmVars, EngineInv, RequestInv, InStep,
         Decided, Remembers
<1> QED BY <1>2, <1>3, <1>4, <1>5, ExecShapes

-----------------------------------------------------------------------------
\* Every step keeps the invariant.

\* The steps of schedule() keep the invariant, and so does an abort.
LEMMA ScheduleKeeps ==
  ASSUME EngineInv, NEW q \in Req, ScheduleStep(q) \/ Preempt(q) \/ Abort(q)
  PROVE  EngineInv'
<1>1. ASSUME NEW L \in 0 .. Prompt, NEW H \in 0 .. Prompt, Lookup(q, L, H) PROVE EngineInv'
  BY <1>1, LookupRequests, LookupRanks DEF EngineInv
<1>2. ASSUME NEW after \in Tokens, Allocate(q, after) PROVE EngineInv'
  BY <1>2, AllocateRequests, AllocateRanks DEF EngineInv
<1>3. ASSUME NEW after \in Tokens, Resume(q, after) PROVE EngineInv'
  BY <1>3, ResumeRequests, ResumeRanks DEF EngineInv
<1>4. ASSUME NEW after \in Tokens, Continue(q, after) PROVE EngineInv'
  BY <1>4, ContinueRequests, ContinueRanks DEF EngineInv
<1>5. CASE Preempt(q)
  BY <1>5, PreemptRequests, PreemptRanks DEF EngineInv
<1>6. CASE Abort(q)
  BY <1>6, AbortEnds
<1> QED BY <1>1, <1>2, <1>3, <1>4, <1>5, <1>6 DEF ScheduleStep

\* Building the metadata and what follows the outputs keep it.
LEMMA UpdateKeeps ==
  ASSUME EngineInv, Build \/ UpdateStep
  PROVE  EngineInv'
<1>1. CASE Build
  BY <1>1, BuildTypes, BuildRequests, BuildRanks DEF EngineInv
<1>2. ASSUME NEW stops \in SUBSET Req, ModelOutput(stops) PROVE EngineInv'
  BY <1>2, OutputRequests, OutputRanks DEF EngineInv
<1>3. ASSUME NEW q \in Req, NEW capped \in BOOLEAN, Stop(q, capped) PROVE EngineInv'
  BY <1>3, StopEnds
<1>4. CASE ConnectorOutput
  BY <1>4, ConnectorRequests, ConnectorRanks DEF EngineInv
<1> QED BY <1>1, <1>2, <1>3, <1>4 DEF UpdateStep

\* The steps of a rank keep it.
LEMMA RankKeeps ==
  ASSUME EngineInv, NEW v \in Rank, Fence(v) \/ Execute(v) \/ IO(v)
  PROVE  EngineInv'
<1>1. CASE Fence(v)
  BY <1>1, FenceRequests, FenceRanks DEF EngineInv
<1>2. CASE Execute(v)
  BY <1>2, ExecRequests, ExecRanks DEF EngineInv
<1>3. CASE IO(v)
  BY <1>3, IORequests, IORanks DEF EngineInv
<1> QED BY <1>1, <1>2, <1>3

\* And so does a step of something else.
LEMMA StutterKeeps == EngineInv /\ UNCHANGED engineVars => EngineInv'
<1> SUFFICES ASSUME EngineInv, UNCHANGED engineVars PROVE EngineInv'
  OBVIOUS
<1>1. UNCHANGED <<schedVars, workerVars, stepVars, vllmVars>>
  BY DEF engineVars
<1>2. EngineTypeOK'
  BY <1>1, SchedulerSame, WorkerSame DEF EngineInv, EngineTypeOK, stepVars, vllmVars
<1>3. Shapes' /\ IdsBounded' /\ StepShape'
  BY <1>1 DEF EngineInv, Shapes, IdsBounded, TablesUsed, StepShape, schedVars, workerVars,
              backends, stepVars, vllmVars
<1>4. ASSUME NEW r \in Req PROVE RequestInv(r)'
  BY <1>1 DEF EngineInv, RequestInv, InStep, Decided, Remembers, schedVars, trackVars,
              decideVars, stepVars, vllmVars
<1>5. ASSUME NEW w \in Rank, NEW r \in Req PROVE LoadInv(w, r)' /\ HoldInv(w, r)'
  <2>1. UNCHANGED <<batch, metadata, finishedWaits, phase, ran, table, local, computed, receivedBy,
                    sentBy, getOp, putOp, pull, source, onLoad, onSave, onXfer, waits, valid,
                    output, saving, status, preempting, fenced>>
    BY <1>1 DEF schedVars, trackVars, workerVars, backends, stepVars, vllmVars
  <2>2. Unfenced(w, r)' <=> Unfenced(w, r)
    BY <2>1 DEF Unfenced
  <2> QED BY <2>1, <2>2, StatusOnly
<1> QED BY <1>2, <1>3, <1>4, <1>5 DEF EngineInv

\* EngineInv is inductive.
THEOREM EngineInductive == EngineSpec => []EngineInv
<1>1. EngineInit => EngineInv
  BY InitInv
<1>2. EngineInv /\ [EngineNext]_engineVars => EngineInv'
  BY ScheduleKeeps, UpdateKeeps, RankKeeps, StutterKeeps DEF EngineNext
<1> QED BY <1>1, <1>2, PTL DEF EngineSpec

-----------------------------------------------------------------------------
\* What follows.

\* Type correctness of scheduler.py and worker.py under vLLM: load ids and
\* the tables that requests, plans and operations name stay in their bounds.
THEOREM EngineTypeCorrect == EngineSpec => []EngineTypeOK
<1>1. EngineInv => EngineTypeOK
  BY DEF EngineInv
<1> QED BY <1>1, EngineInductive, PTL

\* The invariant leaves no I/O on blocks that vLLM has back.
LEMMA InvQuiet == EngineInv => BlocksQuiet
<1> SUFFICES ASSUME EngineInv, NEW w \in Rank, NEW r \in Req
             PROVE  /\ Uses(w, r) \subseteq IF Held(r) \/ Unfenced(w, r) THEN {TableOf(r)} ELSE {}
                    /\ ~(r \in In(getOp[w], "busy") /\ r \in In(pull[w], "busy"))
  BY DEF BlocksQuiet
<1>1. LoadInv(w, r) /\ HoldInv(w, r) /\ RequestInv(r) /\ WorkerTypeOK
  BY DEF EngineInv, EngineTypeOK
<1>2. r \in DOMAIN getOp[w] => getOp[w][r].table = TableOf(r) /\ Held(r)
  BY <1>1 DEF LoadInv, Gets, Remote, Held
<1>3. r \in DOMAIN putOp[w] => putOp[w][r].table = TableOf(r) /\ (Held(r) \/ Unfenced(w, r))
  BY <1>1 DEF HoldInv, SavesHeld, Books, RequestInv, Remembers, Held, Unfenced
<1>4. ASSUME r \in DOMAIN pull[w]
      PROVE  /\ pull[w][r].table = TableOf(r)
             /\ "from" \in DOMAIN pull[w][r]
             /\ pull[w][r].from # pull[w][r].to => Held(r)
  <2>1. /\ r \in DOMAIN onXfer[w] /\ onXfer[w][r].stage = "TRANSFER_LOADING"
        /\ pull[w][r].table = TableOf(r) /\ pull[w][r].from = onXfer[w][r].A
        /\ pull[w][r].to = onXfer[w][r].plan.T
    BY <1>1, <1>4 DEF LoadInv, Pulls
  <2>2. /\ onXfer[w][r].plan.L <= onXfer[w][r].A /\ onXfer[w][r].A <= onXfer[w][r].plan.T
        /\ Awaited(onXfer[w][r].plan) <=> Remote(r)
    BY <1>1, <2>1 DEF LoadInv, Transfers
  <2>3. /\ onXfer[w][r].plan.L \in Int /\ onXfer[w][r].A \in Int /\ onXfer[w][r].plan.T \in Int
    BY <1>1, <2>1, EngineAssumption DEF WorkerTypeOK, TransferPlan, Tokens
  <2>4. pull[w][r].from # pull[w][r].to => Remote(r)
    BY <2>1, <2>2, <2>3 DEF Awaited
  <2>5. "from" \in DOMAIN pull[w][r]
    BY <1>1, <1>4 DEF WorkerTypeOK
  <2> QED BY <2>1, <2>4, <2>5 DEF Remote, Held
<1>5. r \in DOMAIN source[w] /\ source[w][r].state = "published" =>
        source[w][r].table = TableOf(r) /\ Held(r)
  BY <1>1 DEF HoldInv, Sources, OneRelease, Held
<1>6. Uses(w, r) \subseteq IF Held(r) \/ Unfenced(w, r) THEN {TableOf(r)} ELSE {}
  <2>1. ASSUME NEW x \in {getOp[w], putOp[w], pull[w], source[w]}, r \in DOMAIN x,
               x[r].state \in {"busy", "published"},
               ~("from" \in DOMAIN x[r] /\ x[r].from = x[r].to)
        PROVE  x[r].table = TableOf(r) /\ (Held(r) \/ Unfenced(w, r))
    <3>1. CASE x = getOp[w]
      BY <1>2, <2>1, <3>1
    <3>2. CASE x = putOp[w]
      BY <1>3, <2>1, <3>2
    <3>3. CASE x = pull[w]
      BY <1>4, <2>1, <3>3
    <3>4. CASE x = source[w]
      <4>1. source[w][r].state # "busy"
        BY <1>1, <2>1, <3>4 DEF WorkerTypeOK
      <4> QED BY <1>5, <2>1, <3>4, <4>1
    <3> QED BY <3>1, <3>2, <3>3, <3>4
  <2> QED BY <2>1 DEF Uses
<1>7. ~(r \in In(getOp[w], "busy") /\ r \in In(pull[w], "busy"))
  BY <1>1 DEF LoadInv, Gets, Pulls, In
<1> QED BY <1>6, <1>7

\* No GET, PUT, receive or published source uses blocks that vLLM has back
\* (worker.py get_finished and handle_preemptions), and P is asked for blocks
\* only when the GET into the same request is over.
THEOREM BlocksStayQuiet == EngineSpec => []BlocksQuiet
BY InvQuiet, EngineInductive, PTL

\* The invariant has every computed block of a loaded request filled.
LEMMA InvLoaded == EngineInv => LoadedIsValid
BY DEF EngineInv, LoadInv, Covers, Filled, LoadedIsValid

\* What vLLM takes for computed after a remote load is loaded on every rank:
\* partial GETs and failed receives (worker.py _aggregate_recv_finished) are
\* reported as invalid before the load is reported as over.
THEOREM LoadedStaysValid == EngineSpec => []LoadedIsValid
BY InvLoaded, EngineInductive, PTL

\* The invariant has reports only of what vLLM waits for, once per rank.
LEMMA InvReports == EngineInv => ReportsExpected
<1> SUFFICES ASSUME EngineInv PROVE ReportsExpected
  OBVIOUS
<1>1. ASSUME NEW x \in output.received
      PROVE  status[x[2]] \in {"remote", "aborted"} /\ x[1] \notin receivedBy[x[2]]
  <2>1. PICK w \in Rank, r \in Req : x = <<w, r>>
    BY DEF EngineInv, Shapes
  <2>2. OneReport(w, r) /\ Reported(w, r)
    BY <2>1 DEF EngineInv, LoadInv, Reported
  <2> QED BY <2>1, <2>2 DEF OneReport, Remote
<1>2. ASSUME NEW x \in output.sent
      PROVE  status[x[2]] = "finished" /\ x[1] \notin sentBy[x[2]]
  <2>1. PICK w \in Rank, r \in Req : x = <<w, r>>
    BY DEF EngineInv, Shapes
  <2>2. OneRelease(w, r) /\ SentBy(w, r)
    BY <2>1 DEF EngineInv, HoldInv, SentBy
  <2> QED BY <2>1, <2>2 DEF OneRelease
<1> QED BY <1>1, <1>2 DEF ReportsExpected

\* get_finished reports a load or a release only while vLLM waits for it, and
\* each rank reports it once.
THEOREM ReportsAreExpected == EngineSpec => []ReportsExpected
BY InvReports, EngineInductive, PTL

\* The invariant has nothing remembered of a request that is gone.
LEMMA InvForgotten == EngineInv => NothingRemembered
<1> SUFFICES ASSUME EngineInv, NEW r \in Req, status[r] = "gone", r \notin ended
             PROVE  r \notin Remembered
  BY DEF NothingRemembered
<1>1. RequestInv(r)
  BY DEF EngineInv
<1>2. r \notin DOMAIN finishedWaits
  <2>1. PICK w \in Rank : TRUE
    BY EngineAssumption
  <2>2. WaitsOf(w, r) = {}
    BY DEF EngineInv, HoldInv, OneRelease
  <2> QED BY <2>2 DEF WaitsOf
<1> QED BY <1>1, <1>2 DEF RequestInv, Decided, Remembers, Remembered

\* The scheduler (request_finished, update_connector_output and
\* build_connector_meta) keeps nothing of a request that is gone.
THEOREM NothingStaysRemembered == EngineSpec => []NothingRemembered
BY InvForgotten, EngineInductive, PTL

-----------------------------------------------------------------------------
(***************************************************************************)
(* The contracts of the two backends.  A request is planned once: while it *)
(* may still be planned it has no plan, due or under way.                  *)
(***************************************************************************)
PlannedOnce ==
  \A w \in Rank : \A r \in remotePrefill : r \notin DOMAIN onXfer[w] /\ PlansOf(w, r) = {}

\* A plan is due, or the worker has it.
LEMMA PlannedIs ==
  ASSUME NEW w \in Rank, NEW r \in Req
  PROVE  /\ Planned(w, r) <=> r \in DOMAIN onXfer[w] \/ PlansOf(w, r) # {}
         /\ Planned(w, r)' <=> r \in DOMAIN onXfer'[w] \/ PlansOf(w, r)' # {}
BY DEF Planned, PlansOf, Due, Keep

\* update_state_after_alloc is the end of do_remote_prefill.
LEMMA AllocPlans ==
  ASSUME EngineInv, NEW q \in Req, NEW t, UpdateStateAfterAlloc(q, t),
         UNCHANGED <<phase, ran, onXfer>>, NEW w \in Rank, NEW r \in Req
  PROVE  /\ r \in remotePrefill' => r \in remotePrefill /\ PlansOf(w, r)' = PlansOf(w, r)
         /\ (r \in remotePrefill \/ Planned(w, r))' <=> r \in remotePrefill \/ Planned(w, r)
<1>1. Shapes /\ Decided(q)
  BY DEF EngineInv, RequestInv
<1>2. remotePrefill' = remotePrefill \ Keep({q}, q \in DOMAIN xferDecision)
  BY DEF UpdateStateAfterAlloc, PrefillAfter
<1>3. q \in DOMAIN xferDecision => q \in remotePrefill
  BY <1>1 DEF Decided
<1>4. CASE r # q
  BY <1>1, <1>2, <1>4, AllocOthers, PlannedIs DEF Keep
<1>5. CASE r = q
  <2>1. PlansOf(w, q)' = PlansOf(w, q) \cup Keep({NewPlan(q, t)}, q \in DOMAIN xferDecision)
    BY <1>1, AllocDues
  <2> QED BY <1>2, <1>3, <1>5, <2>1, PlannedIs DEF Keep
<1> QED BY <1>4, <1>5

\* The steps that leave the backends and the workers' plans alone.
Idle == \/ \E q \in Req : ScheduleStep(q) \/ Preempt(q) \/ Abort(q)
        \/ Build \/ UpdateStep \/ UNCHANGED engineVars

\* They plan a request only once, and neither forget a plan nor fence.
LEMMA IdlePlans ==
  ASSUME EngineInv, Idle
  PROVE  /\ UNCHANGED <<getOp, putOp, pull, onXfer>> /\ remotePrefill' \subseteq remotePrefill
         /\ \A w \in Rank, r \in Req :
              /\ r \in remotePrefill' => r \in remotePrefill /\ PlansOf(w, r)' = PlansOf(w, r)
              /\ (r \in remotePrefill \/ Planned(w, r))' <=> r \in remotePrefill \/ Planned(w, r)
         /\ ToFence \subseteq ToFence'
<1> DEFINE Same ==
      /\ UNCHANGED <<getOp, putOp, pull, onXfer>> /\ remotePrefill' \subseteq remotePrefill
      /\ \A w \in Rank, r \in Req :
           /\ r \in remotePrefill' => r \in remotePrefill /\ PlansOf(w, r)' = PlansOf(w, r)
           /\ (r \in remotePrefill \/ Planned(w, r))' <=> r \in remotePrefill \/ Planned(w, r)
      /\ ToFence \subseteq ToFence'
<1>1. ASSUME phase # "execute"
      PROVE  ToFence = {}
  BY <1>1 DEF ToFence
<1>2. ASSUME UNCHANGED <<remotePrefill, onXfer, getOp, putOp, pull>>, ToFence = {} \/ ToFence' = ToFence,
             \A w \in Rank, r \in Req : PlansOf(w, r)' = PlansOf(w, r)
      PROVE  Same
  BY <1>2, PlannedIs
<1>3. ASSUME UNCHANGED <<remotePrefill, onXfer, getOp, putOp, pull, batch, metadata, finishedWaits,
                         phase, ran, fenced>>
      PROVE  Same
  <2>1. ToFence' = ToFence
    BY <1>3 DEF ToFence
  <2>2. \A w \in Rank, r \in Req : PlansOf(w, r)' = PlansOf(w, r)
    BY <1>3, DuesSame
  <2> QED BY <1>2, <1>3, <2>1, <2>2
<1>4. ASSUME UNCHANGED <<remotePrefill, onXfer, getOp, putOp, pull, metadata>>,
             phase # "execute", phase' # "execute", UNCHANGED batch.plans
      PROVE  Same
  <2>1. \A w \in Rank, r \in Req : PlansOf(w, r)' = PlansOf(w, r)
    BY <1>4 DEF PlansOf, Due, Keep
  <2> QED BY <1>1, <1>2, <1>4, <2>1
<1>5. ASSUME NEW q \in Req, NEW L \in 0 .. Prompt, NEW H \in 0 .. Prompt, Lookup(q, L, H)
      PROVE  Same
  <2>1. UNCHANGED <<remotePrefill, onXfer, getOp, putOp, pull, batch, metadata, finishedWaits,
                    phase, ran, fenced>>
    BY <1>5 DEF Lookup, Match, workerVars, backends
  <2> QED BY <1>3, <2>1
<1>6. ASSUME NEW q \in Req, NEW after, Allocate(q, after) \/ Resume(q, after)
      PROVE  Same
  <2>1. /\ \E t : UpdateStateAfterAlloc(q, t)
        /\ UNCHANGED <<phase, ran, fenced, onXfer, getOp, putOp, pull>> /\ phase = "schedule"
    BY <1>6 DEF Allocate, Resume, workerVars, backends
  <2>2. remotePrefill' \subseteq remotePrefill
    BY <2>1 DEF UpdateStateAfterAlloc, PrefillAfter
  <2>3. \A w \in Rank, r \in Req :
          /\ r \in remotePrefill' => r \in remotePrefill /\ PlansOf(w, r)' = PlansOf(w, r)
          /\ (r \in remotePrefill \/ Planned(w, r))' <=> r \in remotePrefill \/ Planned(w, r)
    BY <2>1, AllocPlans
  <2> QED BY <1>1, <2>1, <2>2, <2>3
<1>7. ASSUME NEW q \in Req, (\E after : Continue(q, after)) \/ Preempt(q)
      PROVE  Same
  <2>1. UNCHANGED <<remotePrefill, onXfer, getOp, putOp, pull, batch, metadata, finishedWaits,
                    phase, ran, fenced>>
    BY <1>7 DEF Continue, Preempt, schedVars, workerVars, backends
  <2> QED BY <1>3, <2>1
<1>8. ASSUME NEW q \in Req, Abort(q) \/ \E capped \in BOOLEAN : Stop(q, capped)
      PROVE  Same
  <2>1. /\ UNCHANGED <<remotePrefill, onXfer, getOp, putOp, pull, metadata, phase>>
        /\ phase # "execute"
        /\ \E t, capped, held : RequestFinished(q, t, capped, held)
    BY <1>8 DEF Abort, Stop, RequestFinished, workerVars, backends
  <2>2. UNCHANGED batch.plans
    BY <2>1 DEF RequestFinished, EngineInv, Shapes
  <2> QED BY <1>4, <2>1, <2>2
<1>9. CASE Build
  <2>1. UNCHANGED <<remotePrefill, onXfer, getOp, putOp, pull>> /\ phase # "execute"
    BY <1>9 DEF Build, BuildConnectorMeta, workerVars, backends
  <2> QED BY <1>1, <1>2, <1>9, <2>1, BuildDues
<1>10. ASSUME NEW stops \in SUBSET Req, ModelOutput(stops)
       PROVE  Same
  <2>1. /\ UNCHANGED <<remotePrefill, onXfer, getOp, putOp, pull, batch, metadata, ran>>
        /\ phase = "execute" /\ phase' = "update" /\ ran = Rank
    BY <1>10 DEF ModelOutput, schedVars, workerVars, backends
  <2>2. ToFence = {}
    BY <2>1 DEF ToFence, Entry, EngineInv, EngineTypeOK
  <2>3. \A w \in Rank, r \in Req : PlansOf(w, r)' = PlansOf(w, r)
    BY <2>1 DEF PlansOf, Due, Keep
  <2> QED BY <1>2, <2>1, <2>2, <2>3
<1>11. CASE ConnectorOutput
  <2>1. /\ UNCHANGED <<remotePrefill, onXfer, getOp, putOp, pull, metadata, batch>>
        /\ phase # "execute" /\ phase' # "execute"
    BY <1>11 DEF ConnectorOutput, UpdateConnectorOutput, backends
  <2> QED BY <1>4, <2>1
<1>12. CASE UNCHANGED engineVars
  <2>1. UNCHANGED <<remotePrefill, onXfer, getOp, putOp, pull, batch, metadata, finishedWaits,
                    phase, ran, fenced>>
    BY <1>12 DEF engineVars, schedVars, workerVars, backends, stepVars
  <2> QED BY <1>3, <2>1
<1> QED BY <1>5, <1>6, <1>7, <1>8, <1>9, <1>10, <1>11, <1>12 DEF Idle, ScheduleStep, UpdateStep

\* What a step of a rank does to its plans.
LEMMA RankPlans ==
  ASSUME EngineInv, NEW v \in Rank, Fence(v) \/ Execute(v) \/ IO(v), NEW w \in Rank, NEW r \in Req
  PROVE  /\ UNCHANGED remotePrefill
         /\ r \in DOMAIN onXfer'[w] \/ PlansOf(w, r)' # {} =>
              r \in DOMAIN onXfer[w] \/ PlansOf(w, r) # {}
<1>1. Shapes
  BY DEF EngineInv
<1>2. CASE Fence(v)
  <2>1. UNCHANGED <<remotePrefill, batch, metadata, finishedWaits, phase, ran>>
    BY <1>2 DEF Fence, schedVars
  <2>2. r \in DOMAIN onXfer'[w] => r \in DOMAIN onXfer[w]
    BY <1>1, <1>2 DEF Fence, HandlePreemptions, Without, Shapes
  <2> QED BY <2>1, <2>2, DuesSame
<1>3. CASE Execute(v)
  <2>1. UNCHANGED <<remotePrefill, batch, metadata, phase>> /\ ran' = ran \cup {v}
    BY <1>3 DEF Execute, schedVars
  <2>2. CASE w = v
    BY <1>3, <2>1, <2>2, PlansEntry, XfersEntry, ExecDues
  <2>3. CASE w # v
    <3>1. onXfer'[w] = onXfer[w]
      BY <1>1, <1>3, <2>3, ExecOthers DEF Execute
    <3>2. PlansOf(w, r)' = PlansOf(w, r)
      BY <2>1, <2>3 DEF PlansOf, Due, Keep
    <3> QED BY <2>1, <3>1, <3>2
  <2> QED BY <2>2, <2>3
<1>4. CASE IO(v)
  <2>1. UNCHANGED <<remotePrefill, batch, metadata, finishedWaits, phase, ran>>
    BY <1>4 DEF IO, schedVars, stepVars
  <2>2. UNCHANGED onXfer
    BY <1>4 DEF IO, GetEnds, PutEnds, SourceEnds, PullEnds
  <2> QED BY <2>1, <2>2, DuesSame
<1> QED BY <1>2, <1>3, <1>4

\* Every step keeps it so.
LEMMA OnceKeeps == EngineInv /\ PlannedOnce /\ [EngineNext]_engineVars => PlannedOnce'
<1> SUFFICES ASSUME EngineInv, PlannedOnce, [EngineNext]_engineVars,
                    NEW w \in Rank, NEW r \in remotePrefill'
             PROVE  r \notin DOMAIN onXfer'[w] /\ PlansOf(w, r)' = {}
  BY DEF PlannedOnce
<1>0. remotePrefill \subseteq Req
  BY DEF EngineInv, EngineTypeOK, SchedulerTypeOK
<1>1. CASE Idle
  <2>1. r \in remotePrefill /\ r \in Req /\ UNCHANGED onXfer
    BY <1>0, <1>1, IdlePlans
  <2> QED BY <1>1, <2>1, IdlePlans DEF PlannedOnce
<1>2. ASSUME NEW v \in Rank, Fence(v) \/ Execute(v) \/ IO(v)
      PROVE  r \notin DOMAIN onXfer'[w] /\ PlansOf(w, r)' = {}
  <2>1. UNCHANGED remotePrefill
    BY <1>2 DEF Fence, Execute, IO, schedVars
  <2>2. r \in remotePrefill /\ r \in Req
    BY <1>0, <2>1
  <2> QED BY <1>2, <2>2, RankPlans DEF PlannedOnce
<1> QED BY <1>1, <1>2 DEF EngineNext, Idle

\* The load, the saves and the receive of r on w move as the contracts say.
NoneLoaded == [state |-> "none", from |-> 0, to |-> 0, upto |-> 0]
LoadMoves(w, r) ==
  LET a == LoadView(w, r)
      b == LoadView(w, r)'
  IN  \/ b = a
      \/ a = NoneLoaded /\ <<w, r>> \notin ToFence' /\ b.state = "busy" /\ b.from < b.to
      \/ /\ a.state = "busy" /\ b.upto \in a.from .. a.to
         /\ b = [state |-> "done", from |-> a.from, to |-> a.to, upto |-> b.upto]
      \/ b = NoneLoaded /\ a.state = "done"
SaveMoves(w, r) ==
  LET a == SaveView(w, r)
      b == SaveView(w, r)'
  IN  \/ b = a
      \/ <<w, r>> \notin ToFence' /\ b = "busy"
      \/ a = "busy" /\ b = "done"
      \/ a = "done" /\ b = "none"
ReceiveMoves(w, r) ==
  LET a == ReceiveView(w, r)
      b == ReceiveView(w, r)'
  IN  \/ b = a
      \/ a = "ahead" /\ b = "busy" /\ <<w, r>> \notin ToFence'
      \/ a = "busy" /\ b \in {"ok", "error"}
      \/ a \in {"ahead", "ok", "error"} /\ b = "over"
\* After a fence nothing is left.
FenceEmpties(w, r) ==
  <<w, r>> \in ToFence /\ <<w, r>> \notin ToFence' =>
    LoadView(w, r)' = NoneLoaded /\ SaveView(w, r)' = "none" /\ ReceiveView(w, r)' \in {"ahead", "over"}
EntryMoves(w, r) == LoadMoves(w, r) /\ SaveMoves(w, r) /\ ReceiveMoves(w, r) /\ FenceEmpties(w, r)

\* Steps of all the entries are a step of each contract.
LEMMA MovesServe ==
  ASSUME EngineInv', \A w \in Rank, r \in Req : EntryMoves(w, r)
  PROVE  Pool!Next /\ Transfer!Next
<1> DEFINE loads == [x \in Entry |-> LoadView(x[1], x[2])]
           saves == [x \in Entry |-> SaveView(x[1], x[2])]
           views == [x \in Entry |-> ReceiveView(x[1], x[2])]
<1>1. \A x \in Entry : x[1] \in Rank /\ x[2] \in Req /\ x = <<x[1], x[2]>>
  BY DEF Entry
<1>2. \A x \in Entry : /\ loads[x] = LoadView(x[1], x[2]) /\ loads'[x] = LoadView(x[1], x[2])'
                       /\ saves[x] = SaveView(x[1], x[2]) /\ saves'[x] = SaveView(x[1], x[2])'
                       /\ views[x] = ReceiveView(x[1], x[2]) /\ views'[x] = ReceiveView(x[1], x[2])'
  BY DEF Entry
<1>3. ASSUME NEW w \in Rank, NEW r \in Req
      PROVE  /\ LoadView(w, r)' \in [state : {"none", "busy", "done"}, from : Tokens, to : Tokens,
                                     upto : Tokens]
             /\ SaveView(w, r)' \in {"none", "busy", "done"}
             /\ ReceiveView(w, r)' \in {"ahead", "busy", "over", "ok", "error"}
  <2>1. WorkerTypeOK' /\ 0 \in Tokens
    BY EngineAssumption DEF EngineInv, EngineTypeOK, Tokens
  <2>2. LoadView(w, r)' \in [state : {"none", "busy", "done"}, from : Tokens, to : Tokens,
                             upto : Tokens]
    BY <2>1 DEF LoadView, WorkerTypeOK
  <2>3. SaveView(w, r)' \in {"none", "busy", "done"}
    BY <2>1 DEF SaveView, WorkerTypeOK
  <2>4. ReceiveView(w, r)' \in {"ahead", "busy", "over", "ok", "error"}
    BY <2>1 DEF ReceiveView, WorkerTypeOK
  <2> QED BY <2>2, <2>3, <2>4
<1>4. ToFence' \subseteq Entry
  BY DEF ToFence, Entry
<1>5. Pool!TypeOK'
  BY <1>1, <1>3, <1>4 DEF Pool!TypeOK, Pool!LoadState, Pool!SaveState
<1>6. Transfer!TypeOK'
  BY <1>1, <1>3, <1>4 DEF Transfer!TypeOK, Transfer!State, Transfer!Result
<1>7. ASSUME NEW x \in Entry
      PROVE  /\ \/ loads'[x] = loads[x] \/ Pool!LoadBegins(x) \/ Pool!LoadEnds(x) \/ Pool!LoadOver(x)
             /\ \/ saves'[x] = saves[x] \/ Pool!SaveGiven(x) \/ Pool!SavesEnd(x) \/ Pool!SavesOver(x)
             /\ Pool!PreemptReturns(x)
             /\ \/ views'[x] = views[x] \/ Transfer!Starts(x) \/ Transfer!Ends(x)
                \/ Transfer!GivenUp(x) \/ Transfer!Collected(x) \/ Transfer!Fenced(x)
             /\ Transfer!PreemptReturns(x)
  <2>1. EntryMoves(x[1], x[2]) /\ x = <<x[1], x[2]>>
    BY <1>1
  <2>2. \/ loads'[x] = loads[x] \/ Pool!LoadBegins(x) \/ Pool!LoadEnds(x) \/ Pool!LoadOver(x)
    <3>1. \/ loads'[x] = loads[x]
          \/ /\ loads[x] = NoneLoaded /\ x \notin ToFence' /\ loads'[x].state = "busy"
             /\ loads'[x].from < loads'[x].to
          \/ /\ loads[x].state = "busy" /\ loads'[x].upto \in loads[x].from .. loads[x].to
             /\ loads'[x] = [state |-> "done", from |-> loads[x].from, to |-> loads[x].to,
                             upto |-> loads'[x].upto]
          \/ loads'[x] = NoneLoaded /\ loads[x].state = "done"
      <4>1. LoadMoves(x[1], x[2])
        BY <2>1 DEF EntryMoves
      <4> HIDE DEF loads
      <4> QED BY <1>2, <2>1, <4>1 DEF LoadMoves
    <3> QED BY <3>1 DEF Pool!LoadBegins, Pool!LoadEnds, Pool!LoadOver, Pool!NoLoad, NoneLoaded
  <2>3. \/ saves'[x] = saves[x] \/ Pool!SaveGiven(x) \/ Pool!SavesEnd(x) \/ Pool!SavesOver(x)
    <3>1. \/ saves'[x] = saves[x]
          \/ x \notin ToFence' /\ saves'[x] = "busy"
          \/ saves[x] = "busy" /\ saves'[x] = "done"
          \/ saves[x] = "done" /\ saves'[x] = "none"
      <4>1. SaveMoves(x[1], x[2])
        BY <2>1 DEF EntryMoves
      <4> HIDE DEF saves
      <4> QED BY <1>2, <2>1, <4>1 DEF SaveMoves
    <3> QED BY <3>1 DEF Pool!SaveGiven, Pool!SavesEnd, Pool!SavesOver
  <2>4. \/ views'[x] = views[x] \/ Transfer!Starts(x) \/ Transfer!Ends(x)
        \/ Transfer!GivenUp(x) \/ Transfer!Collected(x) \/ Transfer!Fenced(x)
    <3>1. \/ views'[x] = views[x]
          \/ views[x] = "ahead" /\ views'[x] = "busy" /\ x \notin ToFence'
          \/ views[x] = "busy" /\ views'[x] \in {"ok", "error"}
          \/ views[x] \in {"ahead", "ok", "error"} /\ views'[x] = "over"
      <4>1. ReceiveMoves(x[1], x[2])
        BY <2>1 DEF EntryMoves
      <4> HIDE DEF views
      <4> QED BY <1>2, <2>1, <4>1 DEF ReceiveMoves
    <3> QED BY <3>1 DEF Transfer!Starts, Transfer!Ends, Transfer!GivenUp, Transfer!Collected,
                        Transfer!Result
  <2>5. Pool!PreemptReturns(x) /\ Transfer!PreemptReturns(x)
    <3>1. x \in ToFence \ ToFence' =>
            loads'[x] = NoneLoaded /\ saves'[x] = "none" /\ views'[x] \in {"ahead", "over"}
      <4>1. FenceEmpties(x[1], x[2])
        BY <2>1 DEF EntryMoves
      <4> HIDE DEF loads, saves, views
      <4> QED BY <1>2, <2>1, <4>1 DEF FenceEmpties
    <3> QED BY <3>1 DEF Pool!PreemptReturns, Transfer!PreemptReturns, Pool!NoLoad, NoneLoaded
  <2> QED BY <2>2, <2>3, <2>4, <2>5
<1>8. Pool!Next
  BY <1>5, <1>7 DEF Pool!Next
<1>9. Transfer!Next
  BY <1>6, <1>7 DEF Transfer!Next
<1> QED BY <1>8, <1>9

\* An entry that a step leaves alone.
LEMMA SameMoves ==
  ASSUME NEW w \in Rank, NEW r \in Req,
         SameAt(getOp[w], getOp'[w], r), SameAt(putOp[w], putOp'[w], r),
         SameAt(pull[w], pull'[w], r),
         (r \in remotePrefill \/ Planned(w, r))' <=> r \in remotePrefill \/ Planned(w, r),
         <<w, r>> \in ToFence => <<w, r>> \in ToFence'
  PROVE  EntryMoves(w, r)
<1>1. LoadView(w, r)' = LoadView(w, r)
  BY DEF LoadView, SameAt
<1>2. SaveView(w, r)' = SaveView(w, r)
  BY DEF SaveView, SameAt
<1>3. ReceiveView(w, r)' = ReceiveView(w, r)
  BY DEF ReceiveView, SameAt
<1> QED BY <1>1, <1>2, <1>3 DEF EntryMoves, LoadMoves, SaveMoves, ReceiveMoves, FenceEmpties

\* A rank that fences has nothing at work of a preempted request.
LEMMA FenceMoves ==
  ASSUME EngineInv, PlannedOnce, NEW v \in Rank, Fence(v), NEW w \in Rank, NEW r \in Req
  PROVE  EntryMoves(w, r)
<1>1. Shapes /\ LoadInv(w, r) /\ HoldInv(w, r) /\ WorkerTypeOK
  BY DEF EngineInv, EngineTypeOK
<1>2. /\ UNCHANGED <<remotePrefill, batch, metadata, finishedWaits, phase, ran>>
      /\ phase = "execute" /\ fenced' = fenced \cup {v} /\ HandlePreemptions(v)
  BY DEF Fence, schedVars
<1>3. PlansOf(w, r)' = PlansOf(w, r)
  BY <1>2, DuesSame
<1>4. CASE w # v \/ r \notin metadata.preempted
  <2>1. /\ SameAt(getOp[w], getOp'[w], r) /\ SameAt(putOp[w], putOp'[w], r)
        /\ SameAt(pull[w], pull'[w], r) /\ SameAt(onXfer[w], onXfer'[w], r)
    <3>1. CASE w # v
      BY <1>1, <1>2, <3>1 DEF SameAt, Shapes, HandlePreemptions
    <3>2. CASE r \notin metadata.preempted
      BY <1>1, <1>2, <3>2 DEF SameAt, Shapes, HandlePreemptions, Without
    <3> QED BY <1>4, <3>1, <3>2
  <2>2. Planned(w, r)' <=> Planned(w, r)
    BY <1>3, <2>1, PlannedIs DEF SameAt
  <2>3. <<w, r>> \in ToFence => <<w, r>> \in ToFence'
    BY <1>2, <1>4 DEF ToFence, Entry
  <2> QED BY <1>2, <2>1, <2>2, <2>3, SameMoves
<1>5. CASE w = v /\ r \in metadata.preempted
  <2>1. /\ r \notin DOMAIN getOp'[w] /\ r \notin DOMAIN putOp'[w] /\ r \notin DOMAIN pull'[w]
        /\ r \notin DOMAIN onXfer'[w]
    BY <1>1, <1>2, <1>5 DEF Shapes, HandlePreemptions, Without
  <2>2. Fenced(w, r)
    BY <1>2, <1>5 DEF HandlePreemptions
  <2>3. /\ r \in DOMAIN getOp[w] => getOp[w][r].state = "done"
        /\ r \in DOMAIN putOp[w] => putOp[w][r].state = "done"
        /\ r \in DOMAIN pull[w] => pull[w][r].state \in {"ok", "error"}
    BY <1>1, <2>2 DEF Fenced, In, WorkerTypeOK
  <2>4. LoadView(w, r)' = NoneLoaded /\ (LoadView(w, r).state = "done" \/ LoadView(w, r) = NoneLoaded)
    BY <2>1, <2>3 DEF LoadView, NoneLoaded
  <2>5. SaveView(w, r)' = "none" /\ SaveView(w, r) \in {"none", "done"}
    BY <2>1, <2>3 DEF SaveView
  <2>6. PlansOf(w, r)' = {} /\ ~Planned(w, r)'
    BY <1>1, <1>2, <1>3, <1>5, <2>1, PlannedIs DEF HoldInv, Quiet
  <2>7. CASE r \in remotePrefill
    <3>1. r \notin DOMAIN pull[w]
      BY <1>1, <2>7 DEF PlannedOnce, LoadInv, Pulls
    <3>2. ReceiveView(w, r) = "ahead" /\ ReceiveView(w, r)' = "ahead"
      BY <1>2, <2>1, <2>7, <3>1 DEF ReceiveView
    <3> QED BY <2>4, <2>5, <3>2 DEF EntryMoves, LoadMoves, SaveMoves, ReceiveMoves, FenceEmpties
  <2>8. CASE r \notin remotePrefill
    <3>1. ReceiveView(w, r)' = "over" /\ ReceiveView(w, r) \in {"ahead", "over", "ok", "error"}
      BY <1>2, <2>1, <2>3, <2>6, <2>8 DEF ReceiveView
    <3> QED BY <2>4, <2>5, <3>1 DEF EntryMoves, LoadMoves, SaveMoves, ReceiveMoves, FenceEmpties
  <2> QED BY <2>7, <2>8
<1> QED BY <1>4, <1>5

\* What get_finished starts is new to the backends, what it collects is over.
LEMMA ExecMoves ==
  ASSUME EngineInv, PlannedOnce, NEW v \in Rank, Execute(v), NEW w \in Rank, NEW r \in Req
  PROVE  EntryMoves(w, r)
<1>1. Shapes /\ LoadInv(w, r) /\ WorkerTypeOK
  BY DEF EngineInv, EngineTypeOK
<1>2. /\ UNCHANGED <<remotePrefill, batch, metadata, finishedWaits, phase, fenced>>
      /\ ran' = ran \cup {v} /\ v \in fenced /\ GetFinished(v)
  BY DEF Execute, schedVars
<1>3. ToFence' = ToFence /\ <<v, r>> \notin ToFence
  BY <1>2 DEF ToFence
<1>4. CASE w # v
  <2>1. /\ SameAt(getOp[w], getOp'[w], r) /\ SameAt(putOp[w], putOp'[w], r)
        /\ SameAt(pull[w], pull'[w], r) /\ onXfer'[w] = onXfer[w]
    BY <1>1, <1>2, <1>4, ExecOthers DEF SameAt
  <2>2. PlansOf(w, r)' = PlansOf(w, r)
    BY <1>2, <1>4 DEF PlansOf, Due, Keep
  <2>3. Planned(w, r)' <=> Planned(w, r)
    BY <2>1, <2>2, PlannedIs
  <2> QED BY <1>2, <1>3, <2>1, <2>3, SameMoves
<1>5. CASE w = v
  <2>1. LoadMoves(v, r)
    <3>1. CASE LoadsOf(v, r) # {}
      <4>1. PICK x \in LoadsOf(v, r) :
              getOp'[v][r] = [table |-> x.table, from |-> x.from, to |-> x.to, upto |-> x.from,
                              state |-> "busy"]
        BY <3>1, GetsEntry
      <4>2. r \notin DOMAIN getOp[v] /\ r \in DOMAIN getOp'[v] /\ x.from < x.to
        BY <1>1, <1>5, <3>1, GetsEntry DEF LoadInv, LoadsNew
      <4>3. LoadView(v, r) = NoneLoaded
        BY <4>2 DEF LoadView, NoneLoaded
      <4>4. LoadView(v, r)' = [state |-> "busy", from |-> x.from, to |-> x.to, upto |-> x.from]
        BY <4>1, <4>2 DEF LoadView
      <4> QED BY <1>3, <4>2, <4>3, <4>4 DEF LoadMoves
    <3>2. CASE LoadsOf(v, r) = {} /\ r \in Got(v)
      <4>1. r \in DOMAIN getOp[v] /\ r \notin DOMAIN getOp'[v] /\ getOp[v][r].state = "done"
        BY <3>2, GetsEntry DEF Got, In
      <4>2. LoadView(v, r).state = "done" /\ LoadView(v, r)' = NoneLoaded
        BY <4>1 DEF LoadView, NoneLoaded
      <4> QED BY <4>2 DEF LoadMoves
    <3>3. CASE LoadsOf(v, r) = {} /\ r \notin Got(v)
      <4>1. SameAt(getOp[v], getOp'[v], r)
        BY <3>3, GetsEntry DEF SameAt
      <4>2. LoadView(v, r)' = LoadView(v, r)
        BY <4>1 DEF LoadView, SameAt
      <4> QED BY <4>2 DEF LoadMoves
    <3> QED BY <3>1, <3>2, <3>3
  <2>2. SaveMoves(v, r)
    <3>1. CASE r \in SavesIn
      <4>1. r \in DOMAIN putOp'[v]
        BY <3>1, SavesEntry
      <4>2. PICK x \in SavesOf(v, r) : putOp'[v][r] = Op(x.table, "busy")
        BY <3>1, SavesEntry
      <4>3. putOp'[v][r].state = "busy"
        BY <4>2 DEF Op
      <4> QED BY <1>3, <4>1, <4>3 DEF SaveMoves, SaveView
    <3>2. CASE r \in Put(v)
      <4>1. r \in DOMAIN putOp[v] /\ putOp[v][r].state = "done" /\ r \notin DOMAIN putOp'[v]
        BY <3>2, SavesEntry DEF Put, In
      <4> QED BY <4>1 DEF SaveMoves, SaveView
    <3>3. CASE r \notin SavesIn /\ r \notin Put(v)
      <4>1. SameAt(putOp[v], putOp'[v], r)
        BY <3>3, SavesEntry DEF SameAt
      <4> QED BY <4>1 DEF SaveMoves, SaveView, SameAt
    <3> QED BY <3>1, <3>2, <3>3
  <2>3. Planned(v, r) <=> r \in DOMAIN WithPlans(v)
    BY PlannedIs, PlansEntry
  <2>4. Planned(v, r)' <=> r \in DOMAIN WithPlans(v) /\ r \notin Pulled(v)
    <3>1. PlansOf(v, r)' = {}
      BY ExecDues
    <3>2. r \in DOMAIN onXfer'[v] <=> r \in DOMAIN WithPlans(v) /\ r \notin Pulled(v)
      BY XfersEntry
    <3>3. Planned(v, r)' <=> r \in DOMAIN onXfer'[v] \/ PlansOf(v, r)' # {}
      BY PlannedIs
    <3> QED BY <3>1, <3>2, <3>3
  <2>5. ReceiveMoves(v, r)
    <3>1. CASE r \in Pulled(v)
      <4>1. r \in DOMAIN pull[v] /\ pull[v][r].state \in {"ok", "error"}
        BY <1>1, <1>5, <3>1 DEF Pulled, In
      <4>2. r \in DOMAIN onXfer[v] /\ onXfer[v][r].stage = "TRANSFER_LOADING"
        BY <1>1, <1>5, <4>1 DEF LoadInv, Pulls
      <4>3. r \notin remotePrefill /\ r \notin Starts(v)
        BY <4>2, PlansEntry DEF PlannedOnce, Starts
      <4>4. r \notin DOMAIN pull'[v]
        BY <3>1, <4>3, XfersEntry
      <4>5. ReceiveView(v, r) \in {"ok", "error"} /\ ReceiveView(v, r)' = "over"
        BY <1>2, <2>4, <3>1, <4>1, <4>3, <4>4 DEF ReceiveView
      <4> QED BY <4>5 DEF ReceiveMoves
    <3>2. CASE r \in Starts(v)
      <4>1. r \notin DOMAIN pull[v]
        <5>1. r \in DOMAIN pull[v] => WithPlans(v)[r].stage = "TRANSFER_LOADING"
          BY <1>1, <1>5, PlansEntry DEF LoadInv, Pulls
        <5> QED BY <3>2, <5>1 DEF Starts
      <4>2. r \in DOMAIN pull'[v] /\ pull'[v][r].state = "busy" /\ r \in DOMAIN WithPlans(v)
        <5>1. pull'[v][r] = [table |-> WithPlans(v)[r].plan.table, from |-> Prefix(v, r),
                             to |-> WithPlans(v)[r].plan.T, state |-> "busy"]
          BY <3>2, XfersEntry
        <5>2. r \in DOMAIN pull'[v]
          BY <3>2, XfersEntry
        <5> QED BY <3>2, <5>1, <5>2 DEF Starts
      <4>3. ReceiveView(v, r) = "ahead" /\ ReceiveView(v, r)' = "busy"
        BY <2>3, <4>1, <4>2 DEF ReceiveView
      <4> QED BY <1>3, <4>3 DEF ReceiveMoves
    <3>3. CASE r \notin Pulled(v) /\ r \notin Starts(v)
      <4>1. SameAt(pull[v], pull'[v], r)
        BY <3>3, XfersEntry DEF SameAt
      <4>2. ReceiveView(v, r)' = ReceiveView(v, r)
        BY <1>2, <2>3, <2>4, <3>3, <4>1 DEF ReceiveView, SameAt
      <4> QED BY <4>2 DEF ReceiveMoves
    <3> QED BY <3>1, <3>2, <3>3
  <2> QED BY <1>3, <1>5, <2>1, <2>2, <2>5 DEF EntryMoves, FenceEmpties
<1> QED BY <1>4, <1>5

\* An I/O ends with a result.
LEMMA IOMoves ==
  ASSUME EngineInv, NEW v \in Rank, IO(v), NEW w \in Rank, NEW r \in Req
  PROVE  EntryMoves(w, r)
<1>1. EngineTypeOK /\ Shapes /\ LoadInv(w, r) /\ WorkerTypeOK
  BY DEF EngineInv, EngineTypeOK
<1>2. PICK q \in Req, upto \in Tokens :
        /\ \A u \in Rank, s \in Req : u # v \/ s # q =>
             /\ SameAt(getOp[u], getOp'[u], s) /\ SameAt(putOp[u], putOp'[u], s)
             /\ SameAt(pull[u], pull'[u], s)
        /\ \/ GetEnds(v, q, upto) \/ PutEnds(v, q) \/ SourceEnds(v, q)
           \/ \E result \in {"ok", "error"} : PullEnds(v, q, result)
  BY <1>1, IOEntries
<1>3. UNCHANGED <<remotePrefill, batch, metadata, finishedWaits, phase, ran, fenced, onXfer>>
  BY <1>2 DEF IO, schedVars, stepVars, GetEnds, PutEnds, SourceEnds, PullEnds
<1>4. ToFence' = ToFence /\ (Planned(w, r)' <=> Planned(w, r))
  BY <1>3 DEF ToFence, Planned
<1>5. CASE w # v \/ r # q
  BY <1>2, <1>3, <1>4, <1>5, SameMoves
<1>6. CASE w = v /\ r = q
  <2>1. CASE GetEnds(v, q, upto)
    <3>1. q \in DOMAIN getOp[v] /\ getOp[v][q].state = "busy" /\ upto \in getOp[v][q].from .. getOp[v][q].to
      BY <2>1 DEF GetEnds, In
    <3>2. getOp[v][q] \in [table : Table, from : Tokens, to : Tokens, upto : Tokens,
                           state : {"busy", "done"}]
      BY <1>1, <3>1 DEF WorkerTypeOK
    <3>3. q \in DOMAIN getOp'[v] /\ getOp'[v][q] = [getOp[v][q] EXCEPT !.state = "done", !.upto = upto]
      BY <1>1, <2>1, <3>1 DEF GetEnds, Shapes
    <3>4. /\ LoadView(v, q) = [state |-> "busy", from |-> getOp[v][q].from, to |-> getOp[v][q].to,
                               upto |-> getOp[v][q].upto]
          /\ LoadView(v, q)' = [state |-> "done", from |-> getOp[v][q].from, to |-> getOp[v][q].to,
                                upto |-> upto]
      BY <3>1, <3>2, <3>3 DEF LoadView
    <3>5. LoadMoves(v, q)
      BY <3>1, <3>4 DEF LoadMoves
    <3>6. SaveView(v, q)' = SaveView(v, q) /\ ReceiveView(v, q)' = ReceiveView(v, q)
      BY <1>3, <1>4, <1>6, <2>1 DEF GetEnds, SaveView, ReceiveView
    <3> QED BY <1>4, <1>6, <3>5, <3>6 DEF EntryMoves, SaveMoves, ReceiveMoves, FenceEmpties
  <2>2. CASE PutEnds(v, q)
    <3>1. q \in DOMAIN putOp[v] /\ putOp[v][q].state = "busy"
      BY <2>2 DEF PutEnds, In
    <3>2. q \in DOMAIN putOp'[v] /\ putOp'[v][q] = [putOp[v][q] EXCEPT !.state = "done"]
      BY <1>1, <2>2, <3>1 DEF PutEnds, Shapes
    <3>3. putOp[v][q] \in [table : Table, state : {"busy", "done"}]
      BY <1>1, <3>1 DEF WorkerTypeOK
    <3>4. SaveView(v, q) = "busy" /\ SaveView(v, q)' = "done"
      BY <3>1, <3>2, <3>3 DEF SaveView
    <3>5. LoadView(v, q)' = LoadView(v, q) /\ ReceiveView(v, q)' = ReceiveView(v, q)
      BY <1>3, <1>4, <1>6, <2>2 DEF PutEnds, LoadView, ReceiveView
    <3> QED BY <1>4, <1>6, <3>4, <3>5 DEF EntryMoves, LoadMoves, SaveMoves, ReceiveMoves, FenceEmpties
  <2>3. CASE SourceEnds(v, q)
    <3>1. UNCHANGED <<getOp, putOp, pull>>
      BY <2>3 DEF SourceEnds
    <3> QED BY <1>3, <1>4, <3>1, SameMoves DEF SameAt
  <2>4. ASSUME NEW result \in {"ok", "error"}, PullEnds(v, q, result)
        PROVE  EntryMoves(v, q)
    <3>1. q \in DOMAIN pull[v] /\ pull[v][q].state = "busy"
      BY <2>4 DEF PullEnds, In
    <3>2. q \in DOMAIN pull'[v] /\ pull'[v][q] = [pull[v][q] EXCEPT !.state = result]
      BY <1>1, <2>4, <3>1 DEF PullEnds, Shapes
    <3>3. pull[v][q] \in [table : Table, from : Tokens, to : Tokens, state : {"busy", "ok", "error"}]
      BY <1>1, <3>1 DEF WorkerTypeOK
    <3>4. ReceiveView(v, q) = "busy" /\ ReceiveView(v, q)' = result
      BY <3>1, <3>2, <3>3 DEF ReceiveView
    <3>5. LoadView(v, q)' = LoadView(v, q) /\ SaveView(v, q)' = SaveView(v, q)
      BY <2>4 DEF PullEnds, LoadView, SaveView
    <3> QED BY <1>4, <1>6, <2>4, <3>4, <3>5 DEF EntryMoves, LoadMoves, SaveMoves, ReceiveMoves, FenceEmpties
  <2> QED BY <1>2, <1>6, <2>1, <2>2, <2>3, <2>4
<1> QED BY <1>5, <1>6

(***************************************************************************)
(* The worker asks its backends for nothing that they would refuse, and    *)
(* counts on nothing that they do not promise: it begins a load only after *)
(* it has collected the one before, receives a request at most once, and   *)
(* when it has fenced a preempted request nothing of it is left at work.   *)
(***************************************************************************)
THEOREM EngineKeepsContracts == EngineSpec => KeepsContracts
<1>1. EngineInit => PlannedOnce /\ Pool!Init /\ Transfer!Init
  <2> SUFFICES ASSUME EngineInit
               PROVE  PlannedOnce /\ Pool!Init /\ Transfer!Init
    OBVIOUS
  <2>1. \A w \in Rank, r \in Req : PlansOf(w, r) = {} /\ r \notin DOMAIN onXfer[w]
    BY DEF EngineInit, SchedulerInit, WorkerInit, PlansOf, NoBatch, NoMetadata, Keep
  <2>2. PlannedOnce
    BY <2>1 DEF PlannedOnce, EngineInit, SchedulerInit
  <2>3. \A x \in Entry : x[1] \in Rank /\ x[2] \in Req
    BY DEF Entry
  <2>4. \A w \in Rank, r \in Req : /\ LoadView(w, r) = NoneLoaded /\ SaveView(w, r) = "none"
                                   /\ ReceiveView(w, r) \in {"ahead", "over"}
    BY DEF EngineInit, WorkerInit, LoadView, SaveView, ReceiveView, NoneLoaded
  <2>5. ToFence = {}
    BY DEF ToFence, EngineInit
  <2>6. Pool!Init
    BY <2>3, <2>4, <2>5 DEF Pool!Init, Pool!NoLoad, NoneLoaded
  <2>7. Transfer!Init
    BY <2>3, <2>4, <2>5 DEF Transfer!Init
  <2> QED BY <2>2, <2>6, <2>7
<1>2. EngineInv /\ EngineInv' /\ PlannedOnce /\ [EngineNext]_engineVars => Pool!Next /\ Transfer!Next
  <2> SUFFICES ASSUME EngineInv, EngineInv', PlannedOnce, [EngineNext]_engineVars
               PROVE  \A w \in Rank, r \in Req : EntryMoves(w, r)
    BY MovesServe
  <2>1. CASE Idle
    BY <2>1, IdlePlans, SameMoves DEF SameAt
  <2>2. ASSUME NEW v \in Rank, Fence(v) \/ Execute(v) \/ IO(v)
        PROVE  \A w \in Rank, r \in Req : EntryMoves(w, r)
    BY <2>2, FenceMoves, ExecMoves, IOMoves
  <2> QED BY <2>1, <2>2 DEF EngineNext, Idle
<1>3. EngineInv /\ EngineInv' /\ PlannedOnce /\ [EngineNext]_engineVars
        => [Pool!Next]_(Pool!serviceVars) /\ [Transfer!Next]_(Transfer!serviceVars)
  BY <1>2
<1> QED BY <1>1, <1>3, OnceKeeps, EngineInductive, PTL
        DEF EngineSpec, KeepsContracts, Pool!Spec, Transfer!Spec

=============================================================================
