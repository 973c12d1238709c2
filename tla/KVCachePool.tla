---------------------------- MODULE KVCachePool -----------------------------
(***************************************************************************)
(* MooncakeKVCachePool (kv_cache_pool.py) on one rank: the chain of saves  *)
(* of each request, its load, and the fences that give KV blocks back.     *)
(*                                                                         *)
(* Three kinds of threads meet here.  The worker thread calls save, load,  *)
(* poll, take_errors, preempt and close; the lookup server's thread runs   *)
(* wait_for_all_saves for a reset; executor threads run the Store calls,   *)
(* PUTs on one ordered lane, GETs on LoadWorkers of them.  All but the     *)
(* executors hold _task_lock, even while they wait for a Store call, so    *)
(* lock says who is waiting and for what, and a call that never waits is   *)
(* one action.                                                             *)
(*                                                                         *)
(* A request has at most one PUT and one GET submitted, so jobs go by its  *)
(* name.  What is on loan to the Store is DOMAIN saves and DOMAIN loads.   *)
(***************************************************************************)
EXTENDS PoolRanges, SequencesExt

CONSTANTS
  Req,         \* requests
  Line,        \* versions of a prompt: same prompt length, hashes and blocks
  MaxToken,    \* tokens of the longest prefix
  Lcm,         \* lcm_block_size, which is the scheduler's block_size
  SaveInput,   \* the ranges and prompts that save() is called with
  LoadRange,   \* the ranges that load() is called with
  MaxSaves,    \* bound on calls of save()
  MaxLoads,    \* bound on calls of load()
  LoadWorkers, \* threads of _load_pool
  MayClose     \* may close() be called?

TokenRange == {x \in [from : 0 .. MaxToken, to : 0 .. MaxToken] : x.from < x.to}

\* The scheduler lets a save end at a multiple of its block_size.
Span      == {n \in 0 .. MaxToken : n % Lcm = 0}
SaveRange == {x \in TokenRange : x.to \in Span}

ASSUME PoolAssumption == /\ IsFiniteSet(Req)
                         /\ Line # {}
                         /\ MaxToken \in Nat
                         /\ Lcm \in Nat \ {0} /\ \A g \in Group : Lcm % BlockSizes[g] = 0
                         /\ SaveInput \subseteq SaveRange \X Line
                         /\ LoadRange \subseteq TokenRange
                         /\ MaxSaves \in Nat
                         /\ MaxLoads \in Nat
                         /\ LoadWorkers \in Nat \ {0}
                         /\ MayClose \in BOOLEAN

VARIABLES
  saves,    \* _save_states: r |-> [running, pending, failed]
  put,      \* r |-> its submitted PUT: state and SaveEvent
  putLane,  \* requests queued in _save_pool
  loads,    \* _loads: r |-> timed_out
  get,      \* r |-> its submitted GET: state, LoadEvent and failed blocks
  getLane,  \* requests queued in _load_pool
  invalid,  \* _invalid: r |-> blocks
  lock,     \* who holds _task_lock across a wait
  life,     \* how far close() is
  fired,    \* device events that have completed
  numSaves, \* calls of save(), also the name of the save's device event
  numLoads  \* calls of load()

\* Ghosts: what the caller was promised and the Store did.
VARIABLES
  owed,    \* r |-> blocks to save since the last SaveResult, not stored yet
  written  \* r |-> blocks the last GET has filled

saveVars == <<saves, put, putLane, owed>>
loadVars == <<loads, get, getLane, invalid, written>>
clock    == <<fired, numSaves, numLoads>>
poolVars == <<saveVars, loadVars, lock, life, clock>>

Signal  == 1 .. MaxSaves
Blocks  == RangeBlocks(0, MaxToken)

\* A save as the caller gave it, and as the pool holds it: sig is the part of
\* _ReadySignals, parts (ghost) the accepted saves it stands for.
Part  == [from : 0 .. MaxToken, to : Span, line : Line, sig : Signal]
Event == [from : 0 .. MaxToken, to : Span, line : Line,
          sigs : SUBSET Signal, parts : SUBSET Part]

\* The state of a request's saves, a PUT and a GET.
SaveState == [running : BOOLEAN, pending : Seq(Event), failed : BOOLEAN]
PutJob    == [state : {"none", "queued", "checking", "reading", "ok", "failed"}, event : Event]
GetJob    == [state : {"none", "queued", "writing", "done"},
              from : 0 .. MaxToken, to : 0 .. MaxToken, bad : SUBSET Blocks]

NoEvent  == [from |-> 0, to |-> 0, line |-> CHOOSE l \in Line : TRUE, sigs |-> {}, parts |-> {}]
NoPut    == [state |-> "none", event |-> NoEvent]
NoGet    == [state |-> "none", from |-> 0, to |-> 0, bad |-> {}]

Free     == <<"free">>
Waits(op, r) == <<op, r>>

\* A dictionary with one more key, and without the keys of S.
With(f, x, v) == [y \in DOMAIN f \cup {x} |-> IF y = x THEN v ELSE f[y]]
Without(f, S) == [x \in DOMAIN f \ S |-> f[x]]

PoolTypeOK ==
  /\ DOMAIN saves \subseteq Req
  /\ \A r \in DOMAIN saves : saves[r] \in SaveState
  /\ put \in [Req -> PutJob]
  /\ putLane \in Seq(Req)
  /\ DOMAIN loads \subseteq Req
  /\ \A r \in DOMAIN loads : loads[r] \in BOOLEAN
  /\ get \in [Req -> GetJob]
  /\ getLane \in Seq(Req)
  /\ DOMAIN invalid \subseteq Req /\ \A r \in DOMAIN invalid : invalid[r] \subseteq Blocks
  /\ lock \in {Free, <<"reset">>} \cup {Waits(op, r) : op \in {"put", "get"}, r \in Req}
  /\ life \in {"open", "closing", "puts", "closed"}
  /\ fired \subseteq Signal /\ numSaves \in 0 .. MaxSaves /\ numLoads \in 0 .. MaxLoads
  /\ owed \in [Req -> SUBSET Blocks]
  /\ written \in [Req -> SUBSET Blocks]

PoolInit ==
  /\ saves = << >> /\ put = [r \in Req |-> NoPut] /\ putLane = << >>
  /\ loads = << >> /\ get = [r \in Req |-> NoGet] /\ getLane = << >>
  /\ invalid = << >> /\ lock = Free /\ life = "open"
  /\ fired = {} /\ numSaves = 0 /\ numLoads = 0
  /\ owed = [r \in Req |-> {}] /\ written = [r \in Req |-> {}]

\* The worker thread is between two calls and takes the lock at once.
Idle == lock = Free /\ life = "open"

-----------------------------------------------------------------------------
\* Saves.

\* Mutant: the end is rounded up.
ChunksWide(e) == RangeBlocks(e.from, (e.to \div Lcm + 1) * Lcm)

\* The blocks whose chunks a PUT of the event selects: _save rounds the end
\* down to lcm_block_size (StorePlan has the masks and the stripes).
Chunks(e) == RangeBlocks(e.from, (e.to \div Lcm) * Lcm)

\* Mutant: the prompts need not be the same.
CanMergeAnyLine(old, new) == Joined(old, new) /\ new.to >= old.to
\* Mutant: only the later save's device event is kept.
MergedLateReady(old, new) == [new EXCEPT !.from = Min({old.from, new.from}),
                                         !.parts = old.parts \cup new.parts]

\* One event that does the work of a pending and a new one, if there is one.
\* Tables and hashes of one line only grow with the end of the range.
CanMerge(old, new) == /\ old.line = new.line
                      /\ Joined(old, new)
                      /\ new.to >= old.to
Merged(old, new) == [new EXCEPT !.from = Min({old.from, new.from}),
                                !.sigs = old.sigs \cup new.sigs,
                                !.parts = old.parts \cup new.parts]

\* Mutant: the later save takes the place of the pending one.
WithPendingReplaced(pending, e) ==
  IF pending # << >> THEN Append(Front(pending), e) ELSE <<e>>

WithPending(pending, e) ==
  IF pending # << >> /\ CanMerge(Last(pending), e)
  THEN Front(pending) \o <<Merged(Last(pending), e)>>
  ELSE Append(pending, e)

Ended(r) == put[r].state \in {"ok", "failed"}

\* Mutant: a failure is forgotten when a later PUT succeeds.
SettledLast(r, s) ==
  IF s.running /\ Ended(r)
  THEN [s EXCEPT !.running = FALSE, !.failed = put[r].state = "failed"] ELSE s
\* Mutant: the exception of a PUT leaves the request marked as running.
SettledOk(r, s) == IF s.running /\ put[r].state = "ok" THEN [s EXCEPT !.running = FALSE] ELSE s

\* _advance_save, first half: take the result of a PUT that has ended.
Settled(r, s) ==
  IF s.running /\ Ended(r)
  THEN [s EXCEPT !.running = FALSE, !.failed = @ \/ put[r].state = "failed"] ELSE s

\* Second half: submit the next pending event unless one is under way.
Submits(s) == ~s.running /\ s.pending # << >>
Advanced(s) == IF Submits(s) THEN [s EXCEPT !.running = TRUE, !.pending = Tail(@)] ELSE s

\* _advance_save of the requests of S, whose save states are those of f, and
\* the states of over are collected.
AdvanceSaves(S, f, over) ==
  LET after   == [r \in S |-> Settled(r, f[r])]
      started == {r \in S : Submits(after[r])}
  IN  /\ saves' = [r \in DOMAIN f \ over |-> IF r \in S THEN Advanced(after[r]) ELSE f[r]]
      /\ put' = [r \in Req |->
                   IF r \in started
                   THEN [state |-> "queued", event |-> Head(after[r].pending)]
                   ELSE IF r \in S /\ Ended(r) THEN NoPut ELSE put[r]]
      /\ \E order \in SetToSeqs(started) : putLane' = putLane \o order

Save(r, range, line) ==
  LET part == [from |-> range.from, to |-> range.to, line |-> line, sig |-> numSaves + 1]
      e    == [from |-> range.from, to |-> range.to, line |-> line,
               sigs |-> {part.sig}, parts |-> {part}]
      new  == IF r \in DOMAIN saves
              THEN [saves[r] EXCEPT !.pending = WithPending(@, e)]
              ELSE [running |-> FALSE, pending |-> <<e>>, failed |-> FALSE]
  IN  /\ Idle /\ numSaves < MaxSaves
      /\ numSaves' = numSaves + 1
      /\ AdvanceSaves({r}, With(saves, r, new), {})
      /\ owed' = [owed EXCEPT ![r] = @ \cup Chunks(e)]
      /\ UNCHANGED <<loadVars, lock, life, fired, numLoads>>

\* The lane's only thread takes the next PUT.
PutBusy == \E r \in Req : put[r].state \in {"checking", "reading"}
StartPut == /\ ~PutBusy /\ putLane # << >>
            /\ putLane' = Tail(putLane)
            /\ put' = [put EXCEPT ![Head(putLane)].state = "checking"]
            /\ UNCHANGED <<saves, owed, loadVars, lock, life, clock>>

PutEnds(r, state) ==
  /\ put' = [put EXCEPT ![r].state = state]
  /\ owed' = [owed EXCEPT ![r] = IF state = "ok" THEN @ \ Chunks(put[r].event) ELSE @]
  /\ UNCHANGED <<saves, putLane, loadVars, lock, life, clock>>

\* batch_is_exist raises, or finds every key.
PutSkip(r, state) == put[r].state = "checking" /\ PutEnds(r, state)

\* Keys are missing: wait for the device, then read the blocks.
PutRead(r) ==
  /\ put[r].state = "checking" /\ put[r].event.sigs \subseteq fired
  /\ put' = [put EXCEPT ![r].state = "reading"]
  /\ UNCHANGED <<saves, putLane, owed, loadVars, lock, life, clock>>

PutReturn(r, state) == put[r].state = "reading" /\ PutEnds(r, state)

\* The device reaches the event recorded for a save.
Fire(s) == /\ s \in (1 .. numSaves) \ fired
           /\ fired' = fired \cup {s}
           /\ UNCHANGED <<saveVars, loadVars, lock, life, numSaves, numLoads>>

-----------------------------------------------------------------------------
\* Loads.

Load(r, range) ==
  /\ Idle /\ numLoads < MaxLoads /\ r \notin DOMAIN loads \cup DOMAIN invalid
  /\ numLoads' = numLoads + 1
  /\ loads' = With(loads, r, FALSE)
  /\ get' = [get EXCEPT ![r] = [state |-> "queued", from |-> range.from,
                               to |-> range.to, bad |-> {}]]
  /\ getLane' = Append(getLane, r)
  /\ written' = [written EXCEPT ![r] = {}]
  /\ UNCHANGED <<saveVars, invalid, lock, life, fired, numSaves>>

Writing == {r \in Req : get[r].state = "writing"}

StartGet == /\ getLane # << >> /\ Cardinality(Writing) < LoadWorkers
            /\ getLane' = Tail(getLane)
            /\ get' = [get EXCEPT ![Head(getLane)].state = "writing"]
            /\ UNCHANGED <<saveVars, loads, invalid, written, lock, life, clock>>

\* The GET ends; it missed or failed the blocks of bad.
GetReturn(r, bad) ==
  /\ get[r].state = "writing"
  /\ get' = [get EXCEPT ![r].state = "done", ![r].bad = bad]
  /\ written' = [written EXCEPT ![r] = RangeBlocks(get[r].from, get[r].to) \ bad]
  /\ UNCHANGED <<saveVars, loads, getLane, invalid, lock, life, clock>>

\* Mutant: a late GET is believed.
OutcomeLate(r) ==
  LET x      == get[r]
      tokens == LoadedPrefix(x.from, x.to, x.bad)
  IN  [from |-> x.from, to |-> x.to, tokens |-> tokens,
       error |-> x.bad # {}, invalid |-> RangeBlocks(tokens, x.to)]

\* _load_work's outcome, or the failure that a late GET is turned into.
Outcome(r) ==
  LET x      == get[r]
      tokens == IF loads[r] THEN x.from ELSE LoadedPrefix(x.from, x.to, x.bad)
  IN  [from |-> x.from, to |-> x.to, tokens |-> tokens,
       error |-> loads[r] \/ x.bad # {}, invalid |-> RangeBlocks(tokens, x.to)]

-----------------------------------------------------------------------------
\* poll and take_errors.

\* What poll finds of a request's saves: nothing is left of them, or an error is.
SavesOver(r)  == LET s == Settled(r, saves[r]) IN ~s.running /\ s.pending = << >>
SaveFailed(r) == Settled(r, saves[r]).failed

\* Any load that is still running may have passed its deadline.
Poll(late) ==
  LET got  == {r \in DOMAIN loads : get[r].state = "done"}
      hurt == {r \in got : Outcome(r).invalid # {}}
      over == {r \in DOMAIN saves : SavesOver(r)}
  IN  /\ Idle /\ late \subseteq DOMAIN loads \ got
      /\ loads' = [r \in DOMAIN loads \ got |-> loads[r] \/ r \in late]
      /\ get' = [r \in Req |-> IF r \in got THEN NoGet ELSE get[r]]
      /\ invalid' = [r \in hurt \cup DOMAIN invalid |->
                       IF r \in hurt THEN Outcome(r).invalid ELSE invalid[r]]
      /\ AdvanceSaves(DOMAIN saves, saves, over)
      /\ owed' = [r \in Req |-> IF r \in over THEN {} ELSE owed[r]]
      /\ written' = [r \in Req |-> IF r \in got THEN {} ELSE written[r]]
      /\ UNCHANGED <<getLane, lock, life, clock>>

TakeErrors == /\ Idle /\ invalid # << >>
              /\ invalid' = << >>
              /\ UNCHANGED <<saveVars, loads, get, getLane, written, lock, life, clock>>

-----------------------------------------------------------------------------
\* preempt: drop the saves, then fence the load; each waits for a Store call
\* that has begun and cancels one that has not.

\* A lane holds a request at most once.
NotIn(lane, r) ==
  IF r \in Range(lane) THEN RemoveAt(lane, CHOOSE i \in DOMAIN lane : lane[i] = r) ELSE lane

Preempt(r) ==
  /\ Idle
  /\ saves' = Without(saves, {r})
  /\ put' = [put EXCEPT ![r] = IF @.state = "queued" THEN NoPut ELSE @]
  /\ putLane' = NotIn(putLane, r)
  /\ owed' = [owed EXCEPT ![r] = {}]
  /\ lock' = Waits("put", r)
  /\ UNCHANGED <<loadVars, life, clock>>

\* Mutant: a running PUT is not waited for.
FenceLoadsAtOnce(r) ==
  /\ lock = Waits("put", r)
  /\ put' = [put EXCEPT ![r] = NoPut]
  /\ loads' = Without(loads, {r})
  /\ get' = [get EXCEPT ![r] = IF @.state = "queued" THEN NoGet ELSE @]
  /\ getLane' = NotIn(getLane, r)
  /\ lock' = Waits("get", r)
  /\ UNCHANGED <<saves, putLane, owed, invalid, written, life, clock>>

FenceLoads(r) ==
  /\ lock = Waits("put", r) /\ put[r].state \notin {"checking", "reading"}
  /\ put' = [put EXCEPT ![r] = NoPut]
  /\ loads' = Without(loads, {r})
  /\ get' = [get EXCEPT ![r] = IF @.state = "queued" THEN NoGet ELSE @]
  /\ getLane' = NotIn(getLane, r)
  /\ lock' = Waits("get", r)
  /\ UNCHANGED <<saves, putLane, owed, invalid, written, life, clock>>

\* Mutant: the result of a GET is awaited even if it was cancelled.
PreemptReturnResult(r) ==
  /\ lock = Waits("get", r) /\ get[r].state = "done"
  /\ get' = [get EXCEPT ![r] = NoGet] /\ written' = [written EXCEPT ![r] = {}]
  /\ invalid' = Without(invalid, {r})
  /\ lock' = Free
  /\ UNCHANGED <<saveVars, loads, getLane, life, clock>>

PreemptReturn(r) ==
  /\ lock = Waits("get", r) /\ get[r].state # "writing"
  /\ get' = [get EXCEPT ![r] = NoGet] /\ written' = [written EXCEPT ![r] = {}]
  /\ invalid' = Without(invalid, {r})
  /\ lock' = Free
  /\ UNCHANGED <<saveVars, loads, getLane, life, clock>>

-----------------------------------------------------------------------------
\* wait_for_all_saves, on the thread of the lookup server.

\* A reset that finds nothing to wait for changes nothing here.
Unsettled(r) == saves[r].running \/ saves[r].pending # << >>

ResetBegin == /\ lock = Free /\ life \in {"open", "closing"}
              /\ \E r \in DOMAIN saves : Unsettled(r)
              /\ lock' = <<"reset">>
              /\ UNCHANGED <<saveVars, loadVars, life, clock>>

ResetAdvance(r) ==
  /\ lock = <<"reset">> /\ r \in DOMAIN saves /\ Unsettled(r)
  /\ saves[r].running => Ended(r)
  /\ AdvanceSaves({r}, saves, {})
  /\ UNCHANGED <<owed, loadVars, lock, life, clock>>

ResetEnd == /\ lock = <<"reset">> /\ \A r \in DOMAIN saves : ~Unsettled(r)
            /\ lock' = Free
            /\ UNCHANGED <<saveVars, loadVars, life, clock>>

-----------------------------------------------------------------------------
\* close: give up what has not begun, wait for what has, then close the Store.

\* Pending saves are dropped, the lookup server is told to stop, and
\* shutdown(wait=True, cancel_futures=True) of _load_pool begins.
Close ==
  /\ MayClose /\ Idle /\ life' = "closing"
  /\ saves' = [r \in DOMAIN saves |-> [saves[r] EXCEPT !.pending = << >>]]
  /\ getLane' = << >>
  /\ get' = [r \in Req |-> IF get[r].state = "queued" THEN NoGet ELSE get[r]]
  /\ UNCHANGED <<put, putLane, owed, loads, invalid, written, lock, clock>>

\* It returns when no GET runs; then the same of _save_pool.
ShutPuts ==
  /\ life = "closing" /\ Writing = {} /\ life' = "puts"
  /\ putLane' = << >>
  /\ put' = [r \in Req |-> IF put[r].state = "queued" THEN [put[r] EXCEPT !.state = "failed"]
                           ELSE put[r]]
  /\ UNCHANGED <<saves, owed, loadVars, lock, clock>>

CloseStore ==
  /\ life = "puts" /\ ~PutBusy /\ life' = "closed"
  /\ saves' = << >> /\ loads' = << >> /\ invalid' = << >>
  /\ put' = [r \in Req |-> NoPut] /\ get' = [r \in Req |-> NoGet]
  /\ owed' = [r \in Req |-> {}] /\ written' = [r \in Req |-> {}]
  /\ UNCHANGED <<putLane, getLane, lock, clock>>

-----------------------------------------------------------------------------
\* The threads: one per executor worker, and whoever waits for them.
PutStep(r) == \/ PutRead(r)
              \/ \E state \in {"ok", "failed"} : PutSkip(r, state) \/ PutReturn(r, state)
GetStep(r) == \E bad \in SUBSET RangeBlocks(get[r].from, get[r].to) : GetReturn(r, bad)

PutWorker  == StartPut \/ \E r \in Req : PutStep(r)
LockHolder == ResetEnd \/ \E r \in Req : FenceLoads(r) \/ PreemptReturn(r) \/ ResetAdvance(r)
Closer     == ShutPuts \/ CloseStore
PollAny    == \E late \in SUBSET DOMAIN loads : Poll(late)

WorkerCall ==
  \/ \E r \in Req, range \in LoadRange : Load(r, range)
  \/ \E r \in Req, x \in SaveInput : Save(r, x[1], x[2])
  \/ PollAny \/ TakeErrors \/ Close
  \/ \E r \in Req : Preempt(r)

PoolNext == \/ WorkerCall \/ ResetBegin \/ LockHolder \/ Closer
            \/ PutWorker \/ StartGet \/ \E r \in Req : GetStep(r)
            \/ \E s \in Signal : Fire(s)

PoolSpec == PoolInit /\ [][PoolNext]_poolVars

-----------------------------------------------------------------------------
\* Properties.

(***************************************************************************)
(* The pool keeps the lending contract of StoreLease: PUT reads and GET    *)
(* writes only touch blocks on loan, and neither a polled result, nor      *)
(* preempt(), nor close() gives blocks back under a running Store call.    *)
(***************************************************************************)
Lent == {<<"save", r>> : r \in DOMAIN saves} \cup {<<"load", r>> : r \in DOMAIN loads}
        \cup {<<"save", r>> : r \in {x \in Req : lock = Waits("put", x) /\ put[x].state # "none"}}
        \cup {<<"load", r>> : r \in {x \in Req : lock = Waits("get", x) /\ get[x].state # "none"}}
StoreIO == {<<"save", r>> : r \in {x \in Req : put[x].state = "reading"}}
           \cup {<<"load", r>> : r \in Writing}

Lease == INSTANCE StoreLease WITH Loan <- {"save", "load"} \X Req, lent <- Lent, io <- StoreIO

KeepsLease == Lease!Spec

(***************************************************************************)
(* And it serves the worker as PoolService says: a load has one result, a  *)
(* prefix of its range, that stays until poll collects it; nothing at work *)
(* is lost but to preempt() and close(), and preempt() leaves nothing.     *)
(***************************************************************************)
LoadView(r) ==
  LET x == get[r]
      op(state, upto) == [state |-> state, from |-> x.from, to |-> x.to, upto |-> upto]
  IN  IF x.state \in {"queued", "writing"} THEN op("busy", x.from)
      ELSE IF x.state = "done" /\ r \in DOMAIN loads THEN op("done", Outcome(r).tokens)
      ELSE [state |-> "none", from |-> 0, to |-> 0, upto |-> 0]
SaveView(r) == IF r \in DOMAIN saves THEN IF SavesOver(r) THEN "done" ELSE "busy"
               ELSE IF put[r].state \in {"checking", "reading"} THEN "busy" ELSE "none"
Preempting == {r \in Req : life # "open" \/ lock \in {Waits("put", r), Waits("get", r)}}

Service == INSTANCE PoolService WITH
             Item <- Req, Token <- 0 .. MaxToken,
             load <- [r \in Req |-> LoadView(r)],
             save <- [r \in Req |-> SaveView(r)],
             fenced <- Preempting

KeepsContracts == KeepsLease /\ Service!Spec

(***************************************************************************)
(* A PUT reads blocks only when the device has completed every save that   *)
(* was merged into it (_merge joins the ready events).                     *)
(***************************************************************************)
ReadsReadyBlocks ==
  \A r \in Req : put[r].state = "reading" => \A p \in put[r].event.parts : p.sig \in fired

(***************************************************************************)
(* Merging never invents work: every chunk a PUT selects was asked for by  *)
(* one of the saves it stands for, on the same version of the prompt.      *)
(***************************************************************************)
Held(r) == (IF put[r].state = "none" THEN {} ELSE {put[r].event})
           \cup (IF r \in DOMAIN saves THEN Range(saves[r].pending) ELSE {})
MergesExactly ==
  \A r \in Req : \A e \in Held(r) :
    /\ Chunks(e) = UNION {Chunks(p) : p \in e.parts}
    /\ \A p \in e.parts : p.line = e.line

(***************************************************************************)
(* No save is lost: while a request's saves are open, each block that was  *)
(* accepted and is not stored is in work still held, or an error is.       *)
(***************************************************************************)
InWork(r) == (UNION {Chunks(e) : e \in Range(saves[r].pending)})
             \cup (IF put[r].state = "none" \/ Ended(r) THEN {} ELSE Chunks(put[r].event))
NoSaveLost ==
  life = "open" => \A r \in DOMAIN saves :
    \/ saves[r].failed \/ put[r].state = "failed"
    \/ owed[r] \subseteq InWork(r)

(***************************************************************************)
(* A SaveResult without error means that every save accepted since the     *)
(* last one is in the Store: an error is not hidden by a later success.    *)
(* (Only poll collects a result while the pool is open and not locked.)    *)
(***************************************************************************)
Polled == lock' = Free /\ life' = "open"
SaveResultHonest ==
  [][Polled => \A r \in DOMAIN saves \ DOMAIN saves' :
       SaveFailed(r) \/ owed[r] = {}]_poolVars

(***************************************************************************)
(* A LoadResult never offers bytes that the Store did not write: what is   *)
(* in its prefix was written, and take_errors will name every block beyond *)
(* it.  A load that was seen to be late offers nothing, even if its GET    *)
(* has succeeded in the end.                                               *)
(***************************************************************************)
LoadResultHonest ==
  [][Polled => \A r \in DOMAIN loads \ DOMAIN loads' :
       LET x == Outcome(r)
           named == IF r \in DOMAIN invalid' THEN invalid'[r] ELSE {}
       IN  /\ RangeBlocks(x.from, x.tokens) \subseteq written[r]
           /\ RangeBlocks(x.tokens, x.to) \subseteq named
           /\ named # {} => x.error
           /\ loads[r] => x.tokens = x.from]_poolVars

(***************************************************************************)
(* Fairness: Store calls end, the device reaches its events, and vLLM      *)
(* steps (so polls) while a request with a save or a load is alive or its  *)
(* release is delayed.  Nothing makes the engine save, load or preempt.    *)
(***************************************************************************)
PoolFairness ==
  /\ WF_poolVars(PutWorker) /\ WF_poolVars(\E s \in Signal : Fire(s))
  /\ WF_poolVars(StartGet) /\ \A r \in Req : WF_poolVars(GetStep(r))
  /\ WF_poolVars(LockHolder) /\ WF_poolVars(Closer)
  /\ WF_poolVars(PollAny)

PoolFairSpec == PoolSpec /\ PoolFairness

(***************************************************************************)
(* Blocks lent to saves and loads always come back.                        *)
(***************************************************************************)
BlocksComeBack == \A r \in Req : []<>(r \notin DOMAIN saves) /\ []<>(r \notin DOMAIN loads)

(***************************************************************************)
(* preempt() and a reset return, though they hold the lock while they wait *)
(* for the executors, and close() always gets to the Store.                *)
(***************************************************************************)
CallsReturn == []<>(lock = Free) /\ []<>(life \in {"open", "closed"})

=============================================================================
