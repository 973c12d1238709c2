----------------------------- MODULE MTSCWorker -----------------------------
(***************************************************************************)
(* MTSCWorker (worker.py) on every rank: what a step's metadata starts in  *)
(* the Store pool and in the transfer, the two stages of a remote load,    *)
(* the failed blocks, and the release of a finished request's blocks.      *)
(*                                                                         *)
(* The two backends are what KVCachePool and KVSender/KVReceiver show of   *)
(* them here: an operation is at work until it has a result, poll()        *)
(* collects results, preempt() returns when nothing is at work.            *)
(* PoolService and ReceiveService say this as contracts.                   *)
(***************************************************************************)
EXTENDS MTSCScheduler, FiniteSetsExt

VARIABLES
  getOp,   \* pool: w |-> r |-> its load
  putOp,   \* pool: w |-> r |-> its saves
  pull,    \* transfer, as D: w |-> r |-> its receive
  source,  \* transfer, as P: w |-> r |-> its source
  onLoad,  \* _on_load_requests: w |-> r |-> load request
  onSave,  \* _on_save_requests: w |-> requests
  onXfer,  \* _on_transfer: w |-> r |-> plan, stage and actual pool prefix
  waits,   \* _finished_waits: w |-> r |-> wait and what is done of it
  valid,   \* ghost: w |-> blocks <<table, i>> that a GET or P has filled
  output   \* what the ranks have returned in this step

backends   == <<getOp, putOp, pull, source>>
workerVars == <<backends, onLoad, onSave, onXfer, waits, valid, output>>

NoOutput == [reports |-> {}, invalid |-> {}, sent |-> {}, received |-> {}]

Op(table, state) == [table |-> table, state |-> state]

\* The operations of f in a state.
In(f, state) == {r \in DOMAIN f : f[r].state = state}

WorkerTypeOK ==
  \A w \in Rank :
    /\ \A r \in DOMAIN getOp[w] : getOp[w][r] \in
         [table : Table, from : Tokens, to : Tokens, upto : Tokens, state : {"busy", "done"}]
    /\ \A r \in DOMAIN putOp[w] : putOp[w][r] \in [table : Table, state : {"busy", "done"}]
    /\ \A r \in DOMAIN pull[w] : pull[w][r] \in
         [table : Table, from : Tokens, to : Tokens, state : {"busy", "ok", "error"}]
    /\ \A r \in DOMAIN source[w] : source[w][r] \in
         [table : Table, state : {"prepared", "published", "sent"}]
    /\ \A r \in DOMAIN onLoad[w] : onLoad[w][r] \in LoadRequest
    /\ onSave[w] \subseteq Req
    /\ \A r \in DOMAIN onXfer[w] : onXfer[w][r] \in
         [plan : TransferPlan, stage : {"POOL_LOADING", "POOL_DONE", "TRANSFER_LOADING"},
          A : Tokens]
    /\ \A r \in DOMAIN waits[w] : waits[w][r] \in
         [wait : Wait, saveDone : BOOLEAN, xferDone : BOOLEAN]
    /\ valid[w] \subseteq Table \X Tokens

WorkerInit ==
  /\ getOp = [w \in Rank |-> << >>] /\ putOp = [w \in Rank |-> << >>]
  /\ pull = [w \in Rank |-> << >>] /\ source = [w \in Rank |-> << >>]
  /\ onLoad = [w \in Rank |-> << >>] /\ onSave = [w \in Rank |-> {}]
  /\ onXfer = [w \in Rank |-> << >>] /\ waits = [w \in Rank |-> << >>]
  /\ valid = [w \in Rank |-> {}] /\ output = NoOutput

-----------------------------------------------------------------------------
\* The backends at work.

Fill(w, table, from, to) == valid' = [valid EXCEPT ![w] = @ \cup {<<table, i>> : i \in from .. to - 1}]

\* The GET ends with the blocks up to upto; a late one is told as a failure.
GetEnds(w, r, upto) ==
  /\ r \in In(getOp[w], "busy") /\ upto \in getOp[w][r].from .. getOp[w][r].to
  /\ getOp' = [getOp EXCEPT ![w][r].state = "done", ![w][r].upto = upto]
  /\ Fill(w, getOp[w][r].table, getOp[w][r].from, upto)
  /\ UNCHANGED <<putOp, pull, source, onLoad, onSave, onXfer, waits, output>>

PutEnds(w, r) ==
  /\ r \in In(putOp[w], "busy")
  /\ putOp' = [putOp EXCEPT ![w][r].state = "done"]
  /\ UNCHANGED <<getOp, pull, source, onLoad, onSave, onXfer, waits, valid, output>>

PullEnds(w, r, result) ==
  /\ r \in In(pull[w], "busy")
  /\ pull' = [pull EXCEPT ![w][r].state = result]
  /\ IF result = "ok" THEN Fill(w, pull[w][r].table, pull[w][r].from, pull[w][r].to)
     ELSE UNCHANGED valid
  /\ UNCHANGED <<getOp, putOp, source, onLoad, onSave, onXfer, waits, output>>

\* Every D rank has read the source, or it has expired.
SourceEnds(w, r) ==
  /\ r \in In(source[w], "published")
  /\ source' = [source EXCEPT ![w][r].state = "sent"]
  /\ UNCHANGED <<getOp, putOp, pull, onLoad, onSave, onXfer, waits, valid, output>>

-----------------------------------------------------------------------------
\* handle_preemptions, called before the step's model run.

\* The fences of pool.preempt and transfer.preempt.
Fenced(w, r) == /\ r \notin In(putOp[w], "busy") /\ r \notin In(getOp[w], "busy")
                /\ r \notin In(pull[w], "busy")

HandlePreemptions(w) ==
  LET S == metadata.preempted
      sources == {r \in S \cap DOMAIN source[w] : source[w][r].state # "prepared"}
  IN  /\ \A r \in S : Fenced(w, r)
      /\ getOp'  = [getOp EXCEPT ![w] = Without(@, S)]
      /\ putOp'  = [putOp EXCEPT ![w] = Without(@, S)]
      /\ pull'   = [pull EXCEPT ![w] = Without(@, S)]
      /\ source' = [source EXCEPT ![w] = Without(@, sources)]
      /\ onLoad' = [onLoad EXCEPT ![w] = Without(@, S)]
      /\ onSave' = [onSave EXCEPT ![w] = @ \ S]
      /\ onXfer' = [onXfer EXCEPT ![w] = Without(@, S)]
      /\ waits'  = [waits EXCEPT ![w] = Without(@, S)]
      /\ UNCHANGED <<valid, output>>

-----------------------------------------------------------------------------
\* get_finished

Reqs(S) == {x.req : x \in S}
Of(S, r) == CHOOSE x \in S : x.req = r

\* _pool_candidate_block_ids: blocks that P can still fill if the pool fails.
Candidates(plan) == {<<plan.table, i>> : i \in plan.L .. plan.H - 1}

\* The blocks that a load of the pool has not filled.
Missed(op) == {<<op.table, i>> : i \in op.upto .. op.to - 1}

\* Where the part that P is asked for begins.
\* Mutant: behind what the pool promised, not what it delivered.
PlannedPrefix(op) == op.to
ActualPrefix(op) == op.upto

\* Does vLLM hold the request back until the plan is done?
\* Mutant: always.
AwaitedAlways(plan) == TRUE
Awaited(plan) == plan.T > plan.L

\* update_load_metadata: a plan of a request that is still known is ignored.
NewPlans(w) == {p \in metadata.plans : p.req \notin DOMAIN onXfer[w]}
Stage(p) == IF p.H > p.L THEN "POOL_LOADING" ELSE "POOL_DONE"
WithPlans(w) == Over([r \in Reqs(NewPlans(w)) |->
                        LET p == Of(NewPlans(w), r) IN [plan |-> p, stage |-> Stage(p), A |-> p.L]],
                     onXfer[w])

WithLoads(w) == Over([r \in Reqs(metadata.loads) |-> Of(metadata.loads, r)], onLoad[w])

\* update_finished_metadata of a wait: is a save of the request still open?
\* Mutant: never, the result has to come after the wait.
SaveOpen(w, r) == FALSE
SaveOver(w, r) == r \notin onSave[w] \cup Reqs(metadata.saves)

\* The waits of this step, and those that saves of this step reopen.
WithWaits(w) ==
  LET kept == [r \in DOMAIN waits[w] |->
                 IF r \in Reqs(metadata.saves) THEN [waits[w][r] EXCEPT !.saveDone = FALSE]
                 ELSE waits[w][r]]
  IN  Over(kept, [r \in DOMAIN metadata.waits |->
                    [wait |-> metadata.waits[r], saveDone |-> SaveOver(w, r), xferDone |-> FALSE]])

\* transfer.prepare, send and cancel.
WithSources(w) ==
  LET gone == {x.req : x \in {y \in metadata.states : y.state = "cancelled"}}
      new  == {y \in metadata.states : y.state = "ready"}
      early == {y \in metadata.states : y.state = "prepare"}
  IN  Over([r \in Reqs(new) |-> Op(Of(new, r).table, "published")],
           Over(Without(source[w], gone),
                [r \in Reqs(early) |-> Op(Of(early, r).table, "prepared")]))

\* _FinishedWaitState.is_finished
WaitOver(x) == (x.wait.save => x.saveDone) /\ (x.wait.xfer => x.xferDone)

Report(w, r, id) == [req |-> r, rank |-> w, id |-> id]

GetFinished(w) ==
  LET plans  == WithPlans(w)
      loads  == WithLoads(w)
      \* poll and take_errors
      got    == In(getOp[w], "done")
      saved  == In(putOp[w], "done") \ Reqs(metadata.saves)
      pulled == In(pull[w], "ok") \cup In(pull[w], "error")
      sent   == In(source[w], "sent")
      poolErrors == (UNION {Missed(getOp[w][r]) : r \in got})
                    \ (UNION {Candidates(plans[r].plan) : r \in DOMAIN plans})
      \* _aggregate_recv_finished
      plain  == got \ DOMAIN plans
      starts == {r \in DOMAIN plans : \/ plans[r].stage = "POOL_DONE"
                                      \/ plans[r].stage = "POOL_LOADING" /\ r \in got}
      prefix(r) == IF plans[r].stage = "POOL_DONE" THEN plans[r].plan.L ELSE ActualPrefix(getOp[w][r])
      over   == pulled \cap DOMAIN plans
      suffix(r) == {<<plans[r].plan.table, i>> : i \in plans[r].A .. plans[r].plan.T - 1}
      \* _aggregate_send_finished
      settled == [r \in DOMAIN WithWaits(w) |->
                    [WithWaits(w)[r] EXCEPT !.saveDone = @ \/ r \in saved,
                                            !.xferDone = @ \/ r \in sent]]
      released == {r \in DOMAIN settled : WaitOver(settled[r])}
  IN  /\ getOp' = [getOp EXCEPT ![w] =
                     Over([r \in Reqs(metadata.loads) |->
                             LET x == Of(metadata.loads, r)
                             IN  [table |-> x.table, from |-> x.from, to |-> x.to,
                                  upto |-> x.from, state |-> "busy"]],
                          Without(@, got))]
      /\ putOp' = [putOp EXCEPT ![w] =
                     Over([r \in Reqs(metadata.saves) |-> Op(Of(metadata.saves, r).table, "busy")],
                          Without(@, saved))]
      /\ pull' = [pull EXCEPT ![w] =
                    Over([r \in starts |-> [table |-> plans[r].plan.table, from |-> prefix(r),
                                            to |-> plans[r].plan.T, state |-> "busy"]],
                         Without(@, pulled))]
      /\ source' = [source EXCEPT ![w] = Without(WithSources(w), sent)]
      /\ onLoad' = [onLoad EXCEPT ![w] = Without(loads, got)]
      /\ onSave' = [onSave EXCEPT ![w] = (@ \cup Reqs(metadata.saves)) \ saved]
      /\ onXfer' = [onXfer EXCEPT ![w] =
                      [r \in DOMAIN plans \ over |->
                         IF r \in starts
                         THEN [plans[r] EXCEPT !.stage = "TRANSFER_LOADING", !.A = prefix(r)]
                         ELSE plans[r]]]
      /\ waits' = [waits EXCEPT ![w] = Without(settled, released)]
      /\ output' = [reports  |-> output.reports
                                 \cup {Report(w, r, loads[r].id) : r \in plain \cap DOMAIN loads}
                                 \cup {Report(w, r, plans[r].plan.id) : r \in over},
                    invalid  |-> output.invalid \cup poolErrors
                                 \cup UNION {suffix(r) : r \in over \cap In(pull[w], "error")},
                    sent     |-> output.sent \cup {<<w, r>> : r \in released},
                    received |-> output.received
                                 \cup {<<w, r>> : r \in plain
                                         \cup {x \in over : Awaited(plans[x].plan)}}]
      /\ UNCHANGED valid

=============================================================================
