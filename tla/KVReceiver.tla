----------------------------- MODULE KVReceiver -----------------------------
(***************************************************************************)
(* The receiving half of MooncakeKVTransfer (kv_transfer.py): one instance *)
(* per D rank, all pulling from one prefill engine.  The engine's worker   *)
(* thread starts receives, polls results, takes block errors and fences a  *)
(* preempted request; tasks on receiver_loop discover the P ranks through  *)
(* the bootstrap server and pull one batch from one P rank each.           *)
(*                                                                         *)
(* Everything between two awaits of receiver_loop is one action.  A        *)
(* _ReceiveFenceError is fatal: every later call of the worker raises it   *)
(* and the worker stops, so fatal[d] disables the worker's operations.     *)
(***************************************************************************)
EXTENDS TransferWire, FiniteSets

CONSTANT BootstrapMayFail \* may the bootstrap query fail or lack the engine?

ASSUME ReceiverAssumption == BootstrapMayFail \in BOOLEAN

VARIABLES
  known,     \* d |-> the engine is in _remote_agents
  querying,  \* d |-> a query is in _pending_bootstrap_queries
  discovery, \* d |-> batch |-> where its handle_new_engine_id task is
  pull,      \* m |-> the receive_kv_from_single_worker task of message m
  events,    \* d |-> requests in _recv_events
  future,    \* d |-> r |-> the future in _receive_futures
  count,     \* d |-> r |-> pull_tasks_count
  finished,  \* d |-> finished_recving_reqs
  failed,    \* d |-> _failed_recv
  invalid,   \* d |-> requests whose blocks are in _invalid
  retired,   \* d |-> _retired_recvs
  fatal,     \* d |-> _receive_error is set
  fenced,    \* d |-> the request preempt() waits for, {} if the thread is free
  target     \* ghost: d |-> r |-> are the blocks on D open to P's writes?

discVars     == <<known, querying, discovery>>
resultVars   == <<events, future, count, finished, failed, invalid, retired>>
receiverVars == <<discVars, pull, resultVars, fatal, fenced, target>>

Pull == [stage : {"none", "start", "open", "closed", "lost"},
         remaining : SUBSET Req]

ReceiverTypeOK ==
  /\ known \in [DRank -> BOOLEAN]
  /\ querying \in [DRank -> BOOLEAN]
  /\ discovery \in [DRank -> [Batch -> {"none", "new", "query", "wait", "woken"}]]
  /\ pull \in [Msg -> Pull]
  /\ events \in [DRank -> SUBSET Req]
  /\ future \in [DRank -> [Req -> {"none", "pending", "done"}]]
  /\ count \in [DRank -> [Req -> 0 .. PTp]]
  /\ finished \in [DRank -> SUBSET Req]
  /\ failed \in [DRank -> SUBSET Req]
  /\ invalid \in [DRank -> SUBSET Req]
  /\ retired \in [DRank -> SUBSET Req]
  /\ fatal \in [DRank -> BOOLEAN]
  /\ fenced \in [DRank -> SUBSET Req]
  /\ target \in [DRank -> [Req -> {"unused", "open", "closed"}]]

ReceiverInit ==
  /\ known = [d \in DRank |-> FALSE]
  /\ querying = [d \in DRank |-> FALSE]
  /\ discovery = [d \in DRank |-> [b \in Batch |-> "none"]]
  /\ pull = [m \in Msg |-> [stage |-> "none", remaining |-> {}]]
  /\ events = [d \in DRank |-> {}]
  /\ future = [d \in DRank |-> [r \in Req |-> "none"]]
  /\ count = [d \in DRank |-> [r \in Req |-> 0]]
  /\ finished = [d \in DRank |-> {}]
  /\ failed = [d \in DRank |-> {}]
  /\ invalid = [d \in DRank |-> {}]
  /\ retired = [d \in DRank |-> {}]
  /\ fatal = [d \in DRank |-> FALSE]
  /\ fenced = [d \in DRank |-> {}]
  /\ target = [d \in DRank |-> [r \in Req |-> "unused"]]

\* The worker thread can call into the transfer.
Running(d) == fenced[d] = {} /\ ~fatal[d]

-----------------------------------------------------------------------------
\* Mutant: the first of the paired P ranks to answer decides.
StartPullsOnce(d, batch) ==
  /\ count' = [count EXCEPT ![d] = [r \in Req |-> IF r \in batch THEN 1 ELSE @[r]]]
  /\ pull' = [m \in Msg |->
       IF m.d = d /\ m.batch = batch /\ m.p \in SourcesOf(d)
         THEN [stage |-> "start", remaining |-> batch] ELSE pull[m]]

\* The tasks of receive_kv: one pull task per paired P rank.
StartPulls(d, batch) ==
  /\ count' = [count EXCEPT ![d] = [r \in Req |->
       IF r \in batch THEN Cardinality(SourcesOf(d)) ELSE @[r]]]
  /\ pull' = [m \in Msg |->
       IF m.d = d /\ m.batch = batch /\ m.p \in SourcesOf(d)
         THEN [stage |-> "start", remaining |-> batch] ELSE pull[m]]

\* receive_kv.  With TP sizes that do not divide each other
\* handshake_target_ranks raises before any task exists, to the task of
\* handle_new_engine_id or to the caller of recv().
ReceiveKv(d, batch) ==
  IF RatioOk(DTp, PTp) THEN StartPulls(d, batch) ELSE UNCHANGED <<pull, count>>

\* Mutant: the future of a finished receive is not completed.
FinishUnsignalled(d, done) ==
  /\ finished' = [finished EXCEPT ![d] = @ \cup done]
  /\ UNCHANGED future

\* _finish_receive: a terminal result for the requests of done.
FinishReceives(d, done) ==
  /\ finished' = [finished EXCEPT ![d] = @ \cup done]
  /\ future' = [future EXCEPT ![d] = [r \in Req |->
       IF r \in done /\ @[r] = "pending" THEN "done" ELSE @[r]]]

\* The checks of _start_receive.
Accepts(d, r) == r \notin events[d] \cup invalid[d] \cup retired[d]

\* recv(): D's blocks of a batch are offered to P's writes.  The engine starts
\* an attempt only when it holds no blocks for an earlier one.
\* If receive_kv raises, what _start_receive registered stays.
Recv(d, batch) ==
  /\ Running(d)
  /\ \A r \in batch : Accepts(d, r) /\ target[d][r] # "open"
  /\ events' = [events EXCEPT ![d] = @ \cup batch]
  /\ target' = [target EXCEPT ![d] = [r \in Req |->
       IF r \in batch THEN "open" ELSE @[r]]]
  /\ future' = [future EXCEPT ![d] = [r \in Req |->
       IF r \in batch THEN "pending" ELSE @[r]]]
  /\ IF known[d]
       THEN ReceiveKv(d, batch) /\ UNCHANGED discovery
       ELSE /\ discovery' = [discovery EXCEPT ![d][batch] = "new"]
            /\ UNCHANGED <<count, pull>>
  /\ UNCHANGED <<wireVars, known, querying, finished, failed, invalid,
                 retired, fatal, fenced>>

\* handle_new_engine_id starts: query, or wait for the query under way.
Discover(d, batch) ==
  /\ discovery[d][batch] = "new"
  /\ discovery' = [discovery EXCEPT ![d][batch] =
                     IF querying[d] THEN "wait" ELSE "query"]
  /\ querying' = [querying EXCEPT ![d] = TRUE]
  /\ UNCHANGED <<wireVars, known, pull, resultVars, fatal, fenced, target>>

\* Mutant: a failed discovery is only logged.
ResumeSilent(d, batch, isKnown) ==
  /\ IF isKnown THEN ReceiveKv(d, batch) ELSE UNCHANGED <<pull, count>>
  /\ UNCHANGED <<failed, finished, future>>

\* handle_new_engine_id after its await, with what is known by then.
Resume(d, batch, isKnown) ==
  IF ~isKnown
    THEN /\ failed' = [failed EXCEPT ![d] = @ \cup batch]
         /\ FinishReceives(d, batch)
         /\ UNCHANGED <<pull, count>>
    ELSE /\ ReceiveKv(d, batch)
         /\ UNCHANGED <<failed, finished, future>>

\* Mutant: the tasks that share the query are not woken.
AwaitsEnded(d, batch) == [discovery[d] EXCEPT ![batch] = "none"]

\* _pending_bootstrap_queries.pop(...).set(), in a finally clause: the task
\* of the query goes on, and so do those that wait for it.
AwaitsOver(d, batch) ==
  [b \in Batch |-> IF b = batch THEN "none"
                   ELSE IF discovery[d][b] = "wait" THEN "woken"
                   ELSE discovery[d][b]]

\* The query ends, wakes the waiting tasks, and its own task goes on.
QueryDone(d, batch, found) ==
  /\ discovery[d][batch] = "query"
  /\ found \/ BootstrapMayFail
  /\ known' = [known EXCEPT ![d] = @ \/ found]
  /\ querying' = [querying EXCEPT ![d] = FALSE]
  /\ discovery' = [discovery EXCEPT ![d] = AwaitsOver(d, batch)]
  /\ Resume(d, batch, known[d] \/ found)
  /\ UNCHANGED <<wireVars, events, invalid, retired, fatal, fenced, target>>

Woke(d, batch) ==
  /\ discovery[d][batch] = "woken"
  /\ discovery' = [discovery EXCEPT ![d][batch] = "none"]
  /\ Resume(d, batch, known[d])
  /\ UNCHANGED <<wireVars, known, querying, events, invalid, retired, fatal,
                 fenced, target>>

-----------------------------------------------------------------------------
\* receive_kv_from_single_worker.

\* Mutant: a failed request is not counted down.
CountedOk(ok, bad) == ok

\* The requests whose pull_tasks_count an answer lowers.
Counted(ok, bad) == ok \cup bad

\* process_pulling_result: ERROR and FINISH fail all that remains.
Process(m, status, ok, err) ==
  LET bad   == IF status = "CONTINUE" THEN err ELSE pull[m].remaining \ ok
      done  == {r \in Counted(ok, bad) : count[m.d][r] = 1}
      left  == pull[m].remaining \ (ok \cup bad)
  IN  /\ failed' = [failed EXCEPT ![m.d] = @ \cup bad]
      /\ count' = [count EXCEPT ![m.d] = [r \in Req |->
           IF r \in Counted(ok, bad) THEN @[r] - 1 ELSE @[r]]]
      /\ FinishReceives(m.d, done)
      /\ pull' = [pull EXCEPT ![m] =
           [stage |-> IF status = "CONTINUE" THEN "open" ELSE "closed",
            remaining |-> left]]
      /\ UNCHANGED <<events, invalid, retired>>

\* Connect and send: from here on P may write into D's memory.
Publish(m) ==
  /\ pull[m].stage = "start"
  /\ pull' = [pull EXCEPT ![m].stage = "open"]
  /\ posted' = posted \cup {m}
  /\ UNCHANGED <<replies, discVars, resultVars, fatal, fenced, target>>

\* The socket raised before anything was sent: an ordinary failure.
ConnectFail(m) ==
  /\ pull[m].stage = "start"
  /\ Process(m, "ERROR", {}, {})
  /\ UNCHANGED <<wireVars, discVars, fatal, fenced, target>>

Receive(m) ==
  /\ pull[m].stage = "open" /\ replies[m] # <<>>
  /\ replies' = [replies EXCEPT ![m] = Tail(@)]
  /\ LET a == Head(replies[m]) IN Process(m, a.status, a.ok, a.err)
  /\ UNCHANGED <<posted, discVars, fatal, fenced, target>>

\* Mutant: a lost peer is one more failed receive.
LoseGently(m) ==
  /\ pull[m].stage = "open" /\ replies[m] = <<>> /\ pull[m].remaining # {}
  /\ Process(m, "ERROR", {}, {})
  /\ UNCHANGED <<wireVars, discVars, fatal, fenced, target>>

\* RCVTIMEO, or a dead peer: D cannot tell whether P still writes.  Every
\* fence is woken, to find the fatal error.
Lose(m) ==
  /\ pull[m].stage = "open" /\ replies[m] = <<>> /\ pull[m].remaining # {}
  /\ pull' = [pull EXCEPT ![m].stage = "lost"]
  /\ fatal' = [fatal EXCEPT ![m.d] = TRUE]
  /\ future' = [future EXCEPT ![m.d] = [r \in Req |->
       IF @[r] = "pending" THEN "done" ELSE @[r]]]
  /\ UNCHANGED <<wireVars, discVars, events, count, finished, failed, invalid,
                 retired, fenced, target>>

-----------------------------------------------------------------------------
\* Collecting results, on the worker thread.

\* Collected, or fenced: the engine may use the blocks for something else.
Close(d, S) == target' = [target EXCEPT ![d] = [r \in Req |->
                  IF r \in S THEN "closed" ELSE @[r]]]

\* _receive_futures.pop
Forget(d, S) == future' = [future EXCEPT ![d] = [r \in Req |->
                  IF r \in S THEN "none" ELSE @[r]]]

\* poll() -> fetch_finished_recving_reqs.
PollRecv(d) ==
  LET done == finished[d] IN
  /\ Running(d) /\ done # {}
  /\ finished' = [finished EXCEPT ![d] = {}]
  /\ events' = [events EXCEPT ![d] = @ \ done]
  /\ invalid' = [invalid EXCEPT ![d] = @ \cup (done \cap failed[d])]
  /\ failed' = [failed EXCEPT ![d] = @ \ done]
  /\ retired' = [retired EXCEPT ![d] = @ \cup done]
  /\ Forget(d, done)
  /\ Close(d, done)
  /\ UNCHANGED <<wireVars, discVars, pull, count, fatal, fenced>>

\* take_errors() -> _take_receive_errors.
TakeErrors(d) ==
  /\ Running(d) /\ invalid[d] # {}
  /\ invalid' = [invalid EXCEPT ![d] = {}]
  /\ UNCHANGED <<wireVars, discVars, pull, events, future, count, finished,
                 failed, retired, fatal, fenced, target>>

\* preempt() -> _wait_for_receives({r}), up to its await.
Fence(d, r) ==
  /\ Running(d) /\ target[d][r] = "open"
  /\ fenced' = [fenced EXCEPT ![d] = {r}]
  /\ UNCHANGED <<wireVars, discVars, pull, resultVars, fatal, target>>

\* ... and after it: the fatal error first, then discard what is left.
FenceReturn(d) ==
  \E r \in fenced[d] :
    /\ future[d][r] # "pending" /\ ~fatal[d]
    /\ fenced' = [fenced EXCEPT ![d] = {}]
    /\ events' = [events EXCEPT ![d] = @ \ {r}]
    /\ retired' = [retired EXCEPT ![d] = @ \cup (events[d] \cap {r})]
    /\ invalid' = [invalid EXCEPT ![d] = @ \ {r}]
    /\ finished' = [finished EXCEPT ![d] = @ \ {r}]
    /\ failed' = [failed EXCEPT ![d] = @ \ {r}]
    /\ Forget(d, {r})
    /\ Close(d, {r})
    /\ UNCHANGED <<wireVars, discVars, pull, count, fatal>>

-----------------------------------------------------------------------------
WorkerStep(d) ==
  \/ PollRecv(d) \/ TakeErrors(d) \/ FenceReturn(d)
  \/ \E r \in Req : Fence(d, r)
  \/ \E batch \in Batch : Recv(d, batch)

DiscoveryStep(d, batch) ==
  \/ Discover(d, batch) \/ Woke(d, batch)
  \/ \E found \in BOOLEAN : QueryDone(d, batch, found)

=============================================================================
