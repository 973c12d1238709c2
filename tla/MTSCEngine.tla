----------------------------- MODULE MTSCEngine -----------------------------
(***************************************************************************)
(* One vLLM engine around MTSCConnector: the scheduler's hooks, the        *)
(* metadata of a step, its execution on every rank, and what the ranks'    *)
(* outputs do to the requests.  vLLM itself is not part of the repository; *)
(* it is modelled from the hooks that connector.py offers it and from the  *)
(* order in which they are called:                                         *)
(*                                                                         *)
(*   schedule()  for waiting requests get_num_new_matched_tokens and, once *)
(*               blocks are found, update_state_after_alloc; preemption;   *)
(*               then build_connector_meta                                 *)
(*   execution   on each rank handle_preemptions, the model, get_finished  *)
(*   update      request_finished for requests that stop, then             *)
(*               update_connector_output                                   *)
(*                                                                         *)
(* vLLM acts on finished_recving and finished_sending of a request when    *)
(* every rank has reported it, and cuts a remote load at its first invalid *)
(* block (kv_load_failure_policy is recompute).                            *)
(***************************************************************************)
EXTENDS MTSCWorker

VARIABLES
  status,     \* r |-> where vLLM has the request
  table,      \* r |-> the number of its last block table
  local,      \* r |-> blocks of it that the local prefix cache had
  computed,   \* r |-> blocks of it that vLLM takes for computed
  phase,      \* of the step
  scheduled,  \* r |-> blocks computed after this step
  matched,    \* waiting requests looked up in this step
  admitted,   \* requests that were given blocks or resumed in this step
  preempting, \* preempted_req_ids of this step
  ended,      \* finished_req_ids not published yet
  stopping,   \* requests that stop with this step's tokens
  fenced,     \* ranks that have done handle_preemptions
  ran,        \* ranks that have done get_finished
  receivedBy, \* r |-> ranks that reported finished_recving
  sentBy      \* r |-> ranks that reported finished_sending

stepVars   == <<phase, scheduled, matched, admitted, preempting, ended, stopping, fenced, ran>>
vllmVars   == <<status, table, local, computed, receivedBy, sentBy>>
engineVars == <<schedVars, workerVars, stepVars, vllmVars>>

TableOf(r) == <<r, table[r]>>
Held(r) == status[r] \in {"remote", "loaded", "running", "finished", "aborted"}

EngineTypeOK ==
  /\ SchedulerTypeOK /\ WorkerTypeOK
  /\ status \in [Req -> {"waiting", "remote", "loaded", "running", "finished", "aborted", "gone"}]
  /\ table \in [Req -> 0 .. MaxTables]
  /\ local \in [Req -> Tokens] /\ computed \in [Req -> Tokens]
  /\ phase \in {"schedule", "execute", "update"}
  /\ DOMAIN scheduled \subseteq Req /\ \A r \in DOMAIN scheduled : scheduled[r] \in Tokens
  /\ matched \subseteq Req /\ admitted \subseteq Req /\ preempting \subseteq Req
  /\ ended \subseteq Req /\ stopping \subseteq Req
  /\ ran \subseteq fenced /\ fenced \subseteq Rank
  /\ receivedBy \in [Req -> SUBSET Rank] /\ sentBy \in [Req -> SUBSET Rank]

EngineInit ==
  /\ SchedulerInit /\ WorkerInit
  /\ status = [r \in Req |-> "waiting"] /\ table = [r \in Req |-> 0]
  /\ local = [r \in Req |-> 0] /\ computed = [r \in Req |-> 0]
  /\ phase = "schedule" /\ scheduled = << >> /\ matched = {} /\ admitted = {}
  /\ preempting = {} /\ ended = {} /\ stopping = {} /\ fenced = {} /\ ran = {}
  /\ receivedBy = [r \in Req |-> {}] /\ sentBy = [r \in Req |-> {}]

-----------------------------------------------------------------------------
\* schedule()

\* Waiting requests are looked at only in a step that preempts nobody.
Lookup(r, L, H) ==
  /\ phase = "schedule" /\ preempting = {} /\ status[r] = "waiting"
  /\ r \notin matched /\ table[r] < MaxTables
  /\ Match(r, L, H)
  /\ local' = [local EXCEPT ![r] = L]
  /\ computed' = [computed EXCEPT ![r] = L + External(r, L, H)]
  /\ matched' = matched \cup {r}
  /\ UNCHANGED <<workerVars, status, table, receivedBy, sentBy, phase, scheduled, admitted,
                 preempting, ended, stopping, fenced, ran>>

\* How far a step may compute a request that has n blocks computed.
Reach(r, n) == IF n < Prompt THEN n + 1 .. Prompt
               ELSE IF kind[r] = "P" THEN {n}
               ELSE {x \in n .. n + 1 : x <= MaxTokens}

\* Blocks are found (else the lookup is repeated in a later step).  External
\* blocks are loaded first, while the request waits; else it runs at once.
Allocate(r, after) ==
  /\ phase = "schedule" /\ r \in matched \ admitted
  /\ UpdateStateAfterAlloc(r, <<r, table[r] + 1>>)
  /\ table' = [table EXCEPT ![r] = @ + 1]
  /\ admitted' = admitted \cup {r}
  /\ IF computed[r] > local[r]
     THEN status' = [status EXCEPT ![r] = "remote"] /\ UNCHANGED scheduled
     ELSE /\ status' = [status EXCEPT ![r] = "running"]
          /\ after \in Reach(r, computed[r]) /\ scheduled' = With(scheduled, r, after)
  /\ UNCHANGED <<workerVars, local, computed, receivedBy, sentBy, phase, matched,
                 preempting, ended, stopping, fenced, ran>>

\* The load is over: the request keeps its blocks and runs.
Resume(r, after) ==
  /\ phase = "schedule" /\ preempting = {} /\ status[r] = "loaded"
  /\ UpdateStateAfterAlloc(r, TableOf(r))
  /\ status' = [status EXCEPT ![r] = "running"]
  /\ admitted' = admitted \cup {r}
  /\ after \in Reach(r, computed[r]) /\ scheduled' = With(scheduled, r, after)
  /\ UNCHANGED <<workerVars, table, local, computed, receivedBy, sentBy, phase, matched,
                 preempting, ended, stopping, fenced, ran>>

Continue(r, after) ==
  /\ phase = "schedule" /\ admitted = {} /\ status[r] = "running" /\ r \notin DOMAIN scheduled
  /\ after \in Reach(r, computed[r]) /\ scheduled' = With(scheduled, r, after)
  /\ UNCHANGED <<schedVars, workerVars, vllmVars, phase, matched, admitted, preempting,
                 ended, stopping, fenced, ran>>

\* The blocks go back to vLLM at once; they are written by others only after
\* handle_preemptions.
Preempt(r) ==
  /\ phase = "schedule" /\ admitted = {} /\ matched = {}
  /\ status[r] = "running" /\ table[r] < MaxTables
  /\ status' = [status EXCEPT ![r] = "waiting"]
  /\ scheduled' = Without(scheduled, {r}) /\ preempting' = preempting \cup {r}
  /\ UNCHANGED <<schedVars, workerVars, table, local, computed, receivedBy, sentBy, phase,
                 matched, admitted, ended, stopping, fenced, ran>>

\* A client gives up, between two steps.  Blocks under a remote load stay
\* until the load is over.
Abort(r) ==
  /\ phase = "schedule" /\ admitted = {} /\ matched = {} /\ preempting = {} /\ scheduled = << >>
  /\ status[r] \in {"waiting", "remote", "loaded", "running"}
  /\ RequestFinished(r, TableOf(r), FALSE, Held(r))
  /\ status' = [status EXCEPT ![r] = IF @ = "remote" THEN "aborted"
                                     ELSE IF Delays(r, FALSE, Held(r)) THEN "finished"
                                     ELSE "gone"]
  /\ ended' = ended \cup {r}
  /\ UNCHANGED <<workerVars, table, local, computed, receivedBy, sentBy, phase, scheduled,
                 matched, admitted, preempting, stopping, fenced, ran>>

\* An engine without requests sleeps, unless has_pending_push_work.
HasWork == \/ \E r \in Req : status[r] \in {"waiting", "remote", "loaded", "running"}
           \/ ended # {} \/ HasPendingPushWork

Build ==
  /\ phase = "schedule" /\ HasWork
  /\ BuildConnectorMeta(scheduled, [r \in Req |-> TableOf(r)], ended, preempting)
  /\ phase' = "execute" /\ ran' = {}
  /\ fenced' = IF preempting = {} THEN Rank ELSE {}
  /\ matched' = {} /\ admitted' = {} /\ preempting' = {} /\ ended' = {}
  /\ UNCHANGED <<workerVars, vllmVars, scheduled, stopping>>

-----------------------------------------------------------------------------
\* Execution on the ranks.

Fence(w) ==
  /\ phase = "execute" /\ w \notin fenced
  /\ HandlePreemptions(w) /\ fenced' = fenced \cup {w}
  /\ UNCHANGED <<schedVars, vllmVars, phase, scheduled, matched, admitted, preempting,
                 ended, stopping, ran>>

Execute(w) ==
  /\ phase = "execute" /\ w \in fenced \ ran
  /\ GetFinished(w) /\ ran' = ran \cup {w}
  /\ UNCHANGED <<schedVars, vllmVars, phase, scheduled, matched, admitted, preempting,
                 ended, stopping, fenced>>

IO(w) ==
  /\ \/ \E r \in Req : PutEnds(w, r) \/ SourceEnds(w, r)
     \/ \E r \in Req, upto \in Tokens : GetEnds(w, r, upto)
     \/ \E r \in Req, result \in {"ok", "error"} : PullEnds(w, r, result)
  /\ UNCHANGED <<schedVars, vllmVars, stepVars>>

-----------------------------------------------------------------------------
\* What the outputs do.

\* vLLM cuts a remote load at its first invalid block.
Cut(r) == Min({computed[r]} \cup {i \in Tokens : <<TableOf(r), i>> \in output.invalid})

\* P generates one token; D stops once it has generated something.
MustStop(r) == scheduled[r] = IF kind[r] = "P" THEN Prompt ELSE MaxTokens
MayStop(r)  == MustStop(r) \/ scheduled[r] > Prompt

ModelOutput(stops) ==
  /\ phase = "execute" /\ ran = Rank
  /\ \A r \in DOMAIN scheduled : MustStop(r) => r \in stops
  /\ stops \subseteq {r \in DOMAIN scheduled : MayStop(r)}
  /\ computed' = [r \in Req |-> IF r \in DOMAIN scheduled THEN scheduled[r]
                                ELSE IF status[r] = "remote" THEN Cut(r) ELSE computed[r]]
  /\ stopping' = stops /\ scheduled' = << >> /\ phase' = "update"
  /\ UNCHANGED <<schedVars, workerVars, status, table, local, receivedBy, sentBy, matched,
                 admitted, preempting, ended, fenced, ran>>

\* capped: with FINISHED_LENGTH_CAPPED, not by a stop token.
Stop(r, capped) ==
  /\ phase = "update" /\ r \in stopping
  /\ RequestFinished(r, TableOf(r), capped, TRUE)
  /\ status' = [status EXCEPT ![r] = IF Delays(r, capped, TRUE) THEN "finished" ELSE "gone"]
  /\ stopping' = stopping \ {r} /\ ended' = ended \cup {r}
  /\ UNCHANGED <<workerVars, table, local, computed, receivedBy, sentBy, phase, scheduled,
                 matched, admitted, preempting, fenced, ran>>

By(seen, told, r) == seen[r] \cup {w \in Rank : <<w, r>> \in told}
Complete(seen, told) == {r \in Req : By(seen, told, r) = Rank}

\* A load that brought nothing is given up: the request starts over.
ConnectorOutput ==
  LET received == Complete(receivedBy, output.received)
      sent     == Complete(sentBy, output.sent)
  IN  /\ phase = "update" /\ stopping = {}
      /\ UpdateConnectorOutput(output.reports, sent)
      /\ status' = [r \in Req |->
                      IF r \in sent \/ (r \in received /\ status[r] = "aborted") THEN "gone"
                      ELSE IF r \notin received THEN status[r]
                      ELSE IF computed[r] = 0 THEN "waiting" ELSE "loaded"]
      /\ receivedBy' = [r \in Req |-> IF r \in received THEN {} ELSE By(receivedBy, output.received, r)]
      /\ sentBy' = [r \in Req |-> IF r \in sent THEN {} ELSE By(sentBy, output.sent, r)]
      /\ output' = NoOutput /\ phase' = "schedule"
      /\ UNCHANGED <<backends, onLoad, onSave, onXfer, waits, valid, table, local, computed,
                     scheduled, matched, admitted, preempting, ended, stopping, fenced, ran>>

-----------------------------------------------------------------------------
ScheduleStep(r) ==
  \/ \E L, H \in 0 .. Prompt : Lookup(r, L, H)
  \/ \E after \in Tokens : Allocate(r, after) \/ Resume(r, after) \/ Continue(r, after)

UpdateStep == \/ \E stops \in SUBSET Req : ModelOutput(stops)
              \/ \E r \in Req, capped \in BOOLEAN : Stop(r, capped)
              \/ ConnectorOutput

EngineNext == \/ \E r \in Req : ScheduleStep(r) \/ Preempt(r) \/ Abort(r)
              \/ Build \/ UpdateStep
              \/ \E w \in Rank : Fence(w) \/ Execute(w) \/ IO(w)

EngineSpec == EngineInit /\ [][EngineNext]_engineVars

-----------------------------------------------------------------------------
\* Properties.

(***************************************************************************)
(* Store and transfer I/O only touches blocks that the request still has:  *)
(* vLLM never gets blocks back, by a finish, an abort or a preemption that *)
(* a rank has fenced, while a GET, a PUT, a receive or a published source  *)
(* uses them.  And blocks have one writer: P is asked for blocks only when *)
(* the GET into the same request is over (docs/design/S03).                *)
(***************************************************************************)
Uses(w, r) ==
  {f[r].table : f \in {x \in {getOp[w], putOp[w], pull[w], source[w]} :
     /\ r \in DOMAIN x
     /\ x[r].state \in {"busy", "published"}
     /\ ~("from" \in DOMAIN x[r] /\ x[r].from = x[r].to)}}
Unfenced(w, r) == r \in preempting \/ (r \in metadata.preempted /\ phase = "execute" /\ w \notin fenced)
BlocksQuiet ==
  \A w \in Rank, r \in Req :
    /\ Uses(w, r) \subseteq IF Held(r) \/ Unfenced(w, r) THEN {TableOf(r)} ELSE {}
    /\ ~(r \in In(getOp[w], "busy") /\ r \in In(pull[w], "busy"))

(***************************************************************************)
(* What vLLM takes for computed after a load was really loaded, on every   *)
(* rank: partial GETs, failed receives and ranks that disagree never leave *)
(* a hole, because each failed block is reported by the time the load is.  *)
(***************************************************************************)
LoadedIsValid ==
  \A r \in Req : status[r] = "loaded" =>
    \A w \in Rank : \A i \in local[r] .. computed[r] - 1 : <<TableOf(r), i>> \in valid[w]

(***************************************************************************)
(* vLLM is told that a load or a release is over only for a request that   *)
(* waits for it (it asserts so), and by each rank once.                    *)
(***************************************************************************)
ReportsExpected ==
  /\ \A x \in output.received :
       /\ status[x[2]] \in {"remote", "aborted"} /\ x[1] \notin receivedBy[x[2]]
  /\ \A x \in output.sent : status[x[2]] = "finished" /\ x[1] \notin sentBy[x[2]]

(***************************************************************************)
(* The scheduler forgets a request with its blocks: once they are back and *)
(* the finish is published, no decision, trace, save or release mark is    *)
(* left that a later request of the same name would inherit.               *)
(***************************************************************************)
Remembered == DOMAIN tracked \cup DOMAIN loadDecision \cup DOMAIN xferDecision
              \cup DOMAIN traces \cup DOMAIN finishedWaits \cup saving \cup transferring
              \cup delayed
NothingRemembered ==
  \A r \in Req : status[r] = "gone" /\ r \notin ended => r \notin Remembered

(***************************************************************************)
(* The worker keeps its side of the contracts that its two backends are    *)
(* shown to keep, so neither ever refuses what it is asked: no load before *)
(* the one before is collected, no second receive of a request.            *)
(***************************************************************************)
Entry == Rank \X Req
LoadView(w, r) ==
  IF r \notin DOMAIN getOp[w] THEN [state |-> "none", from |-> 0, to |-> 0, upto |-> 0]
  ELSE LET op == getOp[w][r]
       IN  [state |-> op.state, from |-> op.from, to |-> op.to, upto |-> op.upto]
SaveView(w, r) == IF r \in DOMAIN putOp[w] THEN putOp[w][r].state ELSE "none"
Planned(w, r) == \/ r \in DOMAIN onXfer[w]
                 \/ \E p \in batch.plans : p.req = r
                 \/ \E p \in metadata.plans : p.req = r /\ phase = "execute" /\ w \notin ran
ReceiveView(w, r) == IF r \in DOMAIN pull[w] THEN pull[w][r].state
                     ELSE IF r \in remotePrefill \/ Planned(w, r) THEN "ahead"
                     ELSE "over"
ToFence == {x \in Entry : phase = "execute" /\ x[1] \notin fenced /\ x[2] \in metadata.preempted}

Pool == INSTANCE PoolService WITH
          Item <- Entry, Token <- Tokens,
          load <- [x \in Entry |-> LoadView(x[1], x[2])],
          save <- [x \in Entry |-> SaveView(x[1], x[2])],
          fenced <- ToFence
Transfer == INSTANCE ReceiveService WITH
              Item <- Entry,
              receive <- [x \in Entry |-> ReceiveView(x[1], x[2])],
              fenced <- ToFence

KeepsContracts == Pool!Spec /\ Transfer!Spec

(***************************************************************************)
(* Fairness: the engine steps while it has work, its ranks and their I/O   *)
(* get on.  Which requests are admitted or preempted is vLLM's choice.     *)
(***************************************************************************)
EngineFairness == /\ WF_engineVars(Build) /\ WF_engineVars(UpdateStep)
                  /\ \A w \in Rank : /\ WF_engineVars(Fence(w) \/ Execute(w))
                                     /\ WF_engineVars(IO(w))
EngineFairSpec == EngineSpec /\ EngineFairness

(***************************************************************************)
(* Whoever waits for the connector stops waiting: blocks whose release was *)
(* delayed are released, and a remote load ends.                           *)
(***************************************************************************)
WaitsEnd == \A r \in Req : /\ r \in delayed ~> r \notin delayed
                           /\ status[r] = "remote" ~> status[r] # "remote"

=============================================================================
