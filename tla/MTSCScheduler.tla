--------------------------- MODULE MTSCScheduler ----------------------------
(***************************************************************************)
(* MTSCScheduler (scheduler.py): what the engine's scheduler remembers of  *)
(* each request between vLLM's hooks, and what it publishes to the workers *)
(* in a step.  One action per hook; MTSCEngine calls them in vLLM's order. *)
(*                                                                         *)
(* The engine is kv_both with mtsc_decode_save: a request of kind "P" was  *)
(* sent by the proxy with do_remote_decode, one of kind "D" with           *)
(* do_remote_prefill.  Tokens are counted in blocks (a block that is not   *)
(* full yet is not counted), and the n-th table of blocks that a request r *)
(* gets is named <<r, n>>.                                                 *)
(***************************************************************************)
EXTENDS Integers, FiniteSets

CONSTANTS Req,       \* requests
          Rank,      \* workers, one per TP rank
          Prompt,    \* blocks of a prompt
          MaxTokens, \* blocks of a prompt with what is generated
          MaxTables  \* bound on the block tables a request gets

ASSUME EngineAssumption == /\ IsFiniteSet(Req) /\ IsFiniteSet(Rank) /\ Rank # {}
                           /\ Prompt \in Nat \ {0}
                           /\ MaxTokens \in Nat /\ MaxTokens >= Prompt
                           /\ MaxTables \in Nat

VARIABLES
  kind,          \* r |-> "P" or "D"
  remotePrefill, \* D requests whose do_remote_prefill is still set
  tracked,       \* _tracked_requests: r |-> saved_tokens
  loadDecision,  \* _load_decisions: r |-> the part of the prompt in the pool
  xferDecision,  \* _transfer_decisions: r |-> L, H and T
  traces,        \* _load_traces: r |-> load id and the ranks that reported
  nextLoadId,    \* _next_load_id
  batch,         \* _batch_pool_loads, _saves, _transfers and _transfer_state
  finishedWaits, \* _finished_waits: r |-> what its blocks wait for
  saving,        \* _saving_requests
  transferring,  \* _transferring_requests
  delayed,       \* _delayed_releases
  metadata       \* the MTSCConnectorMetadata that the workers have

trackVars  == <<tracked, traces, saving, transferring>>
decideVars == <<loadDecision, xferDecision>>
schedVars  == <<kind, remotePrefill, trackVars, decideVars, nextLoadId, batch,
                finishedWaits, delayed, metadata>>

\* Dictionaries: with one more entry, without the keys of S, and two of them
\* in one, where the entries of f go before those of g.
With(f, x, v) == [y \in DOMAIN f \cup {x} |-> IF y = x THEN v ELSE f[y]]
Without(f, S) == [x \in DOMAIN f \ S |-> f[x]]
Over(f, g)    == [x \in DOMAIN f \cup DOMAIN g |-> IF x \in DOMAIN f THEN f[x] ELSE g[x]]
Keep(S, cond) == IF cond THEN S ELSE {}

Tokens == 0 .. MaxTokens
Table  == Req \X (0 .. MaxTables)
LoadId == 0 .. MaxTables * Cardinality(Req)

LoadRequest   == [req : Req, table : Table, from : Tokens, to : Tokens, id : LoadId]
SaveRequest   == [req : Req, table : Table, from : Tokens, to : Tokens]
TransferPlan  == [req : Req, table : Table, L : Tokens, H : Tokens, T : Tokens, id : LoadId]
SourceState   == [req : Req, table : Table, state : {"prepare", "ready", "cancelled"}]
Wait          == [save : BOOLEAN, xfer : BOOLEAN]

NoBatch == [loads |-> {}, saves |-> {}, plans |-> {}, states |-> {}]
NoMetadata == [loads |-> {}, saves |-> {}, plans |-> {}, states |-> {},
               waits |-> << >>, preempted |-> {}]

SchedulerTypeOK ==
  /\ kind \in [Req -> {"P", "D"}] /\ remotePrefill \subseteq Req
  /\ DOMAIN tracked \subseteq Req /\ \A r \in DOMAIN tracked : tracked[r] \in Tokens
  /\ DOMAIN loadDecision \subseteq Req /\ DOMAIN xferDecision \subseteq Req
  /\ DOMAIN traces \subseteq Req
  /\ \A r \in DOMAIN traces : traces[r] \in [id : LoadId, reports : SUBSET Rank]
  /\ nextLoadId \in LoadId
  /\ batch.loads \subseteq LoadRequest /\ batch.saves \subseteq SaveRequest
  /\ batch.plans \subseteq TransferPlan /\ batch.states \subseteq SourceState
  /\ DOMAIN finishedWaits \subseteq Req
  /\ \A r \in DOMAIN finishedWaits : finishedWaits[r] \in Wait
  /\ saving \subseteq Req /\ transferring \subseteq Req /\ delayed \subseteq Req
  /\ metadata.loads \subseteq LoadRequest /\ metadata.saves \subseteq SaveRequest
  /\ metadata.plans \subseteq TransferPlan /\ metadata.states \subseteq SourceState
  /\ metadata.preempted \subseteq Req

SchedulerInit ==
  /\ kind \in [Req -> {"P", "D"}] /\ remotePrefill = {r \in Req : kind[r] = "D"}
  /\ tracked = << >> /\ traces = << >> /\ nextLoadId = 0
  /\ loadDecision = << >> /\ xferDecision = << >>
  /\ batch = NoBatch /\ metadata = NoMetadata
  /\ finishedWaits = << >> /\ saving = {} /\ transferring = {} /\ delayed = {}

-----------------------------------------------------------------------------
\* get_num_new_matched_tokens: L blocks are computed, the pool has H.

\* A retry replaces the decisions of the call before.
Match(r, L, H) ==
  /\ loadDecision' = IF H > L THEN With(loadDecision, r, [from |-> L, to |-> H])
                     ELSE Without(loadDecision, {r})
  /\ xferDecision' = IF r \in remotePrefill
                     THEN With(xferDecision, r, [L |-> L, H |-> H, T |-> Prompt])
                     ELSE xferDecision
  /\ UNCHANGED <<kind, remotePrefill, trackVars, nextLoadId, batch, finishedWaits,
                 delayed, metadata>>

\* Mutant: the whole prompt is claimed, computed or not.
ExternalWhole(r, L, H) == IF r \in remotePrefill THEN Prompt ELSE IF H > L THEN H - L ELSE 0

\* The external blocks it claims.
External(r, L, H) == IF r \in remotePrefill THEN Prompt - L
                     ELSE IF H > L THEN H - L ELSE 0

-----------------------------------------------------------------------------
\* update_state_after_alloc: the request has the blocks of table.

\* Mutant: do_remote_prefill stays set.
PrefillStays(r, pulls) == remotePrefill

\* The transfer of a request is planned once.
PrefillAfter(r, pulls) == remotePrefill \ Keep({r}, pulls)

UpdateStateAfterAlloc(r, table) ==
  LET loads == r \in DOMAIN loadDecision
      pulls == r \in DOMAIN xferDecision
      id    == IF loads \/ pulls THEN nextLoadId + 1 ELSE 0
      load  == [req |-> r, table |-> table, from |-> loadDecision[r].from,
                to |-> loadDecision[r].to, id |-> id]
      plan  == [req |-> r, table |-> table, L |-> xferDecision[r].L,
                H |-> xferDecision[r].H, T |-> xferDecision[r].T, id |-> id]
      prepares == ~pulls /\ kind[r] = "P" /\ r \notin transferring
  IN  /\ tracked' = Over(tracked, [x \in {r} |-> 0])
      /\ loadDecision' = Without(loadDecision, {r})
      /\ xferDecision' = Without(xferDecision, {r})
      /\ nextLoadId' = IF loads \/ pulls THEN id ELSE nextLoadId
      /\ traces' = IF loads \/ pulls THEN With(traces, r, [id |-> id, reports |-> {}])
                   ELSE traces
      /\ batch' = [batch EXCEPT
                     !.loads  = IF loads THEN @ \cup {load} ELSE @,
                     !.plans  = IF pulls THEN @ \cup {plan} ELSE @,
                     !.states = @ \cup Keep({[req |-> r, table |-> table,
                                              state |-> "prepare"]}, prepares)]
      /\ remotePrefill' = PrefillAfter(r, pulls)
      /\ transferring' = transferring \cup Keep({r}, prepares)
      /\ UNCHANGED <<kind, saving, finishedWaits, delayed, metadata>>

-----------------------------------------------------------------------------
\* build_connector_meta

\* _build_save_meta: the blocks of r that are complete after count of them are
\* computed and that no save has been issued for; D leaves the prompt to P.
SaveFrom(r) == IF kind[r] = "D" /\ tracked[r] < Prompt THEN Prompt ELSE tracked[r]
Saves(r, count) == r \in DOMAIN tracked /\ count > SaveFrom(r)

\* Nothing is published on blocks that are given back.
Filtered(S, preempted) == {x \in S : x.req \notin preempted}

\* after: r |-> blocks computed when the step is over, for scheduled requests;
\* table: r |-> its table.
BuildConnectorMeta(after, table, finished, preempted) ==
  LET saved   == {r \in DOMAIN after : Saves(r, after[r])}
      saves   == {[req |-> r, table |-> table[r], from |-> SaveFrom(r), to |-> after[r]] :
                    r \in saved}
      ended   == finished \cup preempted
  IN  /\ metadata' = [loads     |-> Filtered(batch.loads, preempted),
                      saves     |-> Filtered(batch.saves \cup saves, preempted),
                      plans     |-> Filtered(batch.plans, ended),
                      states    |-> Filtered(batch.states, preempted),
                      waits     |-> Without(finishedWaits, preempted),
                      preempted |-> preempted]
      /\ tracked' = [r \in DOMAIN tracked \ preempted |->
                       IF r \in saved THEN after[r] ELSE tracked[r]]
      /\ loadDecision' = Without(loadDecision, ended)
      /\ xferDecision' = Without(xferDecision, ended)
      /\ traces' = Without(traces, preempted)
      /\ saving' = (saving \cup saved) \ preempted
      /\ transferring' = transferring \ preempted
      /\ delayed' = delayed \ preempted
      /\ batch' = NoBatch /\ finishedWaits' = << >>
      /\ UNCHANGED <<kind, remotePrefill, nextLoadId>>

-----------------------------------------------------------------------------
\* request_finished; held: has the request any blocks?

\* Mutant: the blocks are not kept for saves that were issued.
SaveDelayNever(r, held) == FALSE
SaveDelay(r, held) == r \in saving /\ held

\* Returns whether vLLM must keep the blocks.
XferDelay(r, capped, held) == kind[r] = "P" /\ capped /\ held
Delays(r, capped, held) == SaveDelay(r, held) \/ XferDelay(r, capped, held)

\* Mutant: the trace of a load that is given up stays.
ForgetButTraces(S) == /\ tracked' = Without(tracked, S) /\ UNCHANGED traces
                      /\ saving' = saving \ S /\ transferring' = transferring \ S

Forget(S) == /\ tracked' = Without(tracked, S) /\ traces' = Without(traces, S)
             /\ saving' = saving \ S /\ transferring' = transferring \ S

RequestFinished(r, table, capped, held) ==
  LET source == [req |-> r, table |-> table,
                 state |-> IF XferDelay(r, capped, held) THEN "ready" ELSE "cancelled"]
  IN  /\ batch' = [batch EXCEPT !.states = @ \cup Keep({source}, kind[r] = "P")]
      /\ IF Delays(r, capped, held)
         THEN /\ finishedWaits' = With(finishedWaits, r, [save |-> SaveDelay(r, held),
                                                      xfer |-> XferDelay(r, capped, held)])
              /\ delayed' = delayed \cup {r}
              /\ UNCHANGED trackVars
         ELSE Forget({r}) /\ UNCHANGED <<finishedWaits, delayed>>
      /\ UNCHANGED <<kind, remotePrefill, decideVars, nextLoadId, metadata>>

-----------------------------------------------------------------------------
\* update_connector_output: load reports of this step, and the requests that
\* every worker has reported as sent.

\* Reports of another attempt than the one the trace is about are dropped.
Counted(reports, r) == {x.rank : x \in {y \in reports : y.req = r /\ y.id = traces[r].id}}
UpdateConnectorOutput(reports, sent) ==
  LET got(r) == traces[r].reports \cup Counted(reports, r)
      open   == {r \in DOMAIN traces \ sent : got(r) # Rank}
  IN  /\ traces' = [r \in open |-> [traces[r] EXCEPT !.reports = got(r)]]
      /\ tracked' = Without(tracked, sent)
      /\ saving' = saving \ sent /\ transferring' = transferring \ sent
      /\ delayed' = delayed \ sent
      /\ finishedWaits' = Without(finishedWaits, sent)
      /\ UNCHANGED <<kind, remotePrefill, decideVars, nextLoadId, batch, metadata>>

\* The engine keeps stepping while it is true.
HasPendingPushWork == delayed # {}

=============================================================================
