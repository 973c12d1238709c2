------------------------------ MODULE KVSender ------------------------------
(***************************************************************************)
(* The sending half of MooncakeKVTransfer (kv_transfer.py): one instance   *)
(* per P rank.  reqs_need_send maps a transfer id to a SendBlockMeta       *)
(* object.  The engine's worker thread registers, publishes, withdraws and *)
(* polls it; sender tasks on sender_loop answer the messages of the D      *)
(* ranks, and each captures the SendBlockMeta objects it found when it     *)
(* started.  An object may be removed, and a new one stored under the same *)
(* id, while a task still holds the old one, so the model gives the        *)
(* objects of one id generations and a task remembers the generation.      *)
(*                                                                         *)
(* Everything between two awaits of sender_loop is one action.  Time is    *)
(* abstract: a timer may fire whenever it is running.  Block tables,       *)
(* addresses and lengths are left out: planning a request's copy succeeds  *)
(* or fails, and the TE write of a round covers all its planned requests.  *)
(***************************************************************************)
EXTENDS TransferWire, FiniteSets

CONSTANTS NumSenderTasks, \* num_sender_tasks: messages a P rank works on at once
          MaxGen,         \* bound: SendBlockMeta objects made per transfer id
          BadLayout,      \* D ranks whose registered regions P cannot serve
          WriteMayRaise   \* may the TE write raise instead of returning?

ASSUME SenderAssumption ==
  /\ NumSenderTasks \in Nat \ {0}
  /\ MaxGen \in Nat \ {0}
  /\ BadLayout \subseteq DRank
  /\ WriteMayRaise \in BOOLEAN

VARIABLES
  slot,      \* p |-> r |-> generation of the object in reqs_need_send, 0 if none
  made,      \* p |-> r |-> how many objects were made for this id
  meta,      \* p |-> r |-> g |-> the SendBlockMeta object
  finishedSending, \* p |-> finished_sending_reqs
  task,      \* m |-> the sender task that works on message m
  phase,     \* p |-> r |-> what the worker thread has done with the request
  fencing,   \* p |-> the object a cancel() waits for, {} if the thread is free
  withdrawn, \* the requests the engine will take back instead of letting them end
  lease,     \* ghost: p |-> r |-> the object whose source blocks are pinned, or 0
  served     \* ghost: <<d, p, r>> whose write P has counted as sent

metaVars   == <<slot, made, meta, finishedSending>>
ownerVars  == <<phase, fencing, withdrawn, lease>>
senderVars == <<metaVars, task, ownerVars, served>>
vars       == <<wireVars, senderVars>>

Gen    == 1 .. MaxGen
NoGen  == 0
Copy   == DRank \X PRank \X Req

SendBlockMeta == [owned : BOOLEAN,  \* p_req_id is set
                  ready : BOOLEAN,  \* the ready event
                  lapsed : BOOLEAN, \* expire_time has passed
                  need : Nat, sent : Nat, sending : Nat]

Task == [stage : {"idle", "waiting", "writing", "done", "dead"},
         ref : [Req -> 0 .. MaxGen], \* the object captured for each request
         pending : SUBSET Req,       \* requests whose wait_and_ret still runs
         round : SUBSET Req,         \* ready_reqs: counted in sending
         ok : SUBSET Req,            \* of those, the ones being written
         gone : SUBSET Req]          \* expired_reqs of the round

NewMeta == [owned |-> FALSE, ready |-> FALSE, lapsed |-> FALSE,
            need |-> 0, sent |-> 0, sending |-> 0]

NewTask == [stage |-> "idle", ref |-> [r \in Req |-> NoGen],
            pending |-> {}, round |-> {}, ok |-> {}, gone |-> {}]

SenderTypeOK ==
  /\ slot \in [PRank -> [Req -> 0 .. MaxGen]]
  /\ made \in [PRank -> [Req -> 0 .. MaxGen]]
  /\ meta \in [PRank -> [Req -> [Gen -> SendBlockMeta]]]
  /\ finishedSending \in [PRank -> SUBSET Req]
  /\ task \in [Msg -> Task]
  /\ phase \in [PRank -> [Req -> {"new", "prepared", "sent", "over"}]]
  /\ fencing \in [PRank -> SUBSET (Req \X Gen)]
  /\ withdrawn \subseteq Req
  /\ lease \in [PRank -> [Req -> 0 .. MaxGen]]
  /\ served \subseteq Copy

SenderInit ==
  /\ slot = [p \in PRank |-> [r \in Req |-> NoGen]]
  /\ made = [p \in PRank |-> [r \in Req |-> 0]]
  /\ meta = [p \in PRank |-> [r \in Req |-> [g \in Gen |-> NewMeta]]]
  /\ finishedSending = [p \in PRank |-> {}]
  /\ task = [m \in Msg |-> NewTask]
  /\ phase = [p \in PRank |-> [r \in Req |-> "new"]]
  /\ fencing = [p \in PRank |-> {}]
  /\ withdrawn \in SUBSET Req
  /\ lease = [p \in PRank |-> [r \in Req |-> NoGen]]
  /\ served = {}

-----------------------------------------------------------------------------
(***************************************************************************)
(* reqs_need_send.setdefault(transfer_id, SendBlockMeta(...)): the object  *)
(* an id has, or a new one.                                                *)
(***************************************************************************)
Obtained(p, r) == IF slot[p][r] = NoGen THEN made[p][r] + 1 ELSE slot[p][r]

SetDefault(p, S) ==
  /\ \A r \in S : Obtained(p, r) \in Gen            \* bound MaxGen
  /\ slot' = [slot EXCEPT ![p] = [r \in Req |-> IF r \in S THEN Obtained(p, r) ELSE @[r]]]
  /\ made' = [made EXCEPT ![p] = [r \in Req |->
                IF r \in S /\ slot[p][r] = NoGen THEN @[r] + 1 ELSE @[r]]]

\* The worker thread is not blocked in cancel() or preempt().
Free(p) == fencing[p] = {}

-----------------------------------------------------------------------------
\* Operations of the worker thread.

\* prepare() -> _prepare_send: name the P request an id belongs to.
Prepare(p, r) ==
  /\ Free(p) /\ phase[p][r] = "new"
  /\ SetDefault(p, {r})
  /\ meta' = [meta EXCEPT ![p][r][Obtained(p, r)].owned = TRUE]
  /\ phase' = [phase EXCEPT ![p][r] = "prepared"]
  /\ UNCHANGED <<wireVars, finishedSending, task, fencing, withdrawn, lease, served>>

\* send() -> _publish_send: the source blocks are now readable, and stay
\* pinned until the engine is told that the send is over.
Send(p, r) ==
  /\ Free(p) /\ phase[p][r] = "prepared"
  /\ SetDefault(p, {r})
  /\ meta' = [meta EXCEPT ![p][r][Obtained(p, r)] =
                [@ EXCEPT !.owned = TRUE, !.ready = TRUE]]
  /\ phase' = [phase EXCEPT ![p][r] = "sent"]
  /\ lease' = [lease EXCEPT ![p][r] = Obtained(p, r)]
  /\ UNCHANGED <<wireVars, finishedSending, task, fencing, withdrawn, served>>

\* Mutant: cancel() and expiry do not wait for the writes in flight.
QuietAssumed(p, r, g) == TRUE

\* The loop of _cancel_send: nothing reads the object's blocks any more.
Quiet(p, r, g) == meta[p][r][g].sending = 0

\* _cancel_send has returned: the engine may reuse the blocks.
HandBack(p, r) ==
  /\ finishedSending' = [finishedSending EXCEPT ![p] = @ \ {r}]
  /\ phase' = [phase EXCEPT ![p][r] = "over"]
  /\ lease' = [lease EXCEPT ![p][r] = NoGen]

\* _cancel_send of an object up to its first sleep: pop it, wake its waiters.
CancelSend(p, r, g) ==
  /\ slot' = [slot EXCEPT ![p][r] = NoGen]
  /\ meta' = [meta EXCEPT ![p][r][g].ready = TRUE]
  /\ IF Quiet(p, r, g)
       THEN UNCHANGED fencing /\ HandBack(p, r)
       ELSE /\ fencing' = [fencing EXCEPT ![p] = {<<r, g>>}]
            /\ UNCHANGED <<finishedSending, phase, lease>>

\* cancel(): an aborted request, prepared or not, published or not.
Cancel(p, r) ==
  /\ Free(p) /\ r \in withdrawn /\ phase[p][r] # "over"
  /\ IF slot[p][r] # NoGen
       THEN CancelSend(p, r, slot[p][r])
       ELSE HandBack(p, r) /\ UNCHANGED <<slot, meta, fencing>>
  /\ UNCHANGED <<wireVars, made, task, withdrawn, served>>

\* The object preempt() finds for the request: only a published one.
Published(p, r) == /\ slot[p][r] # NoGen
                   /\ meta[p][r][slot[p][r]].owned /\ meta[p][r][slot[p][r]].ready

\* preempt() -> _preempt_send.  An unpublished object survives, which is no
\* step; for one already sent there is nothing to take back.
Preempt(p, r) ==
  /\ Free(p) /\ r \in withdrawn /\ phase[p][r] = "sent"
  /\ IF Published(p, r)
       THEN CancelSend(p, r, slot[p][r])
       ELSE /\ phase' = [phase EXCEPT ![p][r] = "over"]
            /\ lease' = [lease EXCEPT ![p][r] = NoGen]
            /\ UNCHANGED <<slot, meta, finishedSending, fencing>>
  /\ UNCHANGED <<wireVars, made, task, withdrawn, served>>

\* The rest of _cancel_send, once no write uses the object.
CancelReturn(p) ==
  \E o \in fencing[p] :
    /\ Quiet(p, o[1], o[2])
    /\ HandBack(p, o[1])
    /\ fencing' = [fencing EXCEPT ![p] = {}]
    /\ UNCHANGED <<wireVars, slot, made, meta, task, withdrawn, served>>

\* The requests fetch_finished_sending_reqs gives up on.
Expired(p) ==
  {r \in Req : /\ slot[p][r] # NoGen
               /\ meta[p][r][slot[p][r]].owned
               /\ meta[p][r][slot[p][r]].lapsed
               /\ Quiet(p, r, slot[p][r])}

\* poll() -> fetch_finished_sending_reqs: report, and unpin, what is over.
PollSend(p) ==
  LET reported == finishedSending[p] \cup Expired(p)
  IN  /\ Free(p) /\ reported # {}
      /\ finishedSending' = [finishedSending EXCEPT ![p] = {}]
      /\ slot' = [slot EXCEPT ![p] =
                    [r \in Req |-> IF r \in Expired(p) THEN NoGen ELSE @[r]]]
      /\ phase' = [phase EXCEPT ![p] =
                    [r \in Req |-> IF r \in reported THEN "over" ELSE @[r]]]
      /\ lease' = [lease EXCEPT ![p] =
                    [r \in Req |-> IF r \in reported THEN NoGen ELSE @[r]]]
      /\ UNCHANGED <<wireVars, made, meta, task, fencing, withdrawn, served>>

\* expire_time, set by send(), passes.
Lapse(p, r) ==
  /\ slot[p][r] # NoGen /\ lease[p][r] = slot[p][r]
  /\ ~meta[p][r][slot[p][r]].lapsed
  /\ meta' = [meta EXCEPT ![p][r][slot[p][r]].lapsed = TRUE]
  /\ UNCHANGED <<wireVars, slot, made, finishedSending, task, ownerVars, served>>

-----------------------------------------------------------------------------
\* The sender tasks: _sender_worker -> send_kv_to_decode.

\* The object a task captured for request r.
Ref(m, r)      == task[m].ref[r]
Captured(m, r) == meta[m.p][r][Ref(m, r)]
Busy(p)        == {m \in Msg : m.p = p /\ task[m].stage \in {"waiting", "writing"}}
Finish(m)      == [task EXCEPT ![m] = [NewTask EXCEPT !.stage = "done"]]

\* A sender task takes the message off sender_worker_queue.
Dequeue(m) ==
  m \in posted /\ task[m].stage = "idle" /\ Cardinality(Busy(m.p)) < NumSenderTasks

\* The checks before the request is looked at: TP pairing, KV layout.
Valid(m) == /\ RatioOk(PTp, DTp)
            /\ m.d \in ServedBy(m.p) /\ m.d \notin BadLayout

Refuse(m) ==
  /\ Dequeue(m) /\ ~Valid(m)
  /\ Answer(m, "ERROR", {}, {})
  /\ task' = Finish(m)
  /\ UNCHANGED <<posted, metaVars, ownerVars, served>>

\* Capture the object of every request, making the missing ones, and wait.
Capture(m) ==
  /\ Dequeue(m) /\ Valid(m)
  /\ SetDefault(m.p, m.batch)
  /\ task' = [task EXCEPT ![m] =
       [NewTask EXCEPT !.stage = "waiting", !.pending = m.batch,
                       !.ref = [r \in Req |-> IF r \in m.batch
                                  THEN Obtained(m.p, r) ELSE NoGen]]]
  /\ UNCHANGED <<wireVars, meta, finishedSending, ownerVars, served>>

\* Mutant: asyncio.wait without a timeout.
WaitForever(m) == FALSE

\* asyncio.wait timed out: everything still awaited fails.  The timer may win
\* against a ready event whose waiter has not run yet.
WaitTimeout(m) ==
  /\ task[m].stage = "waiting"
  /\ Answer(m, "FINISH", {}, task[m].pending)
  /\ task' = Finish(m)
  /\ UNCHANGED <<posted, metaVars, ownerVars, served>>

\* Mutant: every round closes the message.
RoundFinishes(pending) == "FINISH"

\* response_status, computed when the round starts.
RoundStatus(pending) == IF pending = {} THEN "FINISH" ELSE "CONTINUE"

\* After a round: back to asyncio.wait, or the end of the message.
NextRound(m, pending) ==
  IF pending = {} THEN Finish(m)
  ELSE [task EXCEPT ![m] = [@ EXCEPT !.stage = "waiting", !.pending = pending,
                              !.round = {}, !.ok = {}, !.gone = {}]]

\* Mutant: a woken waiter does not check that its object is still there.
CurrentAssumed(m, r) == TRUE

\* The captured object is still the one stored under its id.
Current(m, r) == slot[m.p][r] = task[m].ref[r]

\* Mutant: one answer is expected however many D ranks are paired with p.
ResolveOne(o, p) == IF o.need = 0 THEN 1 ELSE o.need

\* need_send of an object taken into a round: resolve_need_send, once.
Resolve(o, p) == IF o.need = 0 THEN Cardinality(ServedBy(p)) ELSE o.need

\* Mutant: the round does not count itself in sending.
TakeUncounted(o, p) == [o EXCEPT !.need = Resolve(o, p)]

\* An object is taken into a round that writes.
Take(o, p) == [o EXCEPT !.need = Resolve(o, p), !.sending = @ + 1]

\* Change the objects that task m captured for the requests of S.
OnRefs(m, S, Op(_)) ==
  meta' = [meta EXCEPT ![m.p] = [r \in Req |->
            IF r \in S
              THEN [meta[m.p][r] EXCEPT ![Ref(m, r)] = Op(Captured(m, r))]
              ELSE meta[m.p][r]]]

\* asyncio.wait returned the waiters of done; of the requests still current
\* those in bad cannot be planned.  Either the TE write of the others starts,
\* or nothing is left to write and the round is answered at once.
StartRound(m, done, bad) ==
  LET live == {r \in done : Current(m, r)}
      gone == done \ live
      rest == task[m].pending \ done
  IN  /\ task[m].stage = "waiting"
      /\ bad \subseteq live
      /\ IF bad = live
           THEN /\ OnRefs(m, live, LAMBDA o : [o EXCEPT !.need = Resolve(o, m.p)])
                /\ Answer(m, RoundStatus(rest), {}, done)
                /\ task' = NextRound(m, rest)
           ELSE /\ OnRefs(m, live, LAMBDA o : Take(o, m.p))
                /\ task' = [task EXCEPT ![m] =
                     [@ EXCEPT !.stage = "writing", !.pending = rest,
                               !.round = live, !.ok = live \ bad, !.gone = gone]]
                /\ UNCHANGED replies
      /\ UNCHANGED <<posted, slot, made, finishedSending, ownerVars, served>>

Woken(m) == {r \in task[m].pending : Captured(m, r).ready}

Round(m) == \E done \in (SUBSET Woken(m)) \ {{}} : \E bad \in SUBSET done :
              StartRound(m, done, bad)

\* Mutant: the first write completes the object.
CompleteAtOnce(o) == o.sent = 0

\* With one more write counted, every paired D rank has the object.
Complete(o) == o.sent + 1 = o.need

\* A round lets go of an object, after a write that counts or not.
Drop(o, counts) == [o EXCEPT !.sending = @ - 1,
                             !.sent = IF counts THEN @ + 1 ELSE @]

\* The TE write returned: count it if it succeeded, report what is complete,
\* let go of the objects and answer.  Popping goes by transfer id.
WriteDone(m, good) ==
  LET ended == {r \in good : Complete(Captured(m, r)) /\ slot[m.p][r] # NoGen}
  IN  /\ task[m].stage = "writing"
      /\ slot' = [slot EXCEPT ![m.p] =
                    [r \in Req |-> IF r \in ended THEN NoGen ELSE slot[m.p][r]]]
      /\ finishedSending' = [finishedSending EXCEPT ![m.p] = @ \cup ended]
      /\ meta' = [meta EXCEPT ![m.p] = [r \in Req |->
           IF r \in task[m].round
             THEN [meta[m.p][r] EXCEPT ![Ref(m, r)] = Drop(Captured(m, r), r \in good)]
             ELSE meta[m.p][r]]]
      /\ served' = served \cup {<<m.d, m.p, r>> : r \in good}
      /\ Answer(m, RoundStatus(task[m].pending), good,
                   (task[m].round \ good) \cup task[m].gone)
      /\ task' = NextRound(m, task[m].pending)
      /\ UNCHANGED <<posted, made, ownerVars>>

\* Mutant: no finally clause lets go of the objects.
WriteRaiseLeak(m) ==
  /\ WriteMayRaise /\ task[m].stage = "writing"
  /\ task' = [task EXCEPT ![m] = [NewTask EXCEPT !.stage = "dead"]]
  /\ UNCHANGED <<wireVars, metaVars, ownerVars, served>>

\* The TE write raised: the finally clauses run, _sender_worker swallows the
\* exception, and the message gets no further answer.
WriteRaise(m) ==
  /\ WriteMayRaise /\ task[m].stage = "writing"
  /\ OnRefs(m, task[m].round, LAMBDA o : Drop(o, FALSE))
  /\ task' = [task EXCEPT ![m] = [NewTask EXCEPT !.stage = "dead"]]
  /\ UNCHANGED <<wireVars, slot, made, finishedSending, ownerVars, served>>

WriteEnd(m) == WriteDone(m, task[m].ok) \/ WriteDone(m, {}) \/ WriteRaise(m)

-----------------------------------------------------------------------------
OwnerStep(p) ==
  \/ \E r \in Req : Prepare(p, r) \/ Send(p, r) \/ Cancel(p, r) \/ Preempt(p, r)
  \/ CancelReturn(p) \/ PollSend(p)

TaskStep(m) == Refuse(m) \/ Capture(m) \/ Round(m) \/ WaitTimeout(m) \/ WriteEnd(m)

SenderNext ==
  \/ \E p \in PRank : OwnerStep(p) \/ \E r \in Req : Lapse(p, r)
  \/ \E m \in Msg : TaskStep(m)

(***************************************************************************)
(* The sender alone, with D ranks that ask for any requests in any batches *)
(* at any time, but never twice for the same one: each attempt of a        *)
(* request has a transfer id of its own, which D sends once to each P rank.*)
(***************************************************************************)
Overlap(m, n) == m.d = n.d /\ m.p = n.p /\ m.batch \cap n.batch # {}

Ask(m) ==
  /\ \A n \in posted : ~Overlap(m, n)
  /\ posted' = posted \cup {m}
  /\ UNCHANGED <<replies, senderVars>>

Init == WireInit /\ SenderInit
Next == SenderNext \/ \E m \in Msg : Ask(m)
Spec == Init /\ [][Next]_vars

-----------------------------------------------------------------------------
\* Properties.

\* The requests whose blocks the TE write of m is reading.
Reads(m) == IF task[m].stage = "writing" THEN task[m].ok ELSE {}

(***************************************************************************)
(* A write only ever reads source blocks that are still pinned for the     *)
(* very object it captured: cancel() and preempt() do not return, and      *)
(* poll() does not report, while a write of the object is in flight, and   *)
(* no write starts on an object that was taken back or expired.            *)
(***************************************************************************)
NoReadAfterRelease ==
  \A m \in Msg : \A r \in Reads(m) : lease[m.p][r] = Ref(m, r)

(***************************************************************************)
(* sending counts the rounds that hold the object, on every way out of     *)
(* send_kv_to_decode: done, failed, raised, partly planned.                *)
(***************************************************************************)
Holders(p, r, g) ==
  {m \in Msg : m.p = p /\ r \in task[m].round /\ task[m].ref[r] = g}

SendingBalanced ==
  \A p \in PRank, r \in Req, g \in Gen :
    meta[p][r][g].sending = Cardinality(Holders(p, r, g))

(***************************************************************************)
(* The last write pops reqs_need_send by transfer id.  It never removes    *)
(* another object stored under that id since: a late D rank's placeholder  *)
(* can only replace an object that was taken back before all its D ranks   *)
(* had asked, and then no write completes it.                              *)
(***************************************************************************)
PopIsOwn ==
  \A m \in Msg : \A r \in Reads(m) :
    Complete(Captured(m, r)) => slot[m.p][r] \in {NoGen, Ref(m, r)}

(***************************************************************************)
(* finished_sending_reqs frees the source blocks on P: it holds a request  *)
(* only when every D rank paired with this P rank has been written.        *)
(***************************************************************************)
FinishedMeansServed ==
  \A p \in PRank : \A r \in finishedSending[p] :
    \A d \in ServedBy(p) : <<d, p, r>> \in served

(***************************************************************************)
(* Over the rounds of a message every request is answered at most once,    *)
(* and all of them when it ends with FINISH; an ERROR is the only answer.  *)
(* The receiver counts answers, so one too many or too few would finish    *)
(* the receive early or never.                                             *)
(***************************************************************************)
Said(a) == a.ok \cup a.err

AnsweredOnce ==
  \A m \in Msg : LET q == replies[m] IN
    /\ \A i, j \in 1 .. Len(q) :
         i < j => /\ Said(q[i]) \cap Said(q[j]) = {}
                  /\ q[i].status = "CONTINUE"
    /\ \A i \in 1 .. Len(q) :
         q[i].status = "FINISH" => UNION {Said(q[j]) : j \in 1 .. i} = m.batch

(***************************************************************************)
(* S05, "preempt() clears uncollected results before the blocks may be     *)
(* reused": a result still to be polled belongs to a request whose blocks  *)
(* have not been handed back.                                              *)
(***************************************************************************)
ResultsCleared ==
  \A p \in PRank : \A r \in finishedSending[p] : phase[p][r] # "over"

(***************************************************************************)
(* S05, "failed requests are reclaimed by timeout when no send is in       *)
(* flight": what an ended request leaves in reqs_need_send goes away.      *)
(***************************************************************************)
EntryReclaimed ==
  \A p \in PRank, r \in Req :
    phase[p][r] = "over" /\ slot[p][r] # NoGen ~> slot[p][r] = NoGen

(***************************************************************************)
(* Fairness: both loops run, TE writes end, timers fire, and the engine    *)
(* keeps polling while it holds blocks for a send (has_pending_push_work). *)
(* Nothing obliges P to prepare, send or withdraw a request.               *)
(***************************************************************************)
SenderFairness ==
  /\ \A p \in PRank : WF_vars(PollSend(p)) /\ WF_vars(CancelReturn(p))
  /\ \A p \in PRank, r \in Req : WF_vars(Lapse(p, r))
  /\ \A m \in Msg : WF_vars(Refuse(m) \/ Capture(m))
                  /\ WF_vars(Round(m) \/ WaitTimeout(m)) /\ WF_vars(WriteEnd(m))

FairSpec == Spec /\ SenderFairness

\* Published blocks are released in the end, whatever D ranks do or do not
\* ask for and whichever writes fail or raise.
SourceReleased == \A p \in PRank, r \in Req :
                    lease[p][r] # NoGen ~> lease[p][r] = NoGen

\* Every message is worked on to its end, with more messages than sender
\* tasks and P requests that are never published.
MessageEnds == \A m \in Msg : m \in posted ~> task[m].stage \in {"done", "dead"}

-----------------------------------------------------------------------------
(***************************************************************************)
(* Why the safety properties hold: an inductive invariant.                 *)
(***************************************************************************)

\* A D rank's question is asked once, so at most one message carries it.
AskedOnce == \A m, n \in posted : Overlap(m, n) => m = n

\* Shape of a sender task at each stage of its message.
TaskShape ==
  \A m \in Msg :
    /\ task[m].stage # "idle" => m \in posted
    /\ task[m].stage \in {"waiting", "writing"} => Valid(m)
    /\ task[m].pending \cup task[m].round \subseteq m.batch
    /\ task[m].pending \cap task[m].round = {}
    /\ task[m].ok \subseteq task[m].round
    /\ task[m].stage # "writing" => task[m].round = {}
    /\ task[m].stage \in {"idle", "done", "dead"} => task[m].pending = {}
    /\ \A r \in task[m].pending \cup task[m].round :
         task[m].ref[r] \in 1 .. made[m.p][r]

\* Objects are numbered as they are made; the numbers to come are untouched.
Numbering ==
  \A p \in PRank, r \in Req :
    /\ slot[p][r] <= made[p][r] /\ lease[p][r] <= made[p][r]
    /\ \A g \in Gen : g > made[p][r] =>
         ~meta[p][r][g].ready /\ meta[p][r][g].sent = 0

\* A round holds the pinned object, with need_send resolved.
RoundsPinned ==
  \A m \in Msg : \A r \in task[m].round :
    /\ lease[m.p][r] = task[m].ref[r]
    /\ Captured(m, r).need = Cardinality(ServedBy(m.p))

NeedResolved ==
  \A p \in PRank, r \in Req, g \in Gen :
    meta[p][r][g].need \in {0, Cardinality(ServedBy(p))}

\* An object that D ranks can find ready is pinned.
ReadyPinned ==
  \A p \in PRank, r \in Req :
    slot[p][r] # NoGen /\ meta[p][r][slot[p][r]].ready => lease[p][r] = slot[p][r]

\* No round is under way for the request.
Undisturbed(p, r) == \A m \in Msg : m.p = p => r \notin task[m].round

\* Blocks are pinned from send() on; once their object has left
\* reqs_need_send, either the worker thread waits for it or nobody reads it.
PinnedSent ==
  \A p \in PRank, r \in Req : lease[p][r] # NoGen =>
    /\ phase[p][r] = "sent"
    /\ meta[p][r][lease[p][r]].owned /\ meta[p][r][lease[p][r]].ready
    /\ slot[p][r] # lease[p][r] =>
         <<r, lease[p][r]>> \in fencing[p] \/ Undisturbed(p, r)

\* The worker thread waits for one pinned object that was removed.
FenceShape ==
  \A p \in PRank : \A o \in fencing[p] :
    /\ fencing[p] = {o}
    /\ lease[p][o[1]] = o[2] /\ slot[p][o[1]] # o[2]

\* What was written was asked, and that question is settled.
ServedAsked ==
  \A d \in DRank, p \in PRank, r \in Req : <<d, p, r>> \in served =>
    /\ d \in ServedBy(p)
    /\ \E m \in posted : /\ m.d = d /\ m.p = p /\ r \in m.batch
                         /\ task[m].stage # "idle"
                         /\ r \notin task[m].pending \cup task[m].round

ServedRanks(p, r) == {d \in ServedBy(p) : <<d, p, r>> \in served}

\* sent never runs ahead of the D ranks that were written.
SentBounded ==
  \A p \in PRank, r \in Req, g \in Gen :
    meta[p][r][g].sent <= Cardinality(ServedRanks(p, r))

\* A finished request is no longer found, published or read.
FinishedQuiet ==
  \A p \in PRank : \A r \in finishedSending[p] :
    /\ phase[p][r] \in {"sent", "over"}
    /\ Undisturbed(p, r)
    /\ slot[p][r] # NoGen => ~meta[p][r][slot[p][r]].ready

\* Another object under a pinned request's id was made for a D rank that was
\* not served, and never will be.
Strangers ==
  \A p \in PRank, r \in Req :
    lease[p][r] # NoGen /\ slot[p][r] \notin {NoGen, lease[p][r]} =>
      \E n \in posted : /\ n.p = p /\ r \in n.batch /\ n.d \in ServedBy(p)
                       /\ task[n].stage # "idle" /\ r \notin task[n].round
                       /\ <<n.d, p, r>> \notin served

IInv == /\ WireTypeOK /\ SenderTypeOK /\ IsFiniteSet(posted)
        /\ AskedOnce /\ TaskShape /\ Numbering /\ SendingBalanced
        /\ RoundsPinned /\ NeedResolved /\ ReadyPinned /\ PinnedSent
        /\ FenceShape /\ ServedAsked /\ SentBounded /\ FinishedQuiet
        /\ Strangers /\ FinishedMeansServed

=============================================================================
