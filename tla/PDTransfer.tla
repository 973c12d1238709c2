----------------------------- MODULE PDTransfer -----------------------------
(***************************************************************************)
(* The direct transfer between a prefill and a decode engine: every P      *)
(* rank's KVSender, every D rank's KVReceiver, and the wire between them.  *)
(* The processes share nothing else; their steps interleave freely.        *)
(***************************************************************************)
EXTENDS KVSender, KVReceiver

CONSTANT LossyPeer  \* may D lose a P rank that is still at work (RCVTIMEO)?

ASSUME LossyAssumption == LossyPeer \in BOOLEAN

pdVars == <<wireVars, senderVars, receiverVars>>

PDTypeOK == WireTypeOK /\ SenderTypeOK /\ ReceiverTypeOK

\* D's receive of message m fails: its P task died without an answer, or the
\* answer is too late for RCVTIMEO.
PeerLost(m) == Lose(m) /\ (LossyPeer \/ task[m].stage = "dead")

PullStep(m) == Publish(m) \/ Receive(m) \/ PeerLost(m) \/ (BootstrapMayFail /\ ConnectFail(m))

ReceiverNext ==
  \/ \E d \in DRank : WorkerStep(d) \/ \E batch \in Batch : DiscoveryStep(d, batch)
  \/ \E m \in Msg : PullStep(m)

PDInit == WireInit /\ SenderInit /\ ReceiverInit
PDNext == \/ SenderNext /\ UNCHANGED receiverVars
          \/ ReceiverNext /\ UNCHANGED senderVars
PDSpec == PDInit /\ [][PDNext]_pdVars

-----------------------------------------------------------------------------
\* Properties.

\* What the TE writes in flight are copying.
Copying == UNION {{<<m.d, m.p, r>> : r \in task[m].ok} :
                    m \in {n \in Msg : task[n].stage = "writing"}}

(***************************************************************************)
(* D's blocks are written only while the receive is open: once a result is *)
(* polled, or preempt() has returned, no P rank writes there, late, failed *)
(* and lost answers included.                                              *)
(***************************************************************************)
NoWriteAfterTerminal == \A c \in Copying : target[c[1]][c[3]] = "open"

(***************************************************************************)
(* A receive that will be reported as successful was written by every P    *)
(* rank the D rank pulls from.                                             *)
(***************************************************************************)
OkMeansWritten ==
  \A d \in DRank : \A r \in finished[d] \ failed[d] :
    \A p \in SourcesOf(d) : <<d, p, r>> \in served

(***************************************************************************)
(* pull_tasks_count is the number of P ranks that still owe the request an *)
(* answer: zero is reached with the last answer and never before.          *)
(***************************************************************************)
Owing(d, r) == {m \in Msg : m.d = d /\ r \in pull[m].remaining}

CountExact == \A d \in DRank, r \in Req :
                count[d][r] = Cardinality(Owing(d, r))

(***************************************************************************)
(* The transfer implements the lending contract of TransferLease.          *)
(***************************************************************************)
SourceState(p, r) == IF lease[p][r] # NoGen THEN "open"
                     ELSE IF phase[p][r] = "over" THEN "closed" ELSE "unused"

Lending == INSTANCE TransferLease WITH
             src <- [p \in PRank |-> [r \in Req |-> SourceState(p, r)]],
             dst <- target,
             copies <- Copying

ImplementsLease == Lending!Spec

(***************************************************************************)
(* And D's side serves the worker as ReceiveService says: a receive has    *)
(* one result, and a request is received at most once.                     *)
(***************************************************************************)
ReceiveView(d, r) ==
  IF target[d][r] = "unused" THEN "ahead"
  ELSE IF target[d][r] = "closed" THEN "over"
  ELSE IF r \notin finished[d] THEN "busy"
  ELSE IF r \in failed[d] THEN "error" ELSE "ok"

Service == INSTANCE ReceiveService WITH
             Item <- DRank \X Req,
             receive <- [x \in DRank \X Req |-> ReceiveView(x[1], x[2])],
             fenced <- {x \in DRank \X Req : x[2] \in fenced[x[1]]}

KeepsContracts == ImplementsLease /\ Service!Spec

(***************************************************************************)
(* Fairness of the receiver: its loop runs, bootstrap queries, connects    *)
(* and answers come to an end, RCVTIMEO fires when P is dead, and the      *)
(* engine polls as long as a request waits for its KV.                     *)
(***************************************************************************)
ReceiverFairness ==
  /\ \A d \in DRank : WF_pdVars(PollRecv(d) /\ UNCHANGED senderVars)
                   /\ WF_pdVars(FenceReturn(d) /\ UNCHANGED senderVars)
  /\ \A d \in DRank, b \in Batch : WF_pdVars(DiscoveryStep(d, b) /\ UNCHANGED senderVars)
  /\ \A m \in Msg : WF_pdVars(PullStep(m) /\ UNCHANGED senderVars)

PDSenderFairness ==
  /\ \A p \in PRank : WF_pdVars(PollSend(p) /\ UNCHANGED receiverVars)
                   /\ WF_pdVars(CancelReturn(p) /\ UNCHANGED receiverVars)
  /\ \A p \in PRank, r \in Req : WF_pdVars(Lapse(p, r) /\ UNCHANGED receiverVars)
  /\ \A m \in Msg : WF_pdVars((Refuse(m) \/ Capture(m)) /\ UNCHANGED receiverVars)
                 /\ WF_pdVars((Round(m) \/ WaitTimeout(m)) /\ UNCHANGED receiverVars)
                 /\ WF_pdVars(WriteEnd(m) /\ UNCHANGED receiverVars)

PDFairSpec == PDSpec /\ ReceiverFairness /\ PDSenderFairness

\* Every receive D starts ends with a result or with the fatal error: a
\* query that fails, a lost answer and a peer that raises all end it.
ReceiveEnds == \A d \in DRank, r \in Req :
                 target[d][r] = "open" ~> target[d][r] = "closed" \/ fatal[d]

\* preempt() on D returns, or raises the fatal error.
FenceEnds == \A d \in DRank : fenced[d] # {} ~> fenced[d] = {} \/ fatal[d]

=============================================================================
