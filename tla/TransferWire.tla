---------------------------- MODULE TransferWire ----------------------------
(***************************************************************************)
(* The control messages of the direct transfer (protocol.py) and the ZMQ   *)
(* DEALER/ROUTER channel that carries them: D asks a P rank for the KV of  *)
(* a batch of requests in one message, and P answers that message with one *)
(* response per round of requests it has dealt with.  The KV itself moves  *)
(* outside the channel, by writes of the P rank into D's memory.           *)
(*                                                                         *)
(* A request is known by its transfer id on both sides; the P and D        *)
(* request ids and the block tables are left out.                          *)
(***************************************************************************)
EXTENDS TransferTopology, Sequences

CONSTANT Req        \* transfer ids

VARIABLES posted,   \* messages D has sent
          replies   \* message |-> responses D has not read yet, oldest first

wireVars == <<posted, replies>>

\* KVTransferRequest: D rank d asks P rank p for every request of a batch.
Batch == (SUBSET Req) \ {{}}
Msg   == [d : DRank, p : PRank, batch : Batch]

\* KVTransferResponse.  ERROR answers every request of the message at once.
Status == {"CONTINUE", "FINISH", "ERROR"}
Reply  == [status : Status, ok : SUBSET Req, err : SUBSET Req]

WireTypeOK == posted \subseteq Msg /\ replies \in [Msg -> Seq(Reply)]

WireInit == posted = {} /\ replies = [m \in Msg |-> <<>>]

\* socket.send_multipart on P: responses of one message stay in order.
Answer(m, status, ok, err) ==
  replies' = [replies EXCEPT ![m] =
                Append(@, [status |-> status, ok |-> ok, err |-> err])]

=============================================================================
