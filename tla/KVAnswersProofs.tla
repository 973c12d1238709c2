-------------------------- MODULE KVAnswersProofs ---------------------------
(***************************************************************************)
(* What a sender task tells the D rank, answer by answer, for every size   *)
(* of the engines and any set of requests: over the rounds of a message a  *)
(* request is answered once, and a success only after its write.  The      *)
(* facts are about one message, its task and the answers on the wire, so   *)
(* that they serve the sender alone, where answers pile up, and PDTransfer,*)
(* where D reads them.                                                     *)
(***************************************************************************)
EXTENDS KVSenderProofs, SequenceTheorems

-----------------------------------------------------------------------------
(* A message in a state t of its task. *)

\* The requests that the task has not answered yet.
Unsaid(m, t) == IF t.stage = "idle" THEN m.batch ELSE t.pending \cup t.round \cup t.gone

\* The requests of a round that have expired are beside those that are written.
GoneShape(m, t) ==
  /\ t.gone \subseteq m.batch
  /\ t.gone \cap (t.pending \cup t.round) = {}
  /\ t.stage # "writing" => t.gone = {}

(***************************************************************************)
(* q, the answers D has not read, when left are the requests it still      *)
(* waits for and S the copies that were made.  Each answer is about other  *)
(* requests than those before it and than those still to be answered.  The *)
(* last one closes the message.                                            *)
(***************************************************************************)
Fit(m, left, q, t, S) ==
  /\ Unsaid(m, t) \subseteq left
  /\ t.stage = "idle" => q = <<>>
  /\ \A i \in 1 .. Len(q) :
       /\ Said(q[i]) \subseteq left \ Unsaid(m, t)
       /\ \A r \in q[i].ok : <<m.d, m.p, r>> \in S
       /\ q[i].status # "CONTINUE" => t.stage = "done" /\ i = Len(q)
  /\ \A i, j \in 1 .. Len(q) : i < j => Said(q[i]) \cap Said(q[j]) = {}

\* All that is not unsaid was said, unless the task has died or refused.
Full(m, q, t) ==
  \/ t.stage = "dead"
  \/ \E i \in 1 .. Len(q) : q[i].status = "ERROR"
  \/ \A r \in m.batch \ Unsaid(m, t) : \E i \in 1 .. Len(q) : r \in Said(q[i])

GoneInv == \A m \in Msg : GoneShape(m, task[m])

\* In the sender alone no answer is ever read.
AnswerInv == \A m \in Msg : /\ Fit(m, m.batch, replies[m], task[m], served)
                            /\ Full(m, replies[m], task[m])

-----------------------------------------------------------------------------
(* Three things happen to the answers of a message. *)

\* The task goes on, or dies, without a word.
LEMMA SilentFits ==
  ASSUME NEW m, NEW left, NEW q, NEW t, NEW u, NEW S, NEW T,
         Fit(m, left, q, t, S), S \subseteq T,
         t.stage # "done", u.stage # "idle", Unsaid(m, u) \subseteq Unsaid(m, t)
  PROVE  Fit(m, left, q, u, T)
BY DEF Fit

\* All that is to be said stays said, or the task has died.
LEMMA SilentFull ==
  ASSUME NEW m, NEW q, NEW t, NEW u, Full(m, q, t), t.stage # "dead",
         u.stage = "dead" \/ Unsaid(m, u) = Unsaid(m, t)
  PROVE  Full(m, q, u)
BY DEF Full

\* One more answer, a.
LEMMA AppendIs ==
  ASSUME NEW q \in Seq(Reply), NEW a \in Reply
  PROVE  /\ Append(q, a) \in Seq(Reply) /\ Len(q) \in Nat
         /\ Len(Append(q, a)) = Len(q) + 1
         /\ Append(q, a)[Len(q) + 1] = a
         /\ \A i \in 1 .. Len(q) : Append(q, a)[i] = q[i]
BY AppendProperties, LenProperties

\* The new answer is about requests unsaid before it, and no longer unsaid.
LEMMA SayingFits ==
  ASSUME NEW m, NEW left, NEW q \in Seq(Reply), NEW a \in Reply,
         NEW t, NEW u, NEW S, NEW T,
         Fit(m, left, q, t, S), S \subseteq T, t.stage # "done", u.stage # "idle",
         Said(a) \subseteq Unsaid(m, t), Unsaid(m, u) \subseteq Unsaid(m, t) \ Said(a),
         a.status # "CONTINUE" => u.stage = "done",
         \A r \in a.ok : <<m.d, m.p, r>> \in T
  PROVE  Fit(m, left, Append(q, a), u, T)
<1> DEFINE n == Len(q)
           Q == Append(q, a)
<1>1. /\ n \in Nat /\ Len(Q) = n + 1 /\ Q[n + 1] = a
      /\ \A i \in 1 .. n : Q[i] = q[i]
  BY AppendIs
<1>2. /\ Unsaid(m, t) \subseteq left
      /\ \A i \in 1 .. n : /\ Said(q[i]) \subseteq left \ Unsaid(m, t)
                           /\ \A r \in q[i].ok : <<m.d, m.p, r>> \in S
                           /\ q[i].status = "CONTINUE"
      /\ \A i, j \in 1 .. n : i < j => Said(q[i]) \cap Said(q[j]) = {}
  BY DEF Fit
<1> HIDE DEF n, Q
<1>3. \A i \in 1 .. n + 1 : i \in 1 .. n \/ i = n + 1
  BY <1>1
<1>4. ASSUME NEW i \in 1 .. n + 1
      PROVE  /\ Said(Q[i]) \subseteq left \ Unsaid(m, u)
             /\ \A r \in Q[i].ok : <<m.d, m.p, r>> \in T
             /\ Q[i].status # "CONTINUE" => u.stage = "done" /\ i = Len(Q)
  <2>1. CASE i \in 1 .. n
    BY <1>1, <1>2, <2>1
  <2>2. CASE i = n + 1
    BY <1>1, <1>2, <2>2
  <2> QED BY <1>3, <2>1, <2>2
<1>5. ASSUME NEW i \in 1 .. n + 1, NEW j \in 1 .. n + 1, i < j
      PROVE  Said(Q[i]) \cap Said(Q[j]) = {}
  <2>1. i \in 1 .. n
    BY <1>1, <1>5
  <2>2. CASE j \in 1 .. n
    BY <1>1, <1>2, <1>5, <2>1, <2>2
  <2>3. CASE j = n + 1
    BY <1>1, <1>2, <2>1, <2>3
  <2> QED BY <1>3, <2>2, <2>3
<1>6. Unsaid(m, u) \subseteq left
  BY <1>2
<1>7. Fit(m, left, Q, u, T)
  BY <1>1, <1>4, <1>5, <1>6 DEF Fit
<1> QED BY <1>7 DEF Q

\* ... and it says all that ceases to be unsaid.
LEMMA SayingFull ==
  ASSUME NEW m, NEW q \in Seq(Reply), NEW a \in Reply, NEW t, NEW u,
         Full(m, q, t), t.stage # "dead",
         a.status = "ERROR" \/ Unsaid(m, u) = Unsaid(m, t) \ Said(a)
  PROVE  Full(m, Append(q, a), u)
<1> DEFINE n == Len(q)
           Q == Append(q, a)
<1>1. /\ n \in Nat /\ Len(Q) = n + 1 /\ Q[n + 1] = a
      /\ \A i \in 1 .. n : Q[i] = q[i]
  BY AppendIs
<1> SUFFICES Full(m, Q, u)
  OBVIOUS
<1>2. \/ \E i \in 1 .. n : q[i].status = "ERROR"
      \/ \A r \in m.batch \ Unsaid(m, t) : \E i \in 1 .. n : r \in Said(q[i])
  BY DEF Full
<1> HIDE DEF n, Q
<1>3. n + 1 \in 1 .. n + 1 /\ \A i \in 1 .. n : i \in 1 .. n + 1
  BY <1>1
<1>4. CASE a.status = "ERROR"
  BY <1>1, <1>3, <1>4 DEF Full
<1>5. CASE \E i \in 1 .. n : q[i].status = "ERROR"
  BY <1>1, <1>3, <1>5 DEF Full
<1>6. CASE /\ \A r \in m.batch \ Unsaid(m, t) : \E i \in 1 .. n : r \in Said(q[i])
           /\ Unsaid(m, u) = Unsaid(m, t) \ Said(a)
  <2>1. ASSUME NEW r \in m.batch \ Unsaid(m, u)
        PROVE  \E i \in 1 .. n + 1 : r \in Said(Q[i])
    <3>1. CASE r \in Said(a)
      BY <1>1, <1>3, <3>1
    <3>2. CASE r \notin Said(a)
      BY <1>1, <1>3, <1>6, <3>2
    <3> QED BY <3>1, <3>2
  <2> QED BY <1>1, <2>1 DEF Full
<1> QED BY <1>2, <1>4, <1>5, <1>6

\* D reads the first of the answers, one that leaves the message open.
LEMMA ReadingFits ==
  ASSUME NEW m, NEW left, NEW q \in Seq(Reply), NEW t, NEW S,
         Fit(m, left, q, t, S), q # <<>>
  PROVE  /\ Tail(q) \in Seq(Reply) /\ Head(q) \in Reply
         /\ Said(Head(q)) \subseteq left
         /\ \A r \in Head(q).ok : <<m.d, m.p, r>> \in S
         /\ Head(q).status # "CONTINUE" => t.stage = "done" /\ Tail(q) = <<>>
         /\ Fit(m, left \ Said(Head(q)), Tail(q), t, S)
<1> DEFINE n == Len(q)
           Q == Tail(q)
<1>1. /\ n \in Nat /\ n > 0 /\ Head(q) = q[1] /\ Head(q) \in Reply
      /\ Q \in Seq(Reply) /\ Len(Q) = n - 1
      /\ \A i \in 1 .. n - 1 : Q[i] = q[i + 1]
  BY HeadTailProperties, EmptySeq, LenProperties
<1>2. n = 1 => Q = <<>>
  <2> HIDE DEF n, Q
  <2>1. n = 1 => Len(Q) = 0
    BY <1>1
  <2> QED BY <1>1, <2>1, EmptySeq
<1> HIDE DEF n, Q
<1>3. 1 \in 1 .. n /\ \A i \in 1 .. n - 1 : i + 1 \in 1 .. n
  BY <1>1
<1>4. /\ Unsaid(m, t) \subseteq left
      /\ \A i \in 1 .. n : /\ Said(q[i]) \subseteq left \ Unsaid(m, t)
                           /\ \A r \in q[i].ok : <<m.d, m.p, r>> \in S
                           /\ q[i].status # "CONTINUE" => t.stage = "done" /\ i = n
      /\ \A i, j \in 1 .. n : i < j => Said(q[i]) \cap Said(q[j]) = {}
  BY DEF Fit, n
<1>5. t.stage # "idle"
  BY DEF Fit
<1>6. \A i \in 1 .. n - 1 : Said(Q[i]) \cap Said(q[1]) = {}
  <2> SUFFICES ASSUME NEW i \in 1 .. n - 1
               PROVE  Said(Q[i]) \cap Said(q[1]) = {}
    OBVIOUS
  <2>1. 1 \in 1 .. n /\ i + 1 \in 1 .. n /\ 1 < i + 1
    BY <1>3
  <2>2. Said(q[1]) \cap Said(q[i + 1]) = {}
    BY <1>4, <2>1
  <2> QED BY <1>1, <2>2
<1>7. \A i, j \in 1 .. n - 1 : i < j => Said(Q[i]) \cap Said(Q[j]) = {}
  <2> SUFFICES ASSUME NEW i \in 1 .. n - 1, NEW j \in 1 .. n - 1, i < j
               PROVE  Said(Q[i]) \cap Said(Q[j]) = {}
    OBVIOUS
  <2>1. i + 1 \in 1 .. n /\ j + 1 \in 1 .. n /\ i + 1 < j + 1
    BY <1>3
  <2>2. Q[i] = q[i + 1] /\ Q[j] = q[j + 1]
    BY <1>1
  <2> QED BY <1>4, <2>1, <2>2
<1>8. \A i \in 1 .. n - 1 :
        /\ Said(Q[i]) \subseteq (left \ Said(q[1])) \ Unsaid(m, t)
        /\ \A r \in Q[i].ok : <<m.d, m.p, r>> \in S
        /\ Q[i].status # "CONTINUE" => t.stage = "done" /\ i = n - 1
  <2> SUFFICES ASSUME NEW i \in 1 .. n - 1
               PROVE  /\ Said(Q[i]) \subseteq (left \ Said(q[1])) \ Unsaid(m, t)
                      /\ \A r \in Q[i].ok : <<m.d, m.p, r>> \in S
                      /\ Q[i].status # "CONTINUE" => t.stage = "done" /\ i = n - 1
    OBVIOUS
  <2>1. i + 1 \in 1 .. n /\ Q[i] = q[i + 1] /\ Said(Q[i]) \cap Said(q[1]) = {}
    BY <1>1, <1>3, <1>6
  <2>2. Said(Q[i]) \subseteq left \ Unsaid(m, t) /\ (\A r \in Q[i].ok : <<m.d, m.p, r>> \in S)
    BY <1>4, <2>1
  <2>3. Q[i].status # "CONTINUE" => t.stage = "done" /\ i + 1 = n
    BY <1>4, <2>1
  <2> QED BY <1>1, <2>1, <2>2, <2>3
<1>9. Fit(m, left \ Said(q[1]), Q, t, S)
  BY <1>1, <1>3, <1>4, <1>5, <1>7, <1>8 DEF Fit
<1>10. Said(q[1]) \subseteq left /\ (\A r \in q[1].ok : <<m.d, m.p, r>> \in S)
  BY <1>3, <1>4
<1>11. q[1].status # "CONTINUE" => t.stage = "done" /\ Q = <<>>
  BY <1>2, <1>3, <1>4
<1> QED BY <1>1, <1>9, <1>10, <1>11 DEF Q


-----------------------------------------------------------------------------
(***************************************************************************)
(* A step of a sender task, seen by D: it says nothing, or it gives one    *)
(* answer, about requests of the message that it has not answered yet.     *)
(***************************************************************************)
Mute(m) ==
  /\ UNCHANGED replies
  /\ Unsaid(m, task'[m]) \subseteq Unsaid(m, task[m])
  /\ task'[m].stage = "dead" \/ Unsaid(m, task'[m]) = Unsaid(m, task[m])

Utters(m, a) ==
  /\ replies' = [replies EXCEPT ![m] = Append(@, a)]
  /\ Said(a) \subseteq Unsaid(m, task[m])
  /\ a.status = "ERROR" \/ Unsaid(m, task'[m]) = Unsaid(m, task[m]) \ Said(a)
  /\ Unsaid(m, task'[m]) \subseteq Unsaid(m, task[m]) \ Said(a)
  /\ a.status # "CONTINUE" => task'[m].stage = "done"
  /\ \A r \in a.ok : <<m.d, m.p, r>> \in served'

Speaks(m) ==
  /\ m \in posted /\ UNCHANGED posted
  /\ served \subseteq served'
  /\ task[m].stage \notin {"done", "dead"} /\ task'[m].stage # "idle"
  /\ GoneShape(m, task'[m])
  /\ \A n \in Msg \ {m} : task'[n] = task[n]
  /\ Mute(m) \/ \E a \in Reply : Utters(m, a)

\* A message that does not fit the layout gets ERROR and nothing else.
LEMMA RefuseSpeaks ==
  ASSUME IInv, NEW m \in Msg, Refuse(m)
  PROVE  Speaks(m)
<1> DEFINE a == [status |-> "ERROR", ok |-> {}, err |-> {}]
<1>1. /\ m \in posted /\ UNCHANGED <<posted, served>> /\ task[m].stage = "idle"
      /\ replies' = [replies EXCEPT ![m] = Append(@, a)]
      /\ task' = [task EXCEPT ![m] = [NewTask EXCEPT !.stage = "done"]]
  BY DEF Refuse, Dequeue, Answer, Finish
<1>2. task \in [Msg -> Task]
  BY DEF IInv, SenderTypeOK
<1>3. task'[m] = [NewTask EXCEPT !.stage = "done"]
      /\ \A n \in Msg \ {m} : task'[n] = task[n]
  BY <1>1, <1>2
<1>4. a \in Reply /\ Said(a) = {}
  BY DEF Reply, Status, Said
<1>5. Utters(m, a)
  BY <1>1, <1>3, <1>4 DEF Utters, Unsaid, NewTask
<1> QED BY <1>1, <1>3, <1>4, <1>5 DEF Speaks, GoneShape, NewTask

\* A task that begins to wait owes the whole batch, and says nothing.
LEMMA CaptureSpeaks ==
  ASSUME IInv, NEW m \in Msg, Capture(m)
  PROVE  Speaks(m)
<1> DEFINE ref == [r \in Req |-> IF r \in m.batch THEN Obtained(m.p, r) ELSE NoGen]
<1>1. /\ m \in posted /\ UNCHANGED <<posted, served, replies>> /\ task[m].stage = "idle"
      /\ task' = [task EXCEPT ![m] = [NewTask EXCEPT !.stage = "waiting",
                                        !.pending = m.batch, !.ref = ref]]
  BY DEF Capture, Dequeue, wireVars
<1> HIDE DEF ref
<1>2. task \in [Msg -> Task]
  BY DEF IInv, SenderTypeOK
<1>3. /\ task'[m].stage = "waiting" /\ task'[m].pending = m.batch
      /\ task'[m].round = {} /\ task'[m].gone = {}
      /\ \A n \in Msg \ {m} : task'[n] = task[n]
  BY <1>1, <1>2 DEF NewTask
<1>4. Mute(m)
  BY <1>1, <1>3 DEF Mute, Unsaid
<1> QED BY <1>1, <1>3, <1>4 DEF Speaks, GoneShape

\* A timeout answers all that is pending, with FINISH.
LEMMA WaitTimeoutSpeaks ==
  ASSUME IInv, GoneInv, NEW m \in Msg, WaitTimeout(m)
  PROVE  Speaks(m)
<1> DEFINE a == [status |-> "FINISH", ok |-> {}, err |-> task[m].pending]
<1>1. /\ UNCHANGED <<posted, served>> /\ task[m].stage = "waiting"
      /\ replies' = [replies EXCEPT ![m] = Append(@, a)]
      /\ task' = [task EXCEPT ![m] = [NewTask EXCEPT !.stage = "done"]]
  BY DEF WaitTimeout, Answer, Finish
<1>2. /\ task \in [Msg -> Task] /\ m \in posted /\ task[m].pending \in SUBSET Req
      /\ task[m].round = {} /\ task[m].gone = {}
  BY <1>1 DEF IInv, SenderTypeOK, TaskShape, GoneInv, GoneShape, Task
<1>3. task'[m] = [NewTask EXCEPT !.stage = "done"]
      /\ \A n \in Msg \ {m} : task'[n] = task[n]
  BY <1>1, <1>2
<1>4. a \in Reply /\ Said(a) = task[m].pending
  BY <1>2 DEF Reply, Status, Said
<1>5. Utters(m, a)
  BY <1>1, <1>2, <1>3, <1>4 DEF Utters, Unsaid, NewTask
<1> QED BY <1>1, <1>2, <1>3, <1>4, <1>5 DEF Speaks, GoneShape, NewTask

\* The end of a round leaves what is pending, and nothing else, to be said.
LEMMA RoundEnds ==
  ASSUME IInv, NEW m \in Msg, NEW P, task' = NextRound(m, P)
  PROVE  /\ task'[m].stage = IF P = {} THEN "done" ELSE "waiting"
         /\ task'[m].pending = P /\ task'[m].round = {} /\ task'[m].gone = {}
         /\ \A n \in Msg \ {m} : task'[n] = task[n]
<1>1. task \in [Msg -> Task]
  BY DEF IInv, SenderTypeOK
<1>2. CASE P = {}
  BY <1>1, <1>2 DEF NextRound, Finish, NewTask
<1>3. CASE P # {}
  BY <1>1, <1>3 DEF NextRound, Task
<1> QED BY <1>2, <1>3

\* A round answers what it cannot write, or starts to write in silence.
LEMMA RoundSpeaks ==
  ASSUME IInv, GoneInv, NEW m \in Msg, Round(m)
  PROVE  Speaks(m)
<1>1. PICK done \in SUBSET Woken(m) : \E bad \in SUBSET done : StartRound(m, done, bad)
  BY DEF Round
<1>2. PICK bad \in SUBSET done : StartRound(m, done, bad)
  BY <1>1
<1> DEFINE live == {r \in done : Current(m, r)}
           rest == task[m].pending \ done
           a    == [status |-> RoundStatus(rest), ok |-> {}, err |-> done]
<1>3. /\ task[m].stage = "waiting" /\ UNCHANGED <<posted, served>>
      /\ \/ /\ replies' = [replies EXCEPT ![m] = Append(@, a)]
            /\ task' = NextRound(m, rest)
         \/ /\ UNCHANGED replies
            /\ task' = [task EXCEPT ![m] =
                 [@ EXCEPT !.stage = "writing", !.pending = rest,
                           !.round = live, !.ok = live \ bad, !.gone = done \ live]]
  BY <1>2 DEF StartRound, Answer
<1>4. /\ task \in [Msg -> Task] /\ m \in posted /\ task[m].pending \in SUBSET Req
      /\ task[m].pending \subseteq m.batch
      /\ task[m].round = {} /\ task[m].gone = {}
  BY <1>3 DEF IInv, SenderTypeOK, TaskShape, GoneInv, GoneShape, Task
<1>5. done \subseteq task[m].pending /\ live \subseteq done
  BY DEF Woken
<1> HIDE DEF live
<1>6. CASE /\ replies' = [replies EXCEPT ![m] = Append(@, a)]
           /\ task' = NextRound(m, rest)
  <2>1. /\ task'[m].stage = IF rest = {} THEN "done" ELSE "waiting"
        /\ task'[m].pending = rest /\ task'[m].round = {} /\ task'[m].gone = {}
        /\ \A n \in Msg \ {m} : task'[n] = task[n]
    BY <1>6, RoundEnds
  <2>2. a \in Reply /\ Said(a) = done
    BY <1>4, <1>5 DEF Reply, Status, Said, RoundStatus
  <2>3. a.status # "CONTINUE" => rest = {}
    BY DEF RoundStatus
  <2>4. Unsaid(m, task[m]) = task[m].pending /\ Unsaid(m, task'[m]) = rest
    BY <1>3, <1>4, <2>1 DEF Unsaid
  <2>5. a.ok = {}
    OBVIOUS
  <2>6. Utters(m, a)
    <3> HIDE DEF a
    <3> QED BY <1>5, <1>6, <2>1, <2>2, <2>3, <2>4, <2>5 DEF Utters
  <2>7. GoneShape(m, task'[m])
    BY <2>1 DEF GoneShape
  <2> HIDE DEF a
  <2> QED BY <1>3, <1>4, <2>1, <2>2, <2>6, <2>7 DEF Speaks
<1>7. CASE /\ UNCHANGED replies
           /\ task' = [task EXCEPT ![m] =
                [@ EXCEPT !.stage = "writing", !.pending = rest,
                          !.round = live, !.ok = live \ bad, !.gone = done \ live]]
  <2>1. /\ task'[m].stage = "writing" /\ task'[m].pending = rest
        /\ task'[m].round = live /\ task'[m].gone = done \ live
        /\ \A n \in Msg \ {m} : task'[n] = task[n]
    BY <1>4, <1>7 DEF Task
  <2>2. Unsaid(m, task[m]) = task[m].pending /\ Unsaid(m, task'[m]) = task[m].pending
    BY <1>3, <1>4, <1>5, <2>1 DEF Unsaid
  <2>3. GoneShape(m, task'[m])
    BY <1>4, <1>5, <2>1 DEF GoneShape
  <2> QED BY <1>3, <1>4, <1>7, <2>1, <2>2, <2>3 DEF Speaks, Mute
<1> QED BY <1>3, <1>6, <1>7

\* The end of a TE write answers the whole round.
LEMMA WriteDoneSpeaks ==
  ASSUME IInv, GoneInv, NEW m \in Msg, NEW good \in SUBSET task[m].round, WriteDone(m, good)
  PROVE  Speaks(m)
<1> DEFINE bad == (task[m].round \ good) \cup task[m].gone
           a   == [status |-> RoundStatus(task[m].pending), ok |-> good, err |-> bad]
<1>1. /\ task[m].stage = "writing" /\ UNCHANGED posted
      /\ served' = served \cup {<<m.d, m.p, r>> : r \in good}
      /\ replies' = [replies EXCEPT ![m] = Append(@, a)]
      /\ task' = NextRound(m, task[m].pending)
  BY DEF WriteDone, Answer
<1>2. /\ task \in [Msg -> Task] /\ m \in posted /\ task[m].round \in SUBSET Req
      /\ task[m].gone \in SUBSET Req /\ task[m].pending \cap task[m].round = {}
      /\ task[m].gone \cap (task[m].pending \cup task[m].round) = {}
  BY <1>1 DEF IInv, SenderTypeOK, TaskShape, GoneInv, GoneShape, Task
<1>3. /\ task'[m].stage = IF task[m].pending = {} THEN "done" ELSE "waiting"
      /\ task'[m].pending = task[m].pending /\ task'[m].round = {} /\ task'[m].gone = {}
      /\ \A n \in Msg \ {m} : task'[n] = task[n]
  BY <1>1, RoundEnds
<1>4. a \in Reply /\ Said(a) = task[m].round \cup task[m].gone
  BY <1>2 DEF Reply, Status, Said, RoundStatus
<1>5. /\ Unsaid(m, task[m]) = task[m].pending \cup Said(a)
      /\ Unsaid(m, task'[m]) = Unsaid(m, task[m]) \ Said(a)
  BY <1>1, <1>2, <1>3, <1>4 DEF Unsaid
<1>6. /\ a.status # "CONTINUE" => task[m].pending = {}
      /\ a.ok = good
  BY DEF RoundStatus
<1> HIDE DEF a
<1>7. Utters(m, a)
  BY <1>1, <1>3, <1>5, <1>6 DEF Utters
<1>8. GoneShape(m, task'[m])
  BY <1>3 DEF GoneShape
<1> QED BY <1>1, <1>2, <1>3, <1>4, <1>7, <1>8 DEF Speaks

\* A TE write that raises leaves the message without an answer.
LEMMA WriteRaiseSpeaks ==
  ASSUME IInv, NEW m \in Msg, WriteRaise(m)
  PROVE  Speaks(m)
<1>1. /\ UNCHANGED <<posted, replies, served>> /\ task[m].stage = "writing"
      /\ task' = [task EXCEPT ![m] = [NewTask EXCEPT !.stage = "dead"]]
  BY DEF WriteRaise, wireVars
<1>2. task \in [Msg -> Task] /\ m \in posted
  BY <1>1 DEF IInv, SenderTypeOK, TaskShape
<1>3. task'[m] = [NewTask EXCEPT !.stage = "dead"]
      /\ \A n \in Msg \ {m} : task'[n] = task[n]
  BY <1>1, <1>2
<1> QED BY <1>1, <1>2, <1>3 DEF Speaks, Mute, GoneShape, NewTask, Unsaid

\* Each step of a sender task speaks for one message only.
LEMMA TaskSpeaks ==
  ASSUME IInv, GoneInv, NEW m \in Msg, TaskStep(m)
  PROVE  Speaks(m)
<1>1. task[m].ok \in SUBSET task[m].round /\ {} \in SUBSET task[m].round
  BY DEF IInv, TaskShape
<1> QED BY <1>1, RefuseSpeaks, CaptureSpeaks, WaitTimeoutSpeaks, RoundSpeaks,
           WriteDoneSpeaks, WriteRaiseSpeaks DEF TaskStep, WriteEnd

\* Every other step of the sender leaves the tasks and the wire alone.
Hushed == UNCHANGED <<wireVars, task, served>>

\* The worker thread of P says nothing.
LEMMA OwnerHushed ==
  ASSUME NEW p \in PRank, OwnerStep(p) \/ \E r \in Req : Lapse(p, r)
  PROVE  Hushed
BY DEF OwnerStep, Prepare, Send, Cancel, Preempt, CancelReturn, PollSend, Lapse, Hushed


-----------------------------------------------------------------------------
(* The invariants are inductive. *)

\* Copies that others make do not matter to a message.
LEMMA FitGrows ==
  ASSUME NEW m, NEW left, NEW q, NEW t, NEW S, NEW T, Fit(m, left, q, t, S), S \subseteq T
  PROVE  Fit(m, left, q, t, T)
BY DEF Fit

\* Other messages get no answer by it.
LEMMA SpeaksReplies ==
  ASSUME IInv, NEW m \in Msg, Speaks(m), NEW n \in Msg
  PROVE  /\ replies[n] \in Seq(Reply)
         /\ n # m => replies'[n] = replies[n]
         /\ Mute(m) => replies'[n] = replies[n]
         /\ \A a \in Reply : Utters(m, a) => replies'[m] = Append(replies[m], a)
<1>1. replies \in [Msg -> Seq(Reply)]
  BY DEF IInv, WireTypeOK
<1> QED BY <1>1 DEF Speaks, Mute, Utters

\* What D has not read yet goes on to fit what it waits for.
LEMMA SpeaksFits ==
  ASSUME IInv, NEW m \in Msg, Speaks(m), NEW n \in Msg, NEW left,
         Fit(n, left, replies[n], task[n], served)
  PROVE  Fit(n, left, replies'[n], task'[n], served')
<1>1. CASE n # m
  BY <1>1, SpeaksReplies, FitGrows DEF Speaks
<1>2. CASE n = m /\ Mute(m)
  <2>1. replies'[m] = replies[m]
    BY <1>2, SpeaksReplies
  <2> QED BY <1>2, <2>1, SilentFits DEF Speaks, Mute
<1>3. CASE n = m /\ ~Mute(m)
  <2>1. PICK a \in Reply : Utters(m, a)
    BY <1>3 DEF Speaks
  <2>2. replies'[m] = Append(replies[m], a) /\ replies[m] \in Seq(Reply)
    BY <2>1, SpeaksReplies
  <2> QED BY <1>3, <2>1, <2>2, SayingFits DEF Speaks, Utters
<1> QED BY <1>1, <1>2, <1>3

\* What was to be said was said, on every message.
LEMMA SpeaksFull ==
  ASSUME IInv, NEW m \in Msg, Speaks(m), NEW n \in Msg,
         Full(n, replies[n], task[n])
  PROVE  Full(n, replies'[n], task'[n])
<1>1. CASE n # m
  BY <1>1, SpeaksReplies DEF Speaks
<1>2. CASE n = m /\ Mute(m)
  BY <1>2, SpeaksReplies, SilentFull DEF Speaks, Mute
<1>3. CASE n = m /\ ~Mute(m)
  <2>1. PICK a \in Reply : Utters(m, a)
    BY <1>3 DEF Speaks
  <2>2. replies'[m] = Append(replies[m], a) /\ replies[m] \in Seq(Reply)
    BY <2>1, SpeaksReplies
  <2> QED BY <1>3, <2>1, <2>2, SayingFull DEF Speaks, Utters
<1> QED BY <1>1, <1>2, <1>3

\* The expired requests of every round stay apart.
LEMMA SpeaksGone ==
  ASSUME GoneInv, NEW m \in Msg, Speaks(m)
  PROVE  GoneInv'
BY DEF GoneInv, Speaks

\* At the start nothing was said and all is to be said.
LEMMA InitAnswer == Init => GoneInv /\ AnswerInv
<1> SUFFICES ASSUME Init, NEW m \in Msg
             PROVE  /\ GoneShape(m, task[m]) /\ Fit(m, m.batch, replies[m], task[m], served)
                    /\ Full(m, replies[m], task[m])
  BY DEF GoneInv, AnswerInv
<1>1. task[m] = NewTask /\ replies[m] = <<>>
  BY DEF Init, WireInit, SenderInit
<1>2. Len(replies[m]) = 0
  BY <1>1, EmptySeq
<1>3. \A i \in 1 .. Len(replies[m]) : FALSE
  BY <1>2
<1> QED BY <1>1, <1>3 DEF GoneShape, Fit, Full, Unsaid, NewTask

\* A step of the sender, or of the D ranks that ask, keeps the answers right.
LEMMA NextAnswer == IInv /\ GoneInv /\ AnswerInv /\ [Next]_vars => GoneInv' /\ AnswerInv'
<1> SUFFICES ASSUME IInv, GoneInv, AnswerInv, [Next]_vars
             PROVE  GoneInv' /\ AnswerInv'
  OBVIOUS
<1>1. ASSUME NEW m \in Msg, TaskStep(m)
      PROVE  GoneInv' /\ AnswerInv'
  <2>1. Speaks(m)
    BY <1>1, TaskSpeaks
  <2> QED BY <2>1, SpeaksGone, SpeaksFits, SpeaksFull DEF AnswerInv
<1>2. CASE UNCHANGED <<replies, task, served>>
  BY <1>2 DEF GoneInv, AnswerInv
<1>3. ASSUME NEW p \in PRank, OwnerStep(p) \/ \E r \in Req : Lapse(p, r)
      PROVE  UNCHANGED <<replies, task, served>>
  BY <1>3, OwnerHushed DEF Hushed, wireVars
<1>4. ASSUME NEW m \in Msg, Ask(m)
      PROVE  UNCHANGED <<replies, task, served>>
  BY <1>4 DEF Ask, senderVars
<1>5. UNCHANGED vars => UNCHANGED <<replies, task, served>>
  BY DEF vars, wireVars, senderVars
<1> QED BY <1>1, <1>2, <1>3, <1>4, <1>5 DEF Next, SenderNext

\* The three invariants hold together.
LEMMA AnswersInductive == Spec => [](IInv /\ GoneInv /\ AnswerInv)
BY InitIInv, NextIInv, InitAnswer, NextAnswer, PTL DEF Spec

(***************************************************************************)
(* Over all the rounds of send_kv_to_decode, on every way through them, a  *)
(* request of the message is answered at most once, and exactly once when  *)
(* the last answer is FINISH.                                              *)
(***************************************************************************)
THEOREM AnswersOnce == Spec => []AnsweredOnce
<1>1. ASSUME IInv, GoneInv, AnswerInv, NEW m \in Msg
      PROVE  LET q == replies[m] IN
               /\ \A i, j \in 1 .. Len(q) :
                    i < j => /\ Said(q[i]) \cap Said(q[j]) = {}
                             /\ q[i].status = "CONTINUE"
               /\ \A i \in 1 .. Len(q) :
                    q[i].status = "FINISH" => UNION {Said(q[j]) : j \in 1 .. i} = m.batch
  <2> DEFINE q == replies[m]
             n == Len(q)
  <2>1. n \in Nat
    BY <1>1, LenProperties DEF IInv, WireTypeOK
  <2>2. Fit(m, m.batch, q, task[m], served) /\ Full(m, q, task[m])
    BY <1>1 DEF AnswerInv
  <2>3. /\ \A i \in 1 .. n : /\ Said(q[i]) \subseteq m.batch
                             /\ q[i].status # "CONTINUE" => task[m].stage = "done" /\ i = n
        /\ \A i, j \in 1 .. n : i < j => Said(q[i]) \cap Said(q[j]) = {}
    BY <2>2 DEF Fit
  <2> HIDE DEF n, q
  <2>4. ASSUME NEW i \in 1 .. n, NEW j \in 1 .. n, i < j
        PROVE  Said(q[i]) \cap Said(q[j]) = {} /\ q[i].status = "CONTINUE"
    BY <2>1, <2>3, <2>4
  <2>5. ASSUME NEW i \in 1 .. n, q[i].status = "FINISH"
        PROVE  UNION {Said(q[j]) : j \in 1 .. i} = m.batch
    <3>1. task[m].stage = "done" /\ i = n
      BY <2>3, <2>5
    <3>2. Unsaid(m, task[m]) = {}
      BY <1>1, <3>1 DEF Unsaid, IInv, TaskShape, GoneInv, GoneShape
    <3>3. \A k \in 1 .. n : q[k].status # "ERROR"
      BY <2>3, <2>5, <3>1
    <3>4. \A r \in m.batch : \E k \in 1 .. n : r \in Said(q[k])
      BY <2>2, <3>1, <3>2, <3>3 DEF Full, n
    <3> QED BY <2>3, <3>1, <3>4
  <2> QED BY <2>4, <2>5 DEF n, q
<1>2. IInv /\ GoneInv /\ AnswerInv => AnsweredOnce
  BY <1>1 DEF AnsweredOnce
<1> QED BY <1>2, AnswersInductive, PTL

=============================================================================
