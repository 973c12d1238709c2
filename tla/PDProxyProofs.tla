--------------------------- MODULE PDProxyProofs ---------------------------
(***************************************************************************)
(* Proofs about PDProxy, for any set of requests, any size of the metrics  *)
(* queue and any length of the bodies.  A step of a coroutine depends on   *)
(* its own record only, apart from the queue, so the invariant is a        *)
(* predicate of one record: what its pc says of the tasks it has left      *)
(* behind, and what a finalized request still holds.                       *)
(***************************************************************************)
EXTENDS PDProxy, SequenceTheorems, FiniteSetTheorems, FunctionTheorems, TLAPS

\* The awaits of _stream_decode's generator, and the one before its start.
Generator == {"handed", "wait", "chunk", "dropChunk", "yield", "prefill", "reap"}

\* What each await knows of the tasks, so that the next step needs no more.
PcOK(c) ==
  /\ c.pc \in {"none", "json"} =>
       c.prefill = "none" /\ c.headers = "none" /\ c.client = "none" /\ c.outcome = "none"
  /\ c.pc \in {"none", "json", "headers", "awaitD"} => c.pending
  /\ c.pc = "kill" => ~Live(c.prefill)
  /\ c.pc \in {"badBody", "reapBad"} => c.headers = "bad"
  /\ c.pc = "clearP" => ~Live(c.headers)
  /\ c.pc \in {"clearD", "clearP", "dropChunk", "reap"} => c.ending # "none"
  /\ c.pc \in Generator \cup {"putStream"} => c.headers = "ok"
  /\ c.pc \in (Generator \ {"handed"}) \cup {"putStream"} => c.chunk # "none"
  /\ c.pc \in {"handed", "wait", "chunk", "yield"} => c.pending \/ c.prefill = "ok"
  /\ c.pc \in {"wait", "chunk"} /\ c.chunk = "ok" => c.got < MaxChunks
  /\ c.pc = "prefill" => c.chunk = "eof"
  /\ c.pc \in Putting => c.outcome # "none"

\* A finalized request holds nothing but, in the generator, its client.
FinalOK(c) ==
  /\ c.ending # "success"
  /\ c.outcome # "none" =>
       /\ c.pc \in Putting \cup {"clearD", "clearP", "reap", "done"}
       /\ ~c.known /\ ~Live(c.prefill) /\ ~Live(c.headers)
       /\ c.client # "open" \/ (c.chunk # "none" /\ c.pc \in {"putStream", "reap", "put"})
  /\ c.outcome = "success" =>
       /\ c.pc \in {"putStream", "reap", "done"}
       /\ c.prefill = "ok" /\ c.headers = "ok" /\ c.chunk = "eof"

Good(c)  == c \in Coroutine /\ PcOK(c) /\ FinalOK(c)
Ended(c) == c.pc = "done" /\ Exchanged(c) => c.outcome # "none"

\* The inductive invariant: a coroutine that began its exchange with P ends
\* with an outcome unless it was cancelled.
ProxyInv ==
  /\ ProxyTypeOK
  /\ \A s \in Session : Good(ses[s]) /\ (Ended(ses[s]) \/ s \in hit)

-----------------------------------------------------------------------------
(* The steps of a coroutine, as functions of its record. *)

\* Cancelling a task keeps it a task, and leaves one that is over alone.
LEMMA StopTask ==
  /\ \A x \in TaskStates : Stop(x) \in TaskStates
  /\ \A x \in TaskStates \cup {"bad"} : Stop(x) \in TaskStates \cup {"bad"}
  /\ \A x \in TaskStates \cup {"eof"} : Stop(x) \in TaskStates \cup {"eof"}
  /\ \A x : (~Live(x) \/ x = "cancelling" => Stop(x) = x) /\ (Live(Stop(x)) <=> Live(x))
BY DEF Stop, TaskStates, Live

\* What an exception is finalized as.
LEMMA ErrorOutcomes ==
  /\ \A how : \A o \in {"decode_error", "prefill_error"} :
       ErrorOutcome(how, o) \in Outcomes \ {"none", "success"}
  /\ \A c : PrefillError(c) \in Outcomes \ {"none", "success"}
BY DEF ErrorOutcome, PrefillError, Outcomes

\* Cleanup in _handle keeps the facts of a record that is not a success.
LEMMA ClearGood ==
  ASSUME NEW c, c \in Coroutine, FinalOK(c), c.outcome # "success",
         c.outcome # "none" => c.client # "open",
         NEW o \in Outcomes \ {"none", "success"}
  PROVE  Good(Clear(c, o)) /\ Ended(Clear(c, o))
<1>1. Clear(c, o) \in Coroutine
  <2>1. c.headers \in TaskStates \cup {"bad"} /\ o \in Outcomes
    BY DEF Coroutine
  <2> QED BY <2>1, StopTask DEF Coroutine, Clear
<1>2. PcOK(Clear(c, o))
  BY DEF PcOK, Coroutine, Clear, Putting, Generator
<1>3. FinalOK(Clear(c, o)) /\ Ended(Clear(c, o))
  BY DEF FinalOK, Ended, Exchanged, Coroutine, Clear, Putting, Stop, Live
<1> QED BY <1>1, <1>2, <1>3 DEF Good

\* Cleanup in the generator keeps them once D answered.
LEMMA ReapGood ==
  ASSUME NEW c, c \in Coroutine, FinalOK(c), c.headers = "ok", c.chunk # "none",
         NEW o \in Outcomes \ {"none", "success"}
  PROVE  Good(Reap(c, o)) /\ Ended(Reap(c, o))
<1>1. Reap(c, o) \in Coroutine
  <2>1. c.prefill \in TaskStates /\ o \in Outcomes
    BY DEF Coroutine
  <2> QED BY <2>1, StopTask DEF Coroutine, Reap
<1>2. PcOK(Reap(c, o))
  BY DEF PcOK, Coroutine, Reap, Putting, Generator
<1>3. FinalOK(Reap(c, o)) /\ Ended(Reap(c, o))
  BY DEF FinalOK, Ended, Exchanged, Coroutine, Reap, Putting, Stop, Live
<1> QED BY <1>1, <1>2, <1>3 DEF Good

\* A coroutine that has already been finalized leaves.
LEMMA LeaveGood ==
  ASSUME NEW c, Good(c), c.outcome # "none",
         c.pc \in Putting \cup {"clearD", "clearP", "reap", "done"}
  PROVE  Good(Leave(c)) /\ Ended(Leave(c))
<1> USE DEF Good
<1>1. Leave(c) \in Coroutine
  BY DEF Coroutine, Leave
<1>2. PcOK(Leave(c))
  BY DEF PcOK, Coroutine, Leave, Putting, Generator
<1>3. FinalOK(Leave(c)) /\ Ended(Leave(c))
  BY DEF FinalOK, Ended, Exchanged, Coroutine, Leave, Putting, Live
<1> QED BY <1>1, <1>2, <1>3

\* The first finalization needs the tasks to be over.
LEMMA FirstFinish ==
  ASSUME NEW c, c \in Coroutine, c.ending # "success", c.outcome = "none",
         ~Live(c.prefill), ~Live(c.headers),
         NEW at \in Putting, NEW o \in Outcomes \ {"none"},
         c.client # "open" \/ (c.chunk # "none" /\ at \in {"putStream", "put"}),
         at = "putStream" => c.chunk # "none" /\ c.headers = "ok",
         o = "success" => /\ at = "putStream" /\ c.prefill = "ok" /\ c.headers = "ok"
                          /\ c.chunk = "eof"
  PROVE  Good(Finished(c, o, at)) /\ Ended(Finished(c, o, at))
<1>1. Finished(c, o, at) \in Coroutine
  BY DEF Coroutine, Finished
<1>2. PcOK(Finished(c, o, at))
  BY DEF PcOK, Coroutine, Finished, Putting, Generator
<1>3. FinalOK(Finished(c, o, at)) /\ Ended(Finished(c, o, at))
  BY DEF FinalOK, Ended, Exchanged, Coroutine, Finished, Putting
<1> QED BY <1>1, <1>2, <1>3 DEF Good

\* In _handle's cleanup and the generator's the request may be finalized
\* already; if not, it is now.
LEMMA CleanupFinish ==
  ASSUME NEW c, Good(c), c.pc \in {"clearP", "reap"}, ~Live(c.prefill)
  PROVE  /\ c.pc = "clearP" =>
              /\ Good(Finished(Closed(c), c.ending, "put"))
              /\ Ended(Finished(Closed(c), c.ending, "put"))
         /\ c.pc = "reap" =>
              Good(Finished(c, c.ending, "put")) /\ Ended(Finished(c, c.ending, "put"))
<1> USE DEF Good
<1>1. c.ending \in Outcomes \ {"none", "success"}
  BY DEF PcOK, FinalOK, Coroutine
<1>2. CASE c.pc = "clearP"
  <2> DEFINE d == Closed(c)
  <2>1. d \in Coroutine /\ PcOK(d) /\ FinalOK(d)
    <3>1. d \in Coroutine
      BY DEF Coroutine, Closed
    <3>2. PcOK(d)
      BY <1>2 DEF PcOK, Coroutine, Closed, Generator, Putting
    <3>3. FinalOK(d)
      BY <1>2 DEF FinalOK, Coroutine, Closed, Putting
    <3> QED BY <3>1, <3>2, <3>3
  <2>2. /\ d.pc = "clearP" /\ d.client = "closed" /\ d.outcome = c.outcome
        /\ ~Live(d.prefill) /\ ~Live(d.headers) /\ d.ending # "success"
    BY <1>1, <1>2 DEF Coroutine, Closed, PcOK
  <2> HIDE DEF d
  <2>3. CASE d.outcome = "none"
    BY <1>1, <1>2, <2>1, <2>2, <2>3, FirstFinish DEF d, Putting
  <2>4. CASE d.outcome # "none"
    BY <1>2, <2>1, <2>2, <2>4, LeaveGood DEF d, Finished
  <2> QED BY <1>2, <2>3, <2>4
<1>3. CASE c.pc = "reap"
  <2>1. c.headers = "ok" /\ c.chunk # "none" /\ c.ending # "success"
    BY <1>1, <1>3 DEF PcOK, Generator
  <2>2. CASE c.outcome = "none"
    BY <1>1, <1>3, <2>1, <2>2, FirstFinish DEF Putting, Live
  <2>3. CASE c.outcome # "none"
    BY <1>3, <2>3, LeaveGood DEF Finished
  <2> QED BY <1>3, <2>2, <2>3
<1> QED BY <1>2, <1>3

\* A failed P ends the stream.
LEMMA DroppedGood ==
  ASSUME NEW c, c \in Coroutine, FinalOK(c), c.headers = "ok", c.chunk # "none",
         c.outcome = "none", NEW o \in Outcomes \ {"none", "success"}
  PROVE  Good(Dropped(c, o)) /\ Ended(Dropped(c, o))
<1>1. CASE Live(c.chunk)
  <2>1. Dropped(c, o) \in Coroutine
    <3>1. c.chunk \in TaskStates \cup {"eof"} /\ o \in Outcomes
      BY DEF Coroutine
    <3> QED BY <1>1, <3>1, StopTask DEF Coroutine, Dropped
  <2>2. PcOK(Dropped(c, o))
    BY <1>1 DEF PcOK, Coroutine, Dropped, Putting, Generator, Stop
  <2>3. FinalOK(Dropped(c, o)) /\ Ended(Dropped(c, o))
    BY <1>1 DEF FinalOK, Ended, Exchanged, Coroutine, Dropped, Putting
  <2> QED BY <2>1, <2>2, <2>3 DEF Good
<1>2. CASE ~Live(c.chunk)
  BY <1>2, ReapGood DEF Dropped
<1> QED BY <1>1, <1>2

\* What is made of the end of a chunk read.
LEMMA TookGood ==
  ASSUME NEW c, Good(c), c.pc \in {"wait", "chunk"}, ~Live(c.chunk)
  PROVE  Good(Took(c)) /\ Ended(Took(c))
<1>1. c.outcome = "none" /\ c.headers = "ok" /\ c.chunk # "none" /\ c \in Coroutine
  BY DEF Good, PcOK, FinalOK, Putting, Generator
<1>2. CASE c.chunk = "ok"
  <2>1. c.got < MaxChunks /\ c.got \in 0 .. MaxChunks /\ c.got + 1 \in 0 .. MaxChunks
    BY <1>2, ProxyAssumption DEF Good, PcOK, Coroutine
  <2>2. Took(c) = [c EXCEPT !.got = c.got + 1, !.pc = "yield"]
    BY <1>2 DEF Took
  <2>3. Took(c) \in Coroutine
    BY <1>1, <2>1, <2>2 DEF Coroutine
  <2>4. PcOK(Took(c))
    BY <1>1, <2>2 DEF Good, PcOK, Coroutine, Putting, Generator
  <2>5. FinalOK(Took(c)) /\ Ended(Took(c))
    BY <1>1, <2>2 DEF Good, FinalOK, Ended, Exchanged, Coroutine
  <2> QED BY <2>3, <2>4, <2>5 DEF Good
<1>3. CASE c.chunk = "eof" /\ c.pending
  <2>1. Took(c) = [c EXCEPT !.pc = "prefill"]
    BY <1>3 DEF Took
  <2>2. Took(c) \in Coroutine
    BY <1>1, <2>1 DEF Coroutine
  <2>3. PcOK(Took(c))
    BY <1>1, <1>3, <2>1 DEF Good, PcOK, Coroutine, Putting, Generator
  <2>4. FinalOK(Took(c)) /\ Ended(Took(c))
    BY <1>1, <2>1 DEF Good, FinalOK, Ended, Exchanged, Coroutine
  <2> QED BY <2>2, <2>3, <2>4 DEF Good
<1>4. CASE c.chunk = "eof" /\ ~c.pending
  <2>1. Took(c) = Finished(c, "success", "putStream")
    BY <1>4 DEF Took
  <2>2. c.prefill = "ok" /\ c.ending # "success"
    BY <1>4 DEF Good, PcOK, FinalOK
  <2> QED BY <1>1, <1>4, <2>1, <2>2, FirstFinish DEF Putting, Outcomes, Live
<1>5. CASE c.chunk \notin {"ok", "eof"}
  <2>1. Took(c) = Reap(c, ErrorOutcome(c.chunk, "decode_error"))
    BY <1>5 DEF Took
  <2> QED BY <1>1, <2>1, ReapGood, ErrorOutcomes DEF Good
<1> QED BY <1>2, <1>3, <1>4, <1>5

\* What is made of an answer of D.
LEMMA AnsweredGood ==
  ASSUME NEW c, Good(c), c.pc \in {"headers", "awaitD"}, ~Live(c.headers)
  PROVE  Good(Answered(c)) /\ Ended(Answered(c))
<1>1. c.outcome = "none" /\ c.pending /\ c \in Coroutine
  BY DEF Good, PcOK, FinalOK, Putting
<1>2. ASSUME NEW at \in {"badBody", "handed"}, Answered(c) = [c EXCEPT !.pc = at],
             c.headers = IF at = "handed" THEN "ok" ELSE "bad"
      PROVE  Good(Answered(c)) /\ Ended(Answered(c))
  <2>1. Answered(c) \in Coroutine
    BY <1>1, <1>2 DEF Coroutine
  <2>2. PcOK(Answered(c))
    BY <1>1, <1>2 DEF PcOK, Coroutine, Putting, Generator
  <2>3. FinalOK(Answered(c)) /\ Ended(Answered(c))
    BY <1>1, <1>2 DEF Good, FinalOK, Ended, Exchanged, Coroutine
  <2> QED BY <2>1, <2>2, <2>3 DEF Good
<1>3. CASE c.headers = "ok" /\ PrefillFailed(c)
  <2>1. Answered(c) = Finished(Closed(c), "prefill_error", "putTry")
    BY <1>3 DEF Answered
  <2>2. /\ Closed(c) \in Coroutine /\ Closed(c).ending # "success" /\ Closed(c).outcome = "none"
        /\ ~Live(Closed(c).prefill) /\ ~Live(Closed(c).headers) /\ Closed(c).client # "open"
    BY <1>1, <1>3 DEF Good, Coroutine, FinalOK, Closed, PrefillFailed
  <2> QED BY <2>1, <2>2, FirstFinish DEF Putting, Outcomes
<1>4. CASE c.headers \notin {"bad", "ok"}
  <2>1. Answered(c) = Clear(c, ErrorOutcome(c.headers, "decode_error"))
    BY <1>4 DEF Answered
  <2> QED BY <1>1, <2>1, ClearGood, ErrorOutcomes DEF Good
<1>5. CASE c.headers = "bad"
  BY <1>2, <1>5 DEF Answered
<1>6. CASE c.headers = "ok" /\ ~PrefillFailed(c)
  BY <1>2, <1>6 DEF Answered
<1> QED BY <1>3, <1>4, <1>5, <1>6

\* The end of asyncio.wait in the generator.
LEMMA WokenGood ==
  ASSUME NEW c, Good(c), c.pc = "wait", ~Live(c.chunk) \/ (c.pending /\ ~Live(c.prefill))
  PROVE  Good(Woken(c)) /\ Ended(Woken(c))
<1>1. c.outcome = "none" /\ c.headers = "ok" /\ c.chunk # "none" /\ c \in Coroutine /\ FinalOK(c)
  BY DEF Good, PcOK, FinalOK, Putting, Generator
<1>2. CASE c.pending /\ PrefillFailed(c)
  <2>1. Woken(c) = Dropped(c, PrefillError(c))
    BY <1>2 DEF Woken, PrefillFailed
  <2> QED BY <1>1, <2>1, DroppedGood, ErrorOutcomes
<1>3. CASE c.pending /\ c.prefill = "ok"
  <2> DEFINE d == [c EXCEPT !.pending = FALSE]
  <2>1. Woken(c) = IF Live(d.chunk) THEN [d EXCEPT !.pc = "chunk"] ELSE Took(d)
    BY <1>3 DEF Woken, PrefillFailed, Live
  <2>2. /\ d \in Coroutine /\ d.pc = "wait" /\ d.prefill = "ok" /\ d.outcome = "none"
        /\ d.headers = "ok" /\ d.chunk = c.chunk /\ d.got = c.got /\ d.ending = c.ending
    BY <1>1, <1>3 DEF Coroutine
  <2> HIDE DEF d
  <2>3. PcOK(d) /\ FinalOK(d)
    BY <1>1, <2>2 DEF Good, PcOK, FinalOK, Putting, Generator
  <2>4. CASE Live(d.chunk)
    <3>1. Woken(c) = [d EXCEPT !.pc = "chunk"]
      BY <2>1, <2>4
    <3>2. Woken(c) \in Coroutine
      BY <2>2, <3>1 DEF Coroutine
    <3>3. PcOK(Woken(c))
      BY <2>2, <2>3, <2>4, <3>1 DEF PcOK, Coroutine, Putting, Generator, Live
    <3>4. FinalOK(Woken(c)) /\ Ended(Woken(c))
      BY <2>2, <2>3, <3>1 DEF FinalOK, Ended, Exchanged, Coroutine
    <3> QED BY <3>2, <3>3, <3>4 DEF Good
  <2>5. CASE ~Live(d.chunk)
    BY <2>1, <2>2, <2>3, <2>5, TookGood DEF Good
  <2> QED BY <2>4, <2>5
<1>4. CASE ~(c.pending /\ ~Live(c.prefill))
  <2>1. ~Live(c.chunk) /\ Woken(c) = Took(c)
    BY <1>4 DEF Woken
  <2> QED BY <2>1, TookGood
<1> QED BY <1>2, <1>3, <1>4 DEF PrefillFailed

\* A cancelled coroutine keeps its facts; it may end without an outcome.
LEMMA InterruptedGood ==
  ASSUME NEW c, Good(c), c.pc \notin {"none", "done"}
  PROVE  Good(Interrupted(c))
<1>1. CASE c.pc \in {"json", "handed", "clearD", "clearP"}
  <2>1. Interrupted(c) = [c EXCEPT !.pc = "done"]
    BY <1>1 DEF Interrupted
  <2>2. Interrupted(c) \in Coroutine
    BY <2>1 DEF Good, Coroutine
  <2>3. PcOK(Interrupted(c))
    BY <2>1 DEF Good, PcOK, Coroutine, Putting, Generator
  <2>4. FinalOK(Interrupted(c))
    BY <1>1, <2>1 DEF Good, FinalOK, Coroutine, Putting
  <2> QED BY <2>2, <2>3, <2>4 DEF Good
<1>2. CASE c.pc \in {"headers", "awaitD", "kill", "badBody", "reapBad", "putTry", "putRaise"}
  <2>1. Interrupted(c) = Clear(c, "decode_error")
    BY <1>2 DEF Interrupted
  <2>2. c.outcome # "success" /\ (c.outcome # "none" => c.client # "open")
    BY <1>2 DEF Good, FinalOK, Putting
  <2> QED BY <2>1, <2>2, ClearGood DEF Good, Outcomes
<1>3. CASE c.pc \in {"wait", "dropChunk", "prefill", "putStream", "yield"}
  <2>1. Interrupted(c) \in {Reap(c, "client_cancelled"), Reap(c, "decode_error")}
    BY <1>3 DEF Interrupted
  <2>2. CASE c.headers = "ok" /\ c.chunk # "none"
    BY <2>1, <2>2, ReapGood DEF Good, Outcomes
  <2> QED BY <1>3, <2>2 DEF Good, PcOK, Generator
<1>4. CASE c.pc = "chunk"
  <2> DEFINE d == [c EXCEPT !.chunk = Stop(@)]
  <2>1. d \in Coroutine
    <3>1. c.chunk \in TaskStates \cup {"eof"} /\ c \in Coroutine
      BY DEF Good, Coroutine
    <3> QED BY <3>1, StopTask DEF Coroutine
  <2>2. FinalOK(d) /\ d.headers = "ok" /\ d.chunk # "none"
    BY <1>4 DEF Good, Coroutine, PcOK, FinalOK, Stop, Generator, Putting
  <2>3. Interrupted(c) = Reap(d, "client_cancelled")
    BY <1>4 DEF Interrupted
  <2> QED BY <2>1, <2>2, <2>3, ReapGood DEF Outcomes
<1>5. CASE c.pc \in {"reap", "put"}
  <2>1. Interrupted(c) = Leave(c)
    BY <1>5 DEF Interrupted
  <2>2. CASE c.outcome # "none"
    BY <1>5, <2>1, <2>2, LeaveGood DEF Putting
  <2>3. CASE c.outcome = "none"
    <3>1. Interrupted(c) \in Coroutine
      BY <2>1 DEF Good, Coroutine, Leave
    <3>2. PcOK(Interrupted(c))
      BY <2>1 DEF Good, PcOK, Coroutine, Leave, Putting, Generator
    <3>3. FinalOK(Interrupted(c))
      BY <2>1, <2>3 DEF Good, FinalOK, Coroutine, Leave
    <3> QED BY <3>1, <3>2, <3>3 DEF Good
  <2> QED BY <2>2, <2>3
<1> QED BY <1>1, <1>2, <1>3, <1>4, <1>5 DEF Good, Coroutine, Putting

\* The cancellation or the end of P disturbs no fact.
LEMMA PrefillGood ==
  ASSUME NEW c, Good(c), NEW e \in TaskStates \ {"none"}, Live(c.prefill)
  PROVE  Good([c EXCEPT !.prefill = e])
<1>1. [c EXCEPT !.prefill = e] \in Coroutine
  BY DEF Good, Coroutine
<1>2. PcOK([c EXCEPT !.prefill = e])
  BY DEF Good, PcOK, Coroutine, Live, Putting, Generator
<1>3. FinalOK([c EXCEPT !.prefill = e])
  BY DEF Good, FinalOK, Coroutine, Live
<1> QED BY <1>1, <1>2, <1>3 DEF Good

\* Nor does the end of D's headers.
LEMMA HeadersGood ==
  ASSUME NEW c, Good(c), NEW e \in TaskStates \cup {"bad"}, Live(c.headers), ~Live(e)
  PROVE  Good([c EXCEPT !.headers = e])
<1>1. [c EXCEPT !.headers = e] \in Coroutine
  BY DEF Good, Coroutine
<1>2. PcOK([c EXCEPT !.headers = e])
  BY DEF Good, PcOK, Coroutine, Live, Putting, Generator
<1>3. FinalOK([c EXCEPT !.headers = e])
  BY DEF Good, FinalOK, Coroutine, Live
<1> QED BY <1>1, <1>2, <1>3 DEF Good

\* Nor does the end of a chunk read.
LEMMA ChunkGood ==
  ASSUME NEW c, Good(c), NEW e \in (TaskStates \ {"none"}) \cup {"eof"}, Live(c.chunk),
         e = "ok" => c.got < MaxChunks
  PROVE  Good([c EXCEPT !.chunk = e])
<1>1. [c EXCEPT !.chunk = e] \in Coroutine
  BY DEF Good, Coroutine
<1>2. PcOK([c EXCEPT !.chunk = e])
  BY DEF Good, PcOK, Coroutine, Live, Putting, Generator
<1>3. FinalOK([c EXCEPT !.chunk = e])
  BY DEF Good, FinalOK, Coroutine, Live
<1> QED BY <1>1, <1>2, <1>3 DEF Good

-----------------------------------------------------------------------------
(* The steps of the system. *)

\* A step of one coroutine that keeps its facts keeps the invariant.
LEMMA BecomeKeeps ==
  ASSUME ProxyInv, NEW s \in Session, NEW d, Become(s, d), Good(d), Ended(d) \/ s \in hit
  PROVE  ProxyInv'
<1>1. /\ ses' = [ses EXCEPT ![s] = d] /\ ses \in [Session -> Coroutine] /\ d \in Coroutine
      /\ hit' = hit
  BY DEF Become, ProxyInv, ProxyTypeOK, Good
<1>2. ProxyTypeOK'
  <2>1. writer' \in Session \cup {"none", "idle", "ended"}
    BY DEF Become, ProxyInv, ProxyTypeOK
  <2> QED BY <1>1, <2>1 DEF Become, writerVars, ProxyInv, ProxyTypeOK
<1>3. ASSUME NEW x \in Session
      PROVE  Good(ses'[x]) /\ (Ended(ses'[x]) \/ x \in hit')
  <2>1. CASE x = s
    BY <1>1, <2>1
  <2>2. CASE x # s
    BY <1>1, <2>2 DEF ProxyInv
  <2> QED BY <2>1, <2>2
<1> QED BY <1>2, <1>3 DEF ProxyInv

\* A request that is refused has started nothing.
LEMMA RefusedGood ==
  ASSUME NEW c, Good(c), c.pc = "json"
  PROVE  Good(Finished(c, "proxy_error", "put")) /\ Ended(Finished(c, "proxy_error", "put"))
<1>1. /\ c \in Coroutine /\ c.ending # "success" /\ c.outcome = "none" /\ ~Live(c.prefill)
      /\ ~Live(c.headers) /\ c.client # "open"
  BY DEF Good, PcOK, FinalOK, Live
<1> QED BY <1>1, FirstFinish DEF Putting, Outcomes

\* A new request is registered, and refused if its content type is wrong.
LEMMA ArriveKeeps ==
  ASSUME ProxyInv, NEW s \in Session, Arrive(s)
  PROVE  ProxyInv'
<1> DEFINE c == ses[s]
           d == [c EXCEPT !.known = TRUE, !.pc = "json"]
<1>1. Good(c) /\ c.pc = "none"
  BY DEF ProxyInv, Arrive
<1>2. Good(d) /\ Ended(d) /\ d.pc = "json"
  <2>1. d \in Coroutine /\ d.pc = "json"
    BY <1>1 DEF Good, Coroutine
  <2>2. PcOK(d)
    BY <1>1 DEF Good, PcOK, Coroutine, Putting, Generator
  <2>3. FinalOK(d)
    BY <1>1 DEF Good, FinalOK, PcOK, Coroutine
  <2> QED BY <2>1, <2>2, <2>3 DEF Good, Ended, Exchanged
<1>3. Become(s, IF s \in Malformed THEN Finished(d, "proxy_error", "put") ELSE d)
  BY DEF Arrive
<1> HIDE DEF d
<1> QED BY <1>2, <1>3, BecomeKeeps, RefusedGood

\* A parsed request starts its two tasks; one that is no JSON object is
\* refused; one whose body cannot be converted ends before it has a task.
LEMMA ParseKeeps ==
  ASSUME ProxyInv, NEW s \in Session, Parse(s)
  PROVE  ProxyInv'
<1> DEFINE c == ses[s]
           d == [c EXCEPT !.pc = "headers", !.prefill = "run", !.headers = "run",
                          !.client = "open"]
<1>1. Good(c) /\ c.pc = "json"
  BY DEF ProxyInv, Parse
<1>2. Good(d) /\ Ended(d)
  <2>0. c \in Coroutine /\ "run" \in TaskStates
    BY <1>1 DEF Good, TaskStates
  <2>1. d \in Coroutine
    BY <2>0 DEF Coroutine
  <2>2. PcOK(d)
    BY <1>1 DEF Good, PcOK, Coroutine, Putting, Generator
  <2>3. FinalOK(d) /\ Ended(d)
    BY <1>1 DEF Good, FinalOK, PcOK, Ended, Exchanged, Coroutine
  <2> QED BY <2>1, <2>2, <2>3 DEF Good
<1> DEFINE e == [c EXCEPT !.pc = "done"]
<1>3. Good(e) /\ Ended(e)
  <2>1. e \in Coroutine
    BY <1>1 DEF Good, Coroutine
  <2>2. PcOK(e)
    BY <1>1 DEF Good, PcOK, Coroutine, Putting, Generator
  <2>3. FinalOK(e) /\ Ended(e)
    BY <1>1 DEF Good, FinalOK, PcOK, Ended, Exchanged, Coroutine
  <2> QED BY <2>1, <2>2, <2>3 DEF Good
<1>4. Become(s, d) \/ Become(s, Finished(c, "proxy_error", "put")) \/ Become(s, e)
  BY DEF Parse
<1> HIDE DEF d, e, c
<1> QED BY <1>1, <1>2, <1>3, <1>4, BecomeKeeps, RefusedGood

\* P failed before D answered: D's headers task is cancelled.
LEMMA FirstOfTwoKeeps ==
  ASSUME ProxyInv, NEW s \in Session, FirstOfTwo(s)
  PROVE  ProxyInv'
<1> DEFINE c == ses[s]
<1>1. Good(c) /\ c.pc = "headers" /\ c.outcome = "none" /\ c.pending
  BY DEF ProxyInv, FirstOfTwo, Good, PcOK, FinalOK, Putting
<1>2. CASE PrefillFailed(c)
  <2> DEFINE d == [c EXCEPT !.pc = "kill", !.headers = Stop(@)]
  <2>1. d \in Coroutine
    <3>1. c.headers \in TaskStates \cup {"bad"} /\ c \in Coroutine
      BY <1>1 DEF Good, Coroutine
    <3> QED BY <3>1, StopTask DEF Coroutine
  <2>2. PcOK(d)
    BY <1>1, <1>2 DEF Good, PcOK, Coroutine, Putting, Generator, PrefillFailed
  <2>3. FinalOK(d) /\ Ended(d)
    BY <1>1 DEF Good, FinalOK, Ended, Exchanged, Coroutine
  <2>4. Become(s, d)
    BY <1>2 DEF FirstOfTwo
  <2> HIDE DEF d
  <2> QED BY <2>1, <2>2, <2>3, <2>4, BecomeKeeps DEF Good
<1>3. CASE ~PrefillFailed(c) /\ Live(c.headers)
  <2> DEFINE d == [c EXCEPT !.pc = "awaitD"]
  <2>1. d \in Coroutine
    BY <1>1 DEF Good, Coroutine
  <2>2. PcOK(d)
    BY <1>1 DEF Good, PcOK, Coroutine, Putting, Generator
  <2>3. FinalOK(d) /\ Ended(d)
    BY <1>1 DEF Good, FinalOK, Ended, Exchanged, Coroutine
  <2>4. Become(s, d)
    BY <1>3 DEF FirstOfTwo
  <2> HIDE DEF d
  <2> QED BY <2>1, <2>2, <2>3, <2>4, BecomeKeeps DEF Good
<1>4. CASE ~PrefillFailed(c) /\ ~Live(c.headers)
  <2>1. Become(s, Answered(c))
    BY <1>4 DEF FirstOfTwo
  <2> QED BY <1>1, <1>4, <2>1, AnsweredGood, BecomeKeeps
<1> QED BY <1>2, <1>3, <1>4

\* D answered, or failed to, after P was found not to have failed.
LEMMA AwaitDKeeps ==
  ASSUME ProxyInv, NEW s \in Session, AwaitD(s)
  PROVE  ProxyInv'
<1>1. Good(ses[s]) /\ ses[s].pc = "awaitD" /\ ~Live(ses[s].headers) /\ Become(s, Answered(ses[s]))
  BY DEF ProxyInv, AwaitD
<1> QED BY <1>1, AnsweredGood, BecomeKeeps

\* D's headers task is over: P's failure, or D's refusal, is finalized with
\* the client closed.
LEMMA RefusalKeeps ==
  ASSUME ProxyInv, NEW s \in Session, Killed(s) \/ ReapBad(s)
  PROVE  ProxyInv'
<1> DEFINE c == ses[s]
           d == Closed(c)
<1>1. Good(c) /\ c.pc \in {"kill", "reapBad"} /\ c.outcome = "none"
  BY DEF ProxyInv, Killed, ReapBad, Good, FinalOK, Putting
<1>2. ~Live(c.prefill) /\ ~Live(c.headers) /\ c.ending # "success" /\ c \in Coroutine
  BY <1>1 DEF Good, PcOK, FinalOK, Killed, ReapBad, Live
<1>3. /\ d \in Coroutine /\ d.ending # "success" /\ d.outcome = "none" /\ ~Live(d.prefill)
      /\ ~Live(d.headers) /\ d.client # "open"
  BY <1>1, <1>2 DEF Coroutine, Closed
<1>4. \E at \in {"putTry", "putRaise"}, o \in {"prefill_error", "decode_error"} :
        Become(s, Finished(d, o, at))
  BY DEF Killed, ReapBad
<1> HIDE DEF d
<1> QED BY <1>3, <1>4, FirstFinish, BecomeKeeps DEF Putting, Outcomes

\* The steps of _handle's cleanup.
LEMMA HandleKeeps ==
  ASSUME ProxyInv, NEW s \in Session, ReadBadBody(s) \/ ClearD(s) \/ ClearP(s)
  PROVE  ProxyInv'
<1> DEFINE c == ses[s]
<1>1. Good(c)
  BY DEF ProxyInv
<1>2. ASSUME c.pc \in {"badBody", "clearD"},
             NEW at, at = (IF c.pc = "badBody" THEN "reapBad" ELSE "clearP"),
             c.pc = "clearD" => ~Live(c.headers),
             Become(s, [c EXCEPT !.pc = at, !.prefill = Stop(@)])
      PROVE  ProxyInv'
  <2> DEFINE d == [c EXCEPT !.pc = at, !.prefill = Stop(@)]
  <2>1. d \in Coroutine
    <3>1. c.prefill \in TaskStates /\ c \in Coroutine
      BY <1>1 DEF Good, Coroutine
    <3> QED BY <1>2, <3>1, StopTask DEF Coroutine
  <2>2. PcOK(d)
    BY <1>1, <1>2 DEF Good, PcOK, Coroutine, Putting, Generator
  <2>3. FinalOK(d) /\ Ended(d)
    BY <1>1, <1>2 DEF Good, FinalOK, Ended, Exchanged, Coroutine, Stop, Live, Putting
  <2> HIDE DEF d
  <2> QED BY <1>2, <2>1, <2>2, <2>3, BecomeKeeps DEF Good, d
<1>3. CASE ReadBadBody(s)
  <2>1. c.pc = "badBody" /\ c.outcome = "none"
    BY <1>1, <1>3 DEF ReadBadBody, Good, FinalOK, Putting
  <2>2. CASE Become(s, [c EXCEPT !.pc = "reapBad", !.prefill = Stop(@)])
    BY <1>2, <2>1, <2>2
  <2>3. ASSUME NEW how, Become(s, Clear(c, ErrorOutcome(how, "decode_error")))
        PROVE  ProxyInv'
    BY <1>1, <2>1, <2>3, ClearGood, ErrorOutcomes, BecomeKeeps DEF Good
  <2> QED BY <1>3, <2>2, <2>3 DEF ReadBadBody
<1>4. CASE ClearD(s)
  BY <1>2, <1>4 DEF ClearD
<1>5. CASE ClearP(s)
  <2>1. /\ c.pc = "clearP" /\ ~Live(c.prefill)
        /\ Become(s, Finished(Closed(c), c.ending, "put"))
    BY <1>5 DEF ClearP
  <2> QED BY <1>1, <2>1, CleanupFinish, BecomeKeeps
<1> QED BY <1>3, <1>4, <1>5

\* The generator starts one chunk read at a time.
LEMMA NextChunkKeeps ==
  ASSUME ProxyInv, NEW s \in Session, NextChunk(s)
  PROVE  ProxyInv'
<1> DEFINE c == ses[s]
           d == [c EXCEPT !.pc = "wait", !.chunk = "run"]
<1>1. Good(c) /\ c.pc \in {"handed", "yield"} /\ Become(s, d)
  BY DEF ProxyInv, NextChunk
<1>2. d \in Coroutine
  <2>1. c \in Coroutine
    BY <1>1 DEF Good
  <2>2. "run" \in TaskStates \cup {"eof"}
    BY DEF TaskStates
  <2> HIDE DEF c
  <2> QED BY <2>1, <2>2 DEF Coroutine
<1>3. PcOK(d)
  BY <1>1 DEF Good, PcOK, Coroutine, Putting, Generator
<1>4. FinalOK(d) /\ Ended(d)
  BY <1>1 DEF Good, FinalOK, Ended, Exchanged, Coroutine, Putting
<1> HIDE DEF d
<1> QED BY <1>1, <1>2, <1>3, <1>4, BecomeKeeps DEF Good

\* Each await of the generator's loop, and its cleanup.
LEMMA GeneratorKeeps ==
  ASSUME ProxyInv, NEW s \in Session,
         ChunkOrPrefill(s) \/ FirstTokenTimeout(s) \/ AwaitChunk(s) \/ DropChunk(s)
           \/ AwaitPrefill(s) \/ ReapP(s)
  PROVE  ProxyInv'
<1> DEFINE c == ses[s]
<1>1. Good(c) /\ c \in Coroutine /\ PcOK(c) /\ FinalOK(c)
  BY DEF ProxyInv, Good
<1>2. c.pc \in {"wait", "chunk", "dropChunk", "prefill", "reap"}
  BY DEF ChunkOrPrefill, FirstTokenTimeout, AwaitChunk, DropChunk, AwaitPrefill, ReapP
<1>3. c.headers = "ok" /\ c.chunk # "none" /\ (c.pc # "reap" => c.outcome = "none")
  BY <1>1, <1>2 DEF PcOK, FinalOK, Generator, Putting
<1>4. CASE ChunkOrPrefill(s)
  BY <1>1, <1>4, WokenGood, BecomeKeeps DEF ChunkOrPrefill
<1>5. CASE FirstTokenTimeout(s)
  <2>1. c.outcome = "none" /\ Become(s, Dropped(c, "timeout"))
    BY <1>3, <1>5 DEF FirstTokenTimeout
  <2> QED BY <1>1, <1>3, <2>1, DroppedGood, BecomeKeeps DEF Outcomes
<1>6. CASE AwaitChunk(s)
  <2>1. CASE c.chunk = "eof"
    <3>1. Become(s, Reap(c, "decode_error"))
      BY <1>6, <2>1 DEF AwaitChunk
    <3> QED BY <1>1, <1>3, <3>1, ReapGood, BecomeKeeps DEF Outcomes
  <2>2. CASE c.chunk # "eof"
    BY <1>1, <1>6, <2>2, TookGood, BecomeKeeps DEF AwaitChunk
  <2> QED BY <2>1, <2>2
<1>7. CASE DropChunk(s)
  <2>1. Become(s, Reap(c, c.ending)) /\ c.ending \in Outcomes \ {"none", "success"}
    BY <1>1, <1>7 DEF DropChunk, PcOK, FinalOK, Coroutine
  <2> QED BY <1>1, <1>3, <2>1, ReapGood, BecomeKeeps
<1>8. CASE AwaitPrefill(s)
  <2>1. CASE PrefillFailed(c)
    BY <1>1, <1>3, <1>8, <2>1, ReapGood, ErrorOutcomes, BecomeKeeps DEF AwaitPrefill
  <2>2. CASE ~PrefillFailed(c)
    <3>1. c.pc = "prefill" /\ c.prefill = "ok" /\ Become(s, Finished(c, "success", "putStream"))
      BY <1>8, <2>2 DEF AwaitPrefill, PrefillFailed
    <3>2. c.chunk = "eof" /\ c.ending # "success" /\ c.outcome = "none"
      BY <1>1, <1>3, <3>1 DEF PcOK, FinalOK
    <3> QED BY <1>1, <1>3, <3>1, <3>2, FirstFinish, BecomeKeeps DEF Putting, Outcomes, Live
  <2> QED BY <2>1, <2>2
<1>9. CASE ReapP(s)
  BY <1>1, <1>9, CleanupFinish, BecomeKeeps DEF ReapP
<1> QED BY <1>4, <1>5, <1>6, <1>7, <1>8, <1>9

\* The queue takes the record of a finalized request, which then leaves; a
\* record that precedes a raise is followed by _handle's cleanup.
LEMMA PutKeeps ==
  ASSUME ProxyInv, NEW s \in Session, Put(s)
  PROVE  ProxyInv'
<1> DEFINE c == ses[s]
           d == IF c.pc = "putRaise" THEN Clear(c, "decode_error") ELSE Leave(c)
<1>1. Good(c) /\ c.pc \in Putting /\ c.outcome # "none" /\ ses \in [Session -> Coroutine]
  BY DEF ProxyInv, ProxyTypeOK, Put, Good, PcOK
<1>2. Good(d) /\ Ended(d)
  <2>1. CASE c.pc = "putRaise"
    <3>1. c.outcome # "success" /\ c.client # "open"
      BY <1>1, <2>1 DEF Good, FinalOK
    <3> QED BY <1>1, <2>1, <3>1, ClearGood DEF Good, Outcomes
  <2>2. CASE c.pc # "putRaise"
    BY <1>1, <2>2, LeaveGood
  <2> QED BY <2>1, <2>2
<1>3. /\ ses' = [ses EXCEPT ![s] = d] /\ d \in Coroutine
      /\ UNCHANGED <<hit, writer, written, unwritten, closing>>
  BY <1>2 DEF Put, Good
<1>4. queue' \in Seq(Session \cup {"stop"}) /\ Len(queue') <= QueueSize
  <2>1. /\ queue \in Seq(Session \cup {"stop"}) /\ s \in Session \cup {"stop"}
        /\ Len(queue) < QueueSize /\ queue' = Append(queue, s)
    BY DEF ProxyInv, ProxyTypeOK, Put
  <2> QED BY <2>1, AppendProperties, LenProperties, ProxyAssumption
<1> HIDE DEF c, d
<1>5. ProxyTypeOK'
  BY <1>1, <1>3, <1>4 DEF ProxyInv, ProxyTypeOK
<1>6. ASSUME NEW x \in Session
      PROVE  Good(ses'[x]) /\ (Ended(ses'[x]) \/ x \in hit')
  BY <1>1, <1>2, <1>3 DEF ProxyInv
<1> QED BY <1>5, <1>6 DEF ProxyInv

\* A cancellation may end a coroutine without an outcome, and is remembered.
LEMMA CancelKeeps ==
  ASSUME ProxyInv, NEW s \in Session, Cancel(s)
  PROVE  ProxyInv'
<1> DEFINE d == Interrupted(ses[s])
<1>1. Good(d)
  BY InterruptedGood DEF ProxyInv, Cancel
<1>2. /\ ses' = [ses EXCEPT ![s] = d] /\ d \in Coroutine /\ ses \in [Session -> Coroutine]
      /\ hit' = hit \cup {s} /\ UNCHANGED <<writer, queue, written, unwritten, closing>>
  BY <1>1 DEF Cancel, Good, ProxyInv, ProxyTypeOK, writerVars
<1> HIDE DEF d
<1>3. ProxyTypeOK'
  BY <1>2 DEF ProxyInv, ProxyTypeOK
<1>4. ASSUME NEW x \in Session
      PROVE  Good(ses'[x]) /\ (Ended(ses'[x]) \/ x \in hit')
  BY <1>1, <1>2 DEF ProxyInv
<1> QED BY <1>3, <1>4 DEF ProxyInv

\* The end of a task is not a step of the coroutine that waits for it.
LEMMA TasksKeep ==
  ASSUME ProxyInv, NEW s \in Session, PrefillEnds(s) \/ HeadersEnd(s) \/ ChunkEnds(s)
  PROVE  ProxyInv'
<1> DEFINE c == ses[s]
<1>1. Good(c) /\ c \in Coroutine /\ (Ended(c) \/ s \in hit)
  BY DEF ProxyInv, Good
<1>2. ASSUME NEW d, Become(s, d), Good(d), d.pc = c.pc, d.outcome = c.outcome,
             Exchanged(d) => Exchanged(c)
      PROVE  ProxyInv'
  BY <1>1, <1>2, BecomeKeeps DEF Ended, Exchanged
<1>3. CASE PrefillEnds(s)
  <2>1. PICK e \in TaskStates \ {"none"} : Live(c.prefill) /\ Become(s, [c EXCEPT !.prefill = e])
    BY <1>3 DEF PrefillEnds, Ends, TaskStates
  <2>2. Good([c EXCEPT !.prefill = e])
    BY <1>1, <2>1, PrefillGood
  <2>3. [c EXCEPT !.prefill = e].pc = c.pc /\ [c EXCEPT !.prefill = e].outcome = c.outcome
    BY <1>1 DEF Coroutine
  <2>4. Exchanged(c)
    BY <2>1 DEF Exchanged, Live
  <2> QED BY <1>2, <2>1, <2>2, <2>3, <2>4
<1>4. CASE HeadersEnd(s)
  <2>1. PICK e \in TaskStates \cup {"bad"} :
          Live(c.headers) /\ ~Live(e) /\ Become(s, [c EXCEPT !.headers = e])
    BY <1>4 DEF HeadersEnd, Ends, TaskStates, Live
  <2>2. Good([c EXCEPT !.headers = e])
    BY <1>1, <2>1, HeadersGood
  <2>3. [c EXCEPT !.headers = e].pc = c.pc /\ [c EXCEPT !.headers = e].outcome = c.outcome
    BY <1>1 DEF Coroutine
  <2>4. Exchanged([c EXCEPT !.headers = e]) => Exchanged(c)
    BY <1>1 DEF Exchanged, Coroutine
  <2> QED BY <1>2, <2>1, <2>2, <2>3, <2>4
<1>5. CASE ChunkEnds(s)
  <2>1. PICK e \in (TaskStates \ {"none"}) \cup {"eof"} :
          /\ Live(c.chunk) /\ (e = "ok" => c.got < MaxChunks)
          /\ Become(s, [c EXCEPT !.chunk = e])
    BY <1>5 DEF ChunkEnds, Ends, TaskStates
  <2>2. Good([c EXCEPT !.chunk = e])
    BY <1>1, <2>1, ChunkGood
  <2>3. [c EXCEPT !.chunk = e].pc = c.pc /\ [c EXCEPT !.chunk = e].outcome = c.outcome
    BY <1>1 DEF Coroutine
  <2>4. Exchanged([c EXCEPT !.chunk = e]) => Exchanged(c)
    BY <1>1 DEF Exchanged, Coroutine
  <2> QED BY <1>2, <2>1, <2>2, <2>3, <2>4
<1> QED BY <1>3, <1>4, <1>5

\* The writer task touches no coroutine.
LEMMA WriterKeeps ==
  ASSUME ProxyInv, WriterTakes \/ WriterAppends
  PROVE  ProxyInv'
<1>1. ses' = ses /\ hit' = hit /\ closing' = closing
  BY DEF WriterTakes, WriterAppends
<1>2. CASE WriterTakes
  <2>1. /\ queue \in Seq(Session \cup {"stop"}) /\ queue # <<>> /\ queue' = Tail(queue)
        /\ Len(queue) <= QueueSize
    BY <1>2 DEF WriterTakes, ProxyInv, ProxyTypeOK
  <2>2. /\ Head(queue) \in Session \cup {"stop"} /\ queue' \in Seq(Session \cup {"stop"})
        /\ Len(queue') <= QueueSize
    BY <2>1, HeadTailProperties, LenProperties, ProxyAssumption
  <2>3. writer' \in Session \cup {"none", "idle", "ended"} /\ UNCHANGED <<written, unwritten>>
    BY <1>2, <2>2 DEF WriterTakes
  <2>4. ProxyTypeOK'
    BY <1>1, <2>2, <2>3 DEF ProxyInv, ProxyTypeOK
  <2> QED BY <1>1, <2>4 DEF ProxyInv
<1>3. CASE WriterAppends
  <2>1. ProxyTypeOK'
    BY <1>1, <1>3 DEF WriterAppends, ProxyInv, ProxyTypeOK
  <2> QED BY <1>1, <2>1 DEF ProxyInv
<1> QED BY <1>2, <1>3

\* close() cancels the prefill tasks it finds and waits for the writer.
LEMMA CloseKeeps ==
  ASSUME ProxyInv, CloseBegin \/ CloseGathered \/ CloseSentinel \/ CloseJoin
  PROVE  ProxyInv'
<1>1. CASE CloseBegin
  <2>1. ASSUME NEW x \in Session
        PROVE  Good(ses'[x]) /\ (Ended(ses'[x]) \/ x \in hit')
    <3> DEFINE c == ses[x]
    <3>1. Good(c) /\ c \in Coroutine /\ (Ended(c) \/ x \in hit) /\ hit' = hit
      BY <1>1 DEF CloseBegin, ProxyInv, Good
    <3>2. CASE c.prefill = "run"
      <4>1. ses'[x] \in {[c EXCEPT !.prefill = "cancelling"], c}
        BY <1>1, <3>2 DEF CloseBegin, Stop
      <4>2. Good([c EXCEPT !.prefill = "cancelling"])
        BY <3>1, <3>2, PrefillGood DEF Live, TaskStates
      <4>3. Ended([c EXCEPT !.prefill = "cancelling"]) \/ x \in hit
        BY <3>1, <3>2 DEF Ended, Exchanged, Coroutine
      <4> QED BY <3>1, <4>1, <4>2, <4>3
    <3>3. CASE c.prefill # "run"
      <4>1. [c EXCEPT !.prefill = c.prefill] = c
        BY <3>1 DEF Coroutine
      <4>2. ses'[x] = c
        BY <1>1, <3>3, <4>1 DEF CloseBegin, Stop
      <4> QED BY <3>1, <4>2
    <3> QED BY <3>2, <3>3
  <2>2. ses' \in [Session -> Coroutine]
    BY <1>1, <2>1 DEF CloseBegin, Good
  <2>3. ProxyTypeOK'
    BY <1>1, <2>2 DEF CloseBegin, ProxyInv, ProxyTypeOK
  <2> QED BY <2>1, <2>3 DEF ProxyInv
<1>2. CASE CloseGathered \/ CloseJoin
  <2>1. ProxyTypeOK' /\ ses' = ses /\ hit' = hit
    BY <1>2 DEF CloseGathered, CloseJoin, ProxyInv, ProxyTypeOK
  <2> QED BY <2>1 DEF ProxyInv
<1>3. CASE CloseSentinel
  <2>1. /\ queue \in Seq(Session \cup {"stop"}) /\ Len(queue) < QueueSize
        /\ queue' = Append(queue, "stop")
    BY <1>3 DEF CloseSentinel, ProxyInv, ProxyTypeOK
  <2>2. queue' \in Seq(Session \cup {"stop"}) /\ Len(queue') <= QueueSize
    BY <2>1, AppendProperties, LenProperties, ProxyAssumption
  <2>3. ProxyTypeOK' /\ ses' = ses /\ hit' = hit
    BY <1>3, <2>2 DEF CloseSentinel, ProxyInv, ProxyTypeOK
  <2> QED BY <2>3 DEF ProxyInv
<1> QED BY <1>1, <1>2, <1>3

\* No coroutine has begun.
LEMMA InitHolds == ProxyInit => ProxyInv
<1> SUFFICES ASSUME ProxyInit PROVE ProxyInv
  OBVIOUS
<1> DEFINE c == [pc |-> "none", prefill |-> "none", headers |-> "none", chunk |-> "none",
                 got |-> 0, pending |-> TRUE, ending |-> "none", outcome |-> "none",
                 known |-> FALSE, client |-> "none"]
<1>1. c \in Coroutine
  BY ProxyAssumption DEF Coroutine, TaskStates, Outcomes
<1>2. PcOK(c) /\ FinalOK(c) /\ Ended(c)
  BY DEF PcOK, FinalOK, Ended, Exchanged, Putting, Generator
<1>3. ses = [s \in Session |-> c]
  BY DEF ProxyInit
<1> HIDE DEF c
<1>4. <<>> \in Seq(Session \cup {"stop"}) /\ Len(<<>>) <= QueueSize
  BY ProxyAssumption, EmptySeq
<1>5. ProxyTypeOK
  BY <1>1, <1>3, <1>4 DEF ProxyInit, ProxyTypeOK
<1> QED BY <1>1, <1>2, <1>3, <1>5 DEF ProxyInv, Good

\* ProxyInv is inductive.
LEMMA StepKeeps == ProxyInv /\ [ProxyNext]_proxyVars => ProxyInv'
<1> SUFFICES ASSUME ProxyInv, [ProxyNext]_proxyVars PROVE ProxyInv'
  OBVIOUS
<1>1. CASE UNCHANGED proxyVars
  BY <1>1 DEF proxyVars, ProxyInv, ProxyTypeOK
<1>2. ASSUME NEW s \in Session,
             \/ Arrive(s) \/ Run(s) \/ FirstTokenTimeout(s) \/ Put(s) \/ Cancel(s)
             \/ PrefillEnds(s) \/ HeadersEnd(s) \/ ChunkEnds(s)
      PROVE  ProxyInv'
  <2>1. CASE Arrive(s) \/ FirstTokenTimeout(s) \/ Put(s) \/ Cancel(s)
    BY <2>1, ArriveKeeps, GeneratorKeeps, PutKeeps, CancelKeeps
  <2>2. CASE PrefillEnds(s) \/ HeadersEnd(s) \/ ChunkEnds(s)
    BY <2>2, TasksKeep
  <2>3. CASE Run(s)
    BY <2>3, ParseKeeps, FirstOfTwoKeeps, RefusalKeeps, AwaitDKeeps, HandleKeeps, NextChunkKeeps,
       GeneratorKeeps DEF Run
  <2> QED BY <1>2, <2>1, <2>2, <2>3
<1>3. CASE WriterTakes \/ WriterAppends
  BY <1>3, WriterKeeps
<1>4. CASE CloseBegin \/ CloseGathered \/ CloseSentinel \/ CloseJoin
  BY <1>4, CloseKeeps
<1> QED BY <1>1, <1>2, <1>3, <1>4 DEF ProxyNext

\* ProxyInv always holds.
LEMMA ProxyInvariant == ProxySpec => []ProxyInv
<1> QED BY InitHolds, StepKeeps, PTL DEF ProxySpec

-----------------------------------------------------------------------------
\* The records stay in their types: no chunk beyond the bound is counted,
\* and the metrics queue never grows past its size.
THEOREM ProxyTypes == ProxySpec => []ProxyTypeOK
<1>1. ProxyInv => ProxyTypeOK
  BY DEF ProxyInv
<1> QED BY <1>1, ProxyInvariant, PTL

\* A request is recorded as a success only if P's request succeeded, D
\* answered 2xx and D's body was read to its end, in whichever order the
\* three came about and whatever was cancelled in between.
THEOREM SuccessNeedsBoth == ProxySpec => []SuccessMeansBoth
<1>1. ProxyInv => SuccessMeansBoth
  BY DEF ProxyInv, Good, FinalOK, SuccessMeansBoth
<1> QED BY <1>1, ProxyInvariant, PTL

\* A coroutine that ends after it was finalized, or that began its exchange
\* with P and was not cancelled, has an outcome and leaves no task of P or of
\* D's headers running, no open client and no entry in the session table.
THEOREM EndsClean == ProxySpec => []LeavesNothing
<1>1. ProxyInv => LeavesNothing
  BY DEF ProxyInv, Good, FinalOK, Ended, Exchanged, LeavesNothing
<1> QED BY <1>1, ProxyInvariant, PTL
-----------------------------------------------------------------------------
(***************************************************************************)
(* Every request leaves one record.  Past(c) holds once _finish has handed *)
(* the record over, and for good; before that there is no record of the    *)
(* request anywhere between the queue and the file.                        *)
(***************************************************************************)
Past(c) == c.outcome # "none" /\ c.pc \notin Putting

Positions(q, x) == {i \in DOMAIN q : q[i] = x}

Records(s) ==
  written[s] + Cardinality(Positions(queue, s)) + (IF writer = s THEN 1 ELSE 0)
    + (IF s \in unwritten THEN 1 ELSE 0)

RecordInv ==
  \A s \in Session : Records(s) <= 1 /\ (~Past(ses[s]) => Records(s) = 0)

\* RecordedOnce counts the writer and the failures as sets.
LEMMA RecordsCount ==
  ASSUME NEW s
  PROVE  /\ Cardinality({w \in {writer} : w = s}) = IF writer = s THEN 1 ELSE 0
         /\ Cardinality({u \in unwritten : u = s}) = IF s \in unwritten THEN 1 ELSE 0
<1>1. {w \in {writer} : w = s} = IF writer = s THEN {s} ELSE {}
  OBVIOUS
<1>2. {u \in unwritten : u = s} = IF s \in unwritten THEN {s} ELSE {}
  OBVIOUS
<1> QED BY <1>1, <1>2, FS_Singleton, FS_EmptySet

\* The places of a record in the queue can be counted.
LEMMA QueuedFinite ==
  ASSUME NEW S, NEW q \in Seq(S), NEW x
  PROVE  /\ IsFiniteSet(Positions(q, x))
         /\ Cardinality(Positions(q, x)) \in Nat
<1>1. DOMAIN q = 1 .. Len(q) /\ Len(q) \in Nat
  BY LenProperties
<1>2. IsFiniteSet(Positions(q, x))
  <2>1. Positions(q, x) \in SUBSET (1 .. Len(q)) /\ IsFiniteSet(1 .. Len(q))
    BY <1>1, FS_Interval DEF Positions
  <2> QED BY <2>1, FS_Subset
<1> QED BY <1>2, FS_CardinalityType

\* Putting a record in the queue adds one place of that record.
LEMMA CountAppend ==
  ASSUME NEW S, NEW q \in Seq(S), NEW e \in S, NEW x
  PROVE  Cardinality(Positions(Append(q, e), x)) =
           Cardinality(Positions(q, x)) + (IF e = x THEN 1 ELSE 0)
<1> DEFINE old == Positions(q, x)
           new == Positions(Append(q, e), x)
<1>1. Len(q) \in Nat /\ DOMAIN q = 1 .. Len(q) /\ DOMAIN Append(q, e) = 1 .. Len(q) + 1
  BY LenProperties, AppendProperties
<1>2. \A i \in 1 .. Len(q) + 1 : Append(q, e)[i] = IF i = Len(q) + 1 THEN e ELSE q[i]
  BY <1>1, AppendProperties
<1>3. new = IF e = x THEN old \cup {Len(q) + 1} ELSE old
  BY <1>1, <1>2 DEF Positions
<1>4. Len(q) + 1 \notin old
  BY <1>1 DEF Positions
<1>5. IsFiniteSet(old) /\ Cardinality(old) \in Nat
  BY QueuedFinite
<1> HIDE DEF old, new
<1>6. Cardinality(new) = Cardinality(old) + (IF e = x THEN 1 ELSE 0)
  <2>1. Cardinality(old \cup {Len(q) + 1}) = Cardinality(old) + 1
    BY <1>4, <1>5, FS_AddElement
  <2> QED BY <1>3, <1>5, <2>1
<1> QED BY <1>6 DEF old, new

\* Taking the first record removes one place of that record.
LEMMA CountTail ==
  ASSUME NEW S, NEW q \in Seq(S), q # <<>>, NEW x
  PROVE  Cardinality(Positions(q, x)) =
           Cardinality(Positions(Tail(q), x)) + (IF Head(q) = x THEN 1 ELSE 0)
<1> DEFINE old  == Positions(q, x)
           new  == Positions(Tail(q), x)
           rest == old \ {1}
           f    == [i \in new |-> i + 1]
<1>1. /\ Len(q) \in Nat \ {0} /\ DOMAIN q = 1 .. Len(q)
      /\ DOMAIN Tail(q) = 1 .. Len(q) - 1 /\ Head(q) = q[1]
      /\ \A i \in 1 .. Len(q) - 1 : Tail(q)[i] = q[i + 1]
  BY LenProperties, HeadTailProperties, EmptySeq
<1>2. IsFiniteSet(new) /\ Cardinality(new) \in Nat /\ IsFiniteSet(old) /\ Cardinality(old) \in Nat
  BY QueuedFinite, HeadTailProperties
<1>3. f \in [new -> rest]
  BY <1>1 DEF Positions
<1>4. \A i, j \in new : f[i] = f[j] => i = j
  BY <1>1 DEF Positions
<1>5. \A j \in rest : \E i \in new : f[i] = j
  <2> SUFFICES ASSUME NEW j \in rest PROVE \E i \in new : f[i] = j
    OBVIOUS
  <2>1. j - 1 \in new /\ f[j - 1] = j
    BY <1>1 DEF Positions
  <2> QED BY <2>1
<1> HIDE DEF f, new, old, rest
<1>6. Cardinality(rest) = Cardinality(new)
  <2>1. f \in Bijection(new, rest)
    BY <1>3, <1>4, <1>5, Fun_IsBij
  <2> QED BY <1>2, <2>1, Fun_ExistsBij, FS_Bijection
<1>7. Cardinality(rest) = IF Head(q) = x THEN Cardinality(old) - 1 ELSE Cardinality(old)
  <2>1. 1 \in old <=> Head(q) = x
    BY <1>1 DEF old, Positions
  <2> QED BY <1>2, <2>1, FS_RemoveElement DEF rest
<1>8. Cardinality(old) = Cardinality(new) + (IF Head(q) = x THEN 1 ELSE 0)
  BY <1>2, <1>6, <1>7
<1> QED BY <1>8 DEF old, new

\* The cleanup of a finalized request, and its cancellation, do not write a
\* second record.
LEMMA PastStays ==
  ASSUME ProxyInv, NEW s \in Session, NEW x \in Session, Past(ses[x]),
         \/ Arrive(s) \/ Run(s) \/ FirstTokenTimeout(s) \/ Put(s) \/ Cancel(s)
         \/ PrefillEnds(s) \/ HeadersEnd(s) \/ ChunkEnds(s)
  PROVE  Past(ses'[x])
<1> DEFINE c == ses[x]
<1>1. /\ c \in Coroutine /\ ses \in [Session -> Coroutine] /\ c.outcome # "none"
      /\ c.pc \in {"clearD", "clearP", "reap", "done"}
  BY DEF ProxyInv, ProxyTypeOK, Good, FinalOK, Past
<1>2. CASE x # s
  <2>1. ses'[x] = ses[x]
    BY <1>1, <1>2 DEF Become, Arrive, Run, Parse, FirstOfTwo, Killed, AwaitD, ReadBadBody, ReapBad,
       ClearD, ClearP, NextChunk, ChunkOrPrefill, AwaitChunk, DropChunk, AwaitPrefill, ReapP,
       FirstTokenTimeout, Put, Cancel, PrefillEnds, HeadersEnd, ChunkEnds
  <2> QED BY <2>1
<1>3. CASE x = s
  <2>1. ASSUME NEW d, Become(s, d), Past(d)
        PROVE  Past(ses'[x])
    BY <1>1, <1>3, <2>1 DEF Become
  <2>2. CASE ClearD(s)
    <3>1. Past([c EXCEPT !.pc = "clearP", !.prefill = Stop(@)])
      BY <1>1 DEF Past, Coroutine, Putting
    <3> QED BY <1>3, <2>1, <2>2, <3>1 DEF ClearD
  <2>3. CASE ClearP(s) \/ ReapP(s)
    <3>1. Past(Finished(Closed(c), c.ending, "put")) /\ Past(Finished(c, c.ending, "put"))
      BY <1>1 DEF Past, Coroutine, Putting, Finished, Leave, Closed
    <3> QED BY <1>3, <2>1, <2>3, <3>1 DEF ClearP, ReapP
  <2>4. CASE Cancel(s)
    <3>1. Interrupted(c) \in {[c EXCEPT !.pc = "done"], Leave(c)}
      BY <1>1, <1>3, <2>4 DEF Cancel, Interrupted
    <3>2. Past([c EXCEPT !.pc = "done"]) /\ Past(Leave(c))
      BY <1>1 DEF Past, Coroutine, Putting, Leave
    <3> QED BY <1>1, <1>3, <2>4, <3>1, <3>2 DEF Cancel
  <2>5. CASE PrefillEnds(s) \/ HeadersEnd(s) \/ ChunkEnds(s)
    <3>1. \A e : /\ Past([c EXCEPT !.prefill = e]) /\ Past([c EXCEPT !.headers = e])
                 /\ Past([c EXCEPT !.chunk = e])
      BY <1>1 DEF Past, Coroutine
    <3> QED BY <1>3, <2>1, <2>5, <3>1 DEF PrefillEnds, HeadersEnd, ChunkEnds
  <2>6. ~(Arrive(s) \/ FirstTokenTimeout(s) \/ Put(s))
    BY <1>1, <1>3 DEF Past, Arrive, FirstTokenTimeout, Put
  <2>7. CASE Run(s)
    BY <1>1, <1>3, <2>2, <2>3, <2>7
       DEF Run, Parse, FirstOfTwo, Killed, AwaitD, ReadBadBody, ReapBad, NextChunk,
           ChunkOrPrefill, AwaitChunk, DropChunk, AwaitPrefill
  <2> QED BY <2>4, <2>5, <2>6, <2>7
<1> QED BY <1>2, <1>3

\* A step that leaves queue, writer and file alone.
LEMMA QuietRecords ==
  ASSUME ProxyInv, RecordInv, \A x \in Session : Past(ses[x]) => Past(ses'[x]),
         UNCHANGED <<queue, written, unwritten>>,
         \A x \in Session : writer' = x <=> writer = x
  PROVE  RecordInv'
BY DEF RecordInv, Records, Positions

\* A record is added once, and only moves from the queue to the file.
LEMMA RecordStep == ProxyInv /\ RecordInv /\ [ProxyNext]_proxyVars => RecordInv'
<1> SUFFICES ASSUME ProxyInv, RecordInv, [ProxyNext]_proxyVars PROVE RecordInv'
  OBVIOUS
<1>1. CASE UNCHANGED proxyVars
  BY <1>1, QuietRecords DEF proxyVars
<1>2. ASSUME NEW s \in Session,
             \/ Arrive(s) \/ Run(s) \/ FirstTokenTimeout(s) \/ Cancel(s)
             \/ PrefillEnds(s) \/ HeadersEnd(s) \/ ChunkEnds(s)
      PROVE  RecordInv'
  <2>1. \A x \in Session : Past(ses[x]) => Past(ses'[x])
    BY <1>2, PastStays
  <2>2. /\ UNCHANGED <<queue, written, unwritten>>
        /\ writer' = writer \/ (writer = "none" /\ writer' = "idle")
    BY <1>2 DEF Become, writerVars, Arrive, Run, Parse, FirstOfTwo, Killed, AwaitD, ReadBadBody,
       ReapBad, ClearD, ClearP, NextChunk, ChunkOrPrefill, AwaitChunk, DropChunk, AwaitPrefill,
       ReapP, FirstTokenTimeout, Cancel, PrefillEnds, HeadersEnd, ChunkEnds
  <2> QED BY <2>1, <2>2, QuietRecords, ProxyAssumption
<1>3. ASSUME NEW s \in Session, Put(s)
      PROVE  RecordInv'
  <2>1. /\ queue \in Seq(Session \cup {"stop"}) /\ queue' = Append(queue, s)
        /\ UNCHANGED <<writer, written, unwritten>>
    BY <1>3 DEF Put, ProxyInv, ProxyTypeOK
  <2>2. \A x \in Session : Past(ses[x]) => Past(ses'[x])
    BY <1>3, PastStays
  <2>3. ~Past(ses[s]) /\ Past(ses'[s])
    <3>1. /\ ses[s] \in Coroutine /\ ses[s].pc \in Putting /\ ses[s].outcome # "none"
          /\ ses \in [Session -> Coroutine]
      BY <1>3 DEF Put, ProxyInv, ProxyTypeOK, Good, PcOK
    <3>2. Past(Clear(ses[s], "decode_error")) /\ Past(Leave(ses[s]))
      BY <3>1 DEF Past, Clear, Leave, Coroutine, Putting
    <3> QED BY <1>3, <3>1, <3>2 DEF Put, Past
  <2>4. ASSUME NEW x \in Session
        PROVE  /\ Cardinality(Positions(queue', x)) =
                    Cardinality(Positions(queue, x)) + (IF s = x THEN 1 ELSE 0)
               /\ Cardinality(Positions(queue, x)) \in Nat /\ written[x] \in Nat
    <3>1. s \in Session \cup {"stop"}
      OBVIOUS
    <3>2. Cardinality(Positions(queue, x)) \in Nat /\ written[x] \in Nat
      BY <2>1, QueuedFinite DEF ProxyInv, ProxyTypeOK
    <3> QED BY <2>1, <3>1, <3>2, CountAppend
  <2>5. ASSUME NEW x \in Session
        PROVE  Records(x)' = Records(x) + (IF s = x THEN 1 ELSE 0)
    <3> DEFINE taken  == IF writer = x THEN 1 ELSE 0
               failed == IF x \in unwritten THEN 1 ELSE 0
    <3>1. Records(x) = written[x] + Cardinality(Positions(queue, x)) + taken + failed
      BY DEF Records
    <3>2. Records(x)' = written[x] + Cardinality(Positions(queue', x)) + taken + failed
      <4>1. written' = written /\ writer' = writer /\ unwritten' = unwritten
        BY <2>1
      <4> QED BY <4>1 DEF Records
    <3>3. taken \in Nat /\ failed \in Nat
      OBVIOUS
    <3>4. /\ Cardinality(Positions(queue', x)) =
               Cardinality(Positions(queue, x)) + (IF s = x THEN 1 ELSE 0)
          /\ Cardinality(Positions(queue, x)) \in Nat /\ written[x] \in Nat
      BY <2>4
    <3> HIDE DEF taken, failed
    <3> QED BY <3>1, <3>2, <3>3, <3>4
  <2>6. ASSUME NEW x \in Session
        PROVE  Records(x)' <= 1 /\ (~Past(ses'[x]) => Records(x)' = 0)
    <3>1. CASE x = s
      BY <2>3, <2>5, <3>1 DEF RecordInv
    <3>2. CASE x # s
      <4>1. Records(x)' = Records(x)
        BY <2>4, <2>5, <3>2 DEF Records
      <4> QED BY <2>2, <4>1 DEF RecordInv
    <3> QED BY <3>1, <3>2
  <2> QED BY <2>6 DEF RecordInv
<1>4. CASE WriterTakes
  <2>1. /\ queue \in Seq(Session \cup {"stop"}) /\ queue # <<>> /\ queue' = Tail(queue)
        /\ writer = "idle" /\ UNCHANGED <<ses, written, unwritten>>
        /\ \A x \in Session : writer' = x <=> Head(queue) = x
    BY <1>4, ProxyAssumption DEF WriterTakes, ProxyInv, ProxyTypeOK
  <2>2. ASSUME NEW x \in Session
        PROVE  /\ Cardinality(Positions(queue, x)) =
                    Cardinality(Positions(queue', x)) + (IF Head(queue) = x THEN 1 ELSE 0)
               /\ Cardinality(Positions(queue, x)) \in Nat
               /\ Cardinality(Positions(queue', x)) \in Nat
               /\ written[x] \in Nat
    <3>1. Tail(queue) \in Seq(Session \cup {"stop"})
      BY <2>1, HeadTailProperties
    <3> QED BY <2>1, <3>1, CountTail, QueuedFinite DEF ProxyInv, ProxyTypeOK
  <2>3. ASSUME NEW x \in Session
        PROVE  Records(x)' = Records(x)
    BY <2>1, <2>2, ProxyAssumption DEF Records
  <2> QED BY <2>1, <2>3 DEF RecordInv
<1>5. CASE WriterAppends
  <2>1. writer \in Session /\ writer' = "idle" /\ UNCHANGED <<ses, queue>>
    BY <1>5 DEF WriterAppends
  <2>2. ASSUME NEW x \in Session
        PROVE  Records(x)' = Records(x)
    <3>1. /\ Cardinality(Positions(queue, x)) \in Nat /\ written[x] \in Nat
          /\ Positions(queue', x) = Positions(queue, x)
      BY <2>1, QueuedFinite DEF ProxyInv, ProxyTypeOK
    <3>2. writer = x => x \notin unwritten
      BY <3>1 DEF RecordInv, Records
    <3>3. \/ /\ written'[x] = written[x] + (IF writer = x THEN 1 ELSE 0)
             /\ (x \in unwritten' <=> x \in unwritten)
          \/ /\ written'[x] = written[x]
             /\ (x \in unwritten' <=> x \in unwritten \/ writer = x)
      BY <1>5, <3>1 DEF WriterAppends, ProxyInv, ProxyTypeOK
    <3> QED BY <2>1, <3>1, <3>2, <3>3, ProxyAssumption DEF Records
  <2> QED BY <2>1, <2>2 DEF RecordInv
<1>6. CASE CloseBegin
  <2>1. ASSUME NEW x \in Session, Past(ses[x])
        PROVE  Past(ses'[x])
    <3>1. ses[x] \in Coroutine /\ ses'[x] \in {ses[x], [ses[x] EXCEPT !.prefill = Stop(@)]}
      BY <1>6 DEF CloseBegin, ProxyInv, Good
    <3> QED BY <2>1, <3>1 DEF Past, Coroutine
  <2> QED BY <1>6, <2>1, QuietRecords DEF CloseBegin
<1>7. CASE CloseGathered
  BY <1>7, QuietRecords DEF CloseGathered
<1>8. CASE CloseJoin
  BY <1>8, QuietRecords, ProxyAssumption DEF CloseJoin
<1>9. CASE CloseSentinel
  <2>1. /\ queue \in Seq(Session \cup {"stop"}) /\ queue' = Append(queue, "stop")
        /\ UNCHANGED <<ses, writer, written, unwritten>>
    BY <1>9 DEF CloseSentinel, ProxyInv, ProxyTypeOK
  <2>2. ASSUME NEW x \in Session
        PROVE  Cardinality(Positions(queue', x)) = Cardinality(Positions(queue, x))
    <3>1. /\ x # "stop" /\ "stop" \in Session \cup {"stop"}
          /\ Cardinality(Positions(queue, x)) \in Nat
      BY <2>1, QueuedFinite, ProxyAssumption
    <3> QED BY <2>1, <3>1, CountAppend
  <2> QED BY <2>1, <2>2 DEF RecordInv, Records
<1> QED BY <1>1, <1>2, <1>3, <1>4, <1>5, <1>6, <1>7, <1>8, <1>9 DEF ProxyNext

\* However a request is finalized, by an inner and an outer except clause or
\* by a cancellation after its success, its record is written at most once.
THEOREM OneRecord == ProxySpec => []RecordedOnce
<1>1. ProxyInit => RecordInv
  <2> SUFFICES ASSUME ProxyInit, NEW s \in Session PROVE Records(s) = 0
    BY DEF RecordInv
  <2>1. Positions(queue, s) = {}
    BY DEF ProxyInit, Positions
  <2>2. Cardinality(Positions(queue, s)) = 0
    BY <2>1, FS_EmptySet
  <2>3. written[s] = 0 /\ writer # s /\ s \notin unwritten
    BY ProxyAssumption DEF ProxyInit
  <2> QED BY <2>2, <2>3 DEF Records
<1>2. RecordInv => RecordedOnce
  BY RecordsCount DEF RecordInv, Records, Positions, RecordedOnce
<1>3. ProxySpec => []RecordInv
  BY <1>1, ProxyInvariant, RecordStep, PTL DEF ProxySpec
<1> QED BY <1>2, <1>3, PTL
=============================================================================
