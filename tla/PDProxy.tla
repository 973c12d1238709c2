------------------------------ MODULE PDProxy ------------------------------
(***************************************************************************)
(* The proxy: one coroutine per request races a prefill request to P with  *)
(* a decode request to D, streams D's body to the client, and leaves one   *)
(* metrics record that a writer task appends to a file.                    *)
(*                                                                         *)
(* ses[s] is a coroutine with the tasks it owns.  Its pc names the await   *)
(* it is suspended at; a step runs to the next await, as asyncio does:     *)
(*                                                                         *)
(*   json       raw_request.json()                                         *)
(*   headers    wait for P or for D's headers, whichever is first          *)
(*   awaitD     D's headers                                                *)
(*   kill       P failed: the headers task is being cancelled              *)
(*   badBody    body of a non-2xx answer of D                              *)
(*   reapBad    ... and the end of P                                       *)
(*   clearD, clearP   _handle's except clause: the end of D, then of P     *)
(*   handed     the StreamingResponse is returned, its generator not begun *)
(*   wait       next chunk, or P while it is pending, or the deadline      *)
(*   chunk      next chunk alone                                           *)
(*   dropChunk  a chunk read that is being cancelled                       *)
(*   yield      the client takes a chunk                                   *)
(*   prefill    the end of P after the end of the body                     *)
(*   reap       _stream_decode's except clauses: the end of P              *)
(*   put, putTry, putRaise, putStream   room in the metrics queue: outside *)
(*              every try, inside _handle's, the same before a raise, and  *)
(*              inside _stream_decode's                                    *)
(*                                                                         *)
(* client.close() is taken not to wait.  Metrics are on.                   *)
(***************************************************************************)
EXTENDS Naturals, Sequences, FiniteSets

CONSTANTS
  Session,
  Malformed,   \* the requests that the content type check refuses
  QueueSize,   \* of the metrics queue
  MaxChunks    \* bound: chunks of one body

ASSUME ProxyAssumption ==
  /\ QueueSize \in Nat \ {0} /\ MaxChunks \in Nat /\ Malformed \subseteq Session
  /\ Session \cap {"stop", "none", "idle", "ended"} = {}

VARIABLES
  ses,       \* s |-> the coroutine of a request
  hit,       \* requests whose coroutine was cancelled (bound: once each)
  queue,     \* metrics queue: sessions, and "stop" of close()
  writer,    \* writer task: none, idle, ended, or the record it appends
  written,   \* s |-> lines of s in the metrics file
  unwritten, \* sessions whose line could not be appended
  closing    \* close(): up, gather, sentinel, join, down

writerVars == <<queue, written, unwritten, closing>>
proxyVars  == <<ses, hit, queue, writer, written, unwritten, closing>>

Live(task) == task \in {"run", "cancelling"}
Stop(task) == IF task = "run" THEN "cancelling" ELSE task
Putting == {"put", "putTry", "putRaise", "putStream"}

TaskStates == {"none", "run", "cancelling", "ok", "failed", "timeout", "cancelled"}
Outcomes == {"none", "success", "client_cancelled", "timeout", "proxy_error",
             "prefill_error", "decode_error"}

\* A request's coroutine, with the session record it keeps.
Coroutine ==
  [pc      : {"none", "json", "headers", "awaitD", "kill", "badBody", "reapBad", "clearD",
              "clearP", "handed", "wait", "chunk", "dropChunk", "yield", "prefill",
              "reap", "done"} \cup Putting,
   prefill : TaskStates,
   headers : TaskStates \cup {"bad"},
   chunk   : TaskStates \cup {"eof"},
   got     : 0 .. MaxChunks,      \* chunks taken; 0 is decode_first_chunk_at is None
   pending : BOOLEAN,             \* pending_prefill is not None
   ending  : Outcomes,            \* of the exception that is being handled
   outcome : Outcomes,            \* none is request_end_at is None
   known   : BOOLEAN,             \* in self.sessions
   client  : {"none", "open", "closed"}]

ProxyTypeOK ==
  /\ ses \in [Session -> Coroutine]
  /\ hit \subseteq Session
  /\ queue \in Seq(Session \cup {"stop"}) /\ Len(queue) <= QueueSize
  /\ writer \in Session \cup {"none", "idle", "ended"}
  /\ written \in [Session -> Nat] /\ unwritten \subseteq Session
  /\ closing \in {"up", "gather", "sentinel", "join", "down"}

-----------------------------------------------------------------------------
(* Steps of a coroutine, as functions of its record. *)

\* The except clauses.  _handle's cancels D's headers, then P; the
\* generator's cancels P and leaves a chunk read alone.
Clear(c, o) == [c EXCEPT !.pc = "clearD", !.ending = o, !.headers = Stop(@)]
Reap(c, o)  == [c EXCEPT !.pc = "reap", !.ending = o, !.prefill = Stop(@)]

\* The end of the coroutine; the generator's finally closes the client.
Leave(c) == [c EXCEPT !.pc = "done", !.client = IF c.chunk = "none" THEN @ ELSE "closed"]

Closed(c) == [c EXCEPT !.client = "closed"]

\* Mutant: no once guard.
FinishedTwice(c, o, at) == [c EXCEPT !.outcome = o, !.known = FALSE, !.pc = at]

\* _finish, with its once guard; its record is written at the pc `at`.
Finished(c, o, at) ==
  IF c.outcome # "none" THEN Leave(c)
  ELSE [c EXCEPT !.outcome = o, !.known = FALSE, !.pc = at]

\* isinstance(exc, TimeoutError)
ErrorOutcome(how, otherwise) == IF how = "timeout" THEN "timeout" ELSE otherwise

\* What `await pending_prefill` raises in the generator, where a cancelled P
\* cannot be told from a cancelled generator.
PrefillError(c) ==
  IF c.prefill = "cancelled" THEN "client_cancelled" ELSE ErrorOutcome(c.prefill, "prefill_error")

PrefillFailed(c) == ~Live(c.prefill) /\ c.prefill # "ok"

\* D's headers task is over.
Answered(c) ==
  CASE c.headers = "bad" -> [c EXCEPT !.pc = "badBody"]
    [] c.headers = "ok" ->
         IF PrefillFailed(c) THEN Finished(Closed(c), "prefill_error", "putTry")
         ELSE [c EXCEPT !.pc = "handed"]
    [] OTHER -> Clear(c, ErrorOutcome(c.headers, "decode_error"))

\* Mutant: the end of the body is a success, whatever becomes of P.
TookEofAsSuccess(c) ==
  CASE c.chunk = "ok"  -> [c EXCEPT !.got = @ + 1, !.pc = "yield"]
    [] c.chunk = "eof" -> Finished(c, "success", "putStream")
    [] OTHER -> Reap(c, ErrorOutcome(c.chunk, "decode_error"))

\* next_chunk.result(): a chunk, the end of the body, or an error.
Took(c) ==
  CASE c.chunk = "ok"  -> [c EXCEPT !.got = @ + 1, !.pc = "yield"]
    [] c.chunk = "eof" -> IF c.pending THEN [c EXCEPT !.pc = "prefill"]
                          ELSE Finished(c, "success", "putStream")
    [] OTHER -> Reap(c, ErrorOutcome(c.chunk, "decode_error"))

\* A failed P ends the stream, once the chunk read has been cancelled.
Dropped(c, o) ==
  IF Live(c.chunk) THEN [c EXCEPT !.pc = "dropChunk", !.ending = o, !.chunk = Stop(@)]
  ELSE Reap(c, o)

\* asyncio.wait returned: P is looked at first, then the chunk.
Woken(c) ==
  LET over == c.pending /\ ~Live(c.prefill)
      c1 == IF over THEN [c EXCEPT !.pending = FALSE] ELSE c
  IN IF over /\ PrefillFailed(c) THEN Dropped(c, PrefillError(c))
     ELSE IF Live(c1.chunk) THEN [c1 EXCEPT !.pc = "chunk"] ELSE Took(c1)

-----------------------------------------------------------------------------
(* The actions of a request.  A record that _finish hands over starts the  *)
(* writer task if there is none.                                           *)

Become(s, c) ==
  /\ ses' = [ses EXCEPT ![s] = c]
  /\ writer' = IF writer = "none" /\ c.pc \in Putting THEN "idle" ELSE writer
  /\ UNCHANGED <<hit, writerVars>>

Arrive(s) ==
  LET c == [ses[s] EXCEPT !.known = TRUE, !.pc = "json"]
  IN /\ ses[s].pc = "none" /\ closing = "up"
     /\ Become(s, IF s \in Malformed THEN Finished(c, "proxy_error", "put") ELSE c)

Parse(s) ==
  /\ ses[s].pc = "json"
  /\ \/ Become(s, [ses[s] EXCEPT !.pc = "headers", !.prefill = "run", !.headers = "run",
                                 !.client = "open"])
     \/ Become(s, Finished(ses[s], "proxy_error", "put"))   \* not a JSON object
     \/ Become(s, [ses[s] EXCEPT !.pc = "done"])            \* _prefill_body raises, outside any try

FirstOfTwo(s) ==
  LET c == ses[s]
  IN /\ c.pc = "headers" /\ ~(Live(c.prefill) /\ Live(c.headers))
     /\ Become(s, IF PrefillFailed(c) THEN [c EXCEPT !.pc = "kill", !.headers = Stop(@)]
                  ELSE IF Live(c.headers) THEN [c EXCEPT !.pc = "awaitD"]
                  ELSE Answered(c))

\* The except clause re-raises a CancelledError of P.
Killed(s) ==
  LET c == ses[s]
  IN /\ c.pc = "kill" /\ ~Live(c.headers)
     /\ Become(s, Finished(Closed(c), "prefill_error",
                           IF c.prefill = "cancelled" THEN "putRaise" ELSE "putTry"))

AwaitD(s) == ses[s].pc = "awaitD" /\ ~Live(ses[s].headers) /\ Become(s, Answered(ses[s]))

ReadBadBody(s) ==
  /\ ses[s].pc = "badBody"
  /\ \/ Become(s, [ses[s] EXCEPT !.pc = "reapBad", !.prefill = Stop(@)])
     \/ \E how \in {"failed", "timeout"} : Become(s, Clear(ses[s], ErrorOutcome(how, "decode_error")))

ReapBad(s) ==
  /\ ses[s].pc = "reapBad" /\ ~Live(ses[s].prefill)
  /\ Become(s, Finished(Closed(ses[s]), "decode_error", "putTry"))

ClearD(s) ==
  /\ ses[s].pc = "clearD" /\ ~Live(ses[s].headers)
  /\ Become(s, [ses[s] EXCEPT !.pc = "clearP", !.prefill = Stop(@)])

ClearP(s) ==
  /\ ses[s].pc = "clearP" /\ ~Live(ses[s].prefill)
  /\ Become(s, Finished(Closed(ses[s]), ses[s].ending, "put"))

\* The generator's first step, and each of the next: read one more chunk.
NextChunk(s) ==
  /\ ses[s].pc \in {"handed", "yield"}
  /\ Become(s, [ses[s] EXCEPT !.pc = "wait", !.chunk = "run"])

ChunkOrPrefill(s) ==
  LET c == ses[s]
  IN /\ c.pc = "wait" /\ (~Live(c.chunk) \/ (c.pending /\ ~Live(c.prefill)))
     /\ Become(s, Woken(c))

FirstTokenTimeout(s) ==
  LET c == ses[s]
  IN /\ c.pc = "wait" /\ c.got = 0 /\ Live(c.chunk) /\ ~(c.pending /\ ~Live(c.prefill))
     /\ Become(s, Dropped(c, "timeout"))

\* `await next_chunk` outside the try for StopAsyncIteration.
AwaitChunk(s) ==
  LET c == ses[s]
  IN /\ c.pc = "chunk" /\ ~Live(c.chunk)
     /\ Become(s, IF c.chunk = "eof" THEN Reap(c, "decode_error") ELSE Took(c))

DropChunk(s) ==
  /\ ses[s].pc = "dropChunk" /\ ~Live(ses[s].chunk)
  /\ Become(s, Reap(ses[s], ses[s].ending))

AwaitPrefill(s) ==
  LET c == ses[s]
  IN /\ c.pc = "prefill" /\ ~Live(c.prefill)
     /\ Become(s, IF PrefillFailed(c) THEN Reap(c, PrefillError(c))
                  ELSE Finished(c, "success", "putStream"))

\* Mutant: P is cancelled and not waited for.
ReapAtOnce(s) == ses[s].pc = "reap" /\ Become(s, Finished(ses[s], ses[s].ending, "put"))

ReapP(s) ==
  /\ ses[s].pc = "reap" /\ ~Live(ses[s].prefill)
  /\ Become(s, Finished(ses[s], ses[s].ending, "put"))

\* Mutant: the queue has no bound.
PutOver(s) ==
  LET c == ses[s]
  IN /\ c.pc \in Putting /\ Len(queue) <= QueueSize
     /\ queue' = Append(queue, s)
     /\ ses' = [ses EXCEPT ![s] = IF c.pc = "putRaise" THEN Clear(c, "decode_error") ELSE Leave(c)]
     /\ UNCHANGED <<hit, writer, written, unwritten, closing>>

\* JsonlMetricsWriter.write: queue.put waits for room.
Put(s) ==
  LET c == ses[s]
  IN /\ c.pc \in Putting /\ Len(queue) < QueueSize
     /\ queue' = Append(queue, s)
     /\ ses' = [ses EXCEPT ![s] = IF c.pc = "putRaise" THEN Clear(c, "decode_error") ELSE Leave(c)]
     /\ UNCHANGED <<hit, writer, written, unwritten, closing>>

\* The server cancels the coroutine at an await, or closes the generator at
\* its yield.  gather() waits for its tasks before it raises; an await of a
\* task cancels the task.  Bound: once per request.
Interrupted(c) ==
  CASE c.pc \in {"json", "handed", "clearD", "clearP"} -> [c EXCEPT !.pc = "done"]
    [] c.pc \in {"headers", "awaitD", "kill", "badBody", "reapBad", "putTry", "putRaise"} ->
         Clear(c, "decode_error")
    [] c.pc \in {"wait", "dropChunk", "prefill", "putStream"} -> Reap(c, "client_cancelled")
    [] c.pc = "chunk" -> Reap([c EXCEPT !.chunk = Stop(@)], "client_cancelled")
    [] c.pc = "yield" -> Reap(c, "decode_error")
    [] c.pc \in {"reap", "put"} -> Leave(c)

Cancel(s) ==
  LET c == ses[s]
  IN /\ s \notin hit /\ c.pc \notin {"none", "done"}
     /\ c.pc \in Putting => Len(queue) = QueueSize
     /\ ses' = [ses EXCEPT ![s] = Interrupted(c)]
     /\ hit' = hit \cup {s}
     /\ UNCHANGED <<writer, writerVars>>

-----------------------------------------------------------------------------
(* The tasks: HTTP exchanges with P and D.  They end: aiohttp gives each a *)
(* total timeout.                                                          *)

Ends(task, ends) == IF task = "run" THEN ends ELSE {"cancelled"}

PrefillEnds(s) ==
  /\ Live(ses[s].prefill)
  /\ \E e \in Ends(ses[s].prefill, {"ok", "failed", "timeout"}) :
       Become(s, [ses[s] EXCEPT !.prefill = e])

HeadersEnd(s) ==
  /\ Live(ses[s].headers)
  /\ \E e \in Ends(ses[s].headers, {"ok", "bad", "failed", "timeout"}) :
       Become(s, [ses[s] EXCEPT !.headers = e])

ChunkEnds(s) ==
  LET c == ses[s]
      more == IF c.got < MaxChunks THEN {"ok"} ELSE {}
  IN /\ Live(c.chunk)
     /\ \E e \in Ends(c.chunk, IF c.client = "closed" THEN {"failed"}
                               ELSE {"eof", "failed", "timeout"} \cup more) :
          Become(s, [c EXCEPT !.chunk = e])

-----------------------------------------------------------------------------
(* JsonlMetricsWriter._run and PDProxy.close. *)

WriterTakes ==
  /\ writer = "idle" /\ queue # <<>>
  /\ writer' = IF Head(queue) = "stop" THEN "ended" ELSE Head(queue)
  /\ queue' = Tail(queue)
  /\ UNCHANGED <<ses, hit, written, unwritten, closing>>

\* Mutant: a failed write ends the writer task.
WriterDies ==
  /\ writer \in Session
  /\ \/ written' = [written EXCEPT ![writer] = @ + 1] /\ writer' = "idle" /\ UNCHANGED unwritten
     \/ unwritten' = unwritten \cup {writer} /\ writer' = "ended" /\ UNCHANGED written
  /\ UNCHANGED <<ses, hit, queue, closing>>

WriterAppends ==
  /\ writer \in Session
  /\ \/ written' = [written EXCEPT ![writer] = @ + 1] /\ UNCHANGED unwritten
     \/ unwritten' = unwritten \cup {writer} /\ UNCHANGED written
  /\ writer' = "idle"
  /\ UNCHANGED <<ses, hit, queue, closing>>

CloseBegin ==
  /\ closing = "up" /\ closing' = "gather"
  /\ ses' = [s \in Session |->
       IF ses[s].known THEN [ses[s] EXCEPT !.prefill = Stop(@)] ELSE ses[s]]
  /\ UNCHANGED <<hit, queue, writer, written, unwritten>>

CloseGathered ==
  /\ closing = "gather" /\ \A s \in Session : ses[s].prefill # "cancelling"
  /\ closing' = IF writer = "none" THEN "down" ELSE "sentinel"
  /\ UNCHANGED <<ses, hit, queue, writer, written, unwritten>>

CloseSentinel ==
  /\ closing = "sentinel" /\ Len(queue) < QueueSize
  /\ queue' = Append(queue, "stop") /\ closing' = "join"
  /\ UNCHANGED <<ses, hit, writer, written, unwritten>>

CloseJoin ==
  /\ closing = "join" /\ writer = "ended"
  /\ writer' = "none" /\ closing' = "down"
  /\ UNCHANGED <<ses, hit, queue, written, unwritten>>

-----------------------------------------------------------------------------
ProxyInit ==
  /\ ses = [s \in Session |->
       [pc |-> "none", prefill |-> "none", headers |-> "none", chunk |-> "none", got |-> 0,
        pending |-> TRUE, ending |-> "none", outcome |-> "none", known |-> FALSE,
        client |-> "none"]]
  /\ hit = {} /\ queue = <<>> /\ writer = "none"
  /\ written = [s \in Session |-> 0] /\ unwritten = {} /\ closing = "up"

Run(s) ==
  \/ Parse(s) \/ FirstOfTwo(s) \/ Killed(s) \/ AwaitD(s) \/ ReadBadBody(s) \/ ReapBad(s)
  \/ ClearD(s) \/ ClearP(s) \/ NextChunk(s) \/ ChunkOrPrefill(s) \/ AwaitChunk(s)
  \/ DropChunk(s) \/ AwaitPrefill(s) \/ ReapP(s)

ProxyNext ==
  \/ \E s \in Session :
       \/ Arrive(s) \/ Run(s) \/ FirstTokenTimeout(s) \/ Put(s) \/ Cancel(s)
       \/ PrefillEnds(s) \/ HeadersEnd(s) \/ ChunkEnds(s)
  \/ WriterTakes \/ WriterAppends
  \/ CloseBegin \/ CloseGathered \/ CloseSentinel \/ CloseJoin

ProxySpec == ProxyInit /\ [][ProxyNext]_proxyVars

\* The event loop runs what can run, a client takes its chunks or is
\* cancelled, and P and D answer or run into the total timeout.
ProxyFairness ==
  /\ \A s \in Session :
       /\ WF_proxyVars(Run(s)) /\ WF_proxyVars(Put(s))
       /\ WF_proxyVars(PrefillEnds(s)) /\ WF_proxyVars(HeadersEnd(s)) /\ WF_proxyVars(ChunkEnds(s))
  /\ WF_proxyVars(WriterTakes) /\ WF_proxyVars(WriterAppends)

ProxyFairSpec == ProxySpec /\ ProxyFairness

-----------------------------------------------------------------------------
(* Properties. *)

\* A request is a success only if D answered 2xx and its body was read to
\* the end, and P's request succeeded too: a prefill that fails after the
\* last chunk still fails the request.
SuccessMeansBoth ==
  \A s \in Session : ses[s].outcome = "success" =>
    ses[s].prefill = "ok" /\ ses[s].headers = "ok" /\ ses[s].chunk = "eof"

\* The exchange with P was begun.
Exchanged(c) == c.prefill # "none"

\* A coroutine that ends after it was finalized, or that began its exchange
\* with P and was not cancelled, has finalized its request, left the session
\* table, closed its HTTP client, and waited for the tasks it started on P
\* and on D's headers.  Two ways to end finalize nothing and are left out: a
\* cancellation before the exchange, between _handle and the generator, or
\* during the cleanup itself; and a body that _prefill_body cannot convert,
\* which raises before the exchange (EveryRequestRecorded is about that one).
LeavesNothing ==
  \A s \in Session : LET c == ses[s] IN
    c.pc = "done" /\ (c.outcome # "none" \/ (Exchanged(c) /\ s \notin hit)) =>
      /\ c.outcome # "none" /\ ~c.known /\ c.client # "open"
      /\ ~Live(c.prefill) /\ ~Live(c.headers)

\* A request that is finalized twice, by an inner and an outer except
\* clause or by a cancellation after success, leaves one record.
RecordedOnce ==
  \A s \in Session :
    written[s] + Cardinality({i \in DOMAIN queue : queue[i] = s}) +
      Cardinality({w \in {writer} : w = s}) + Cardinality({u \in unwritten : u = s}) <= 1

\* While the proxy is up every request ends, whatever P, D and the client
\* do.  Unless it was cancelled, or _prefill_body raised before the exchange
\* with P, its record reaches the file or is counted as a write failure, also
\* when the metrics queue is full.
RequestsEnd ==
  \A s \in Session : LET c == ses[s] IN
    c.pc # "none" ~>
      \/ closing # "up"
      \/ /\ c.pc = "done"
         /\ \/ s \in hit \/ written[s] = 1 \/ s \in unwritten
            \/ c.outcome = "none" /\ ~Exchanged(c)

\* What the documents say of the metrics: each request that reaches its end
\* leaves one final record and leaves the session table.
EveryRequestRecorded ==
  \A s \in Session :
    ses[s].pc = "done" /\ s \notin hit => ses[s].outcome # "none" /\ ~ses[s].known

\* D's body read to its end after P succeeded is a success: what the design
\* says of the two orders in which P and the body can end.
CompleteIsSuccess ==
  \A s \in Session : LET c == ses[s] IN
    c.pc = "done" /\ s \notin hit /\ c.prefill = "ok" /\ c.chunk = "eof" => c.outcome = "success"
=============================================================================
