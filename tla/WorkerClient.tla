---------------------------- MODULE WorkerClient ----------------------------
(***************************************************************************)
(* WorkerClient (worker_client.hpp), the C++ supervisor of one worker: the *)
(* threads that send requests, the owner that starts and stops sessions,   *)
(* the dispatcher that calls the callbacks, and the reader thread of the   *)
(* process library that calls on_stdout.                                   *)
(*                                                                         *)
(* Every critical section of mutex_ is one step, except the pipe write in  *)
(* send_request, which may block while it holds mutex_: `mutex` names the  *)
(* thread that does.  write_mutex_ is only ever taken right before mutex_, *)
(* and adds no waiting of its own.  All records have the same size, so the *)
(* byte limits of the two queues are record counts.  The worker and the    *)
(* pipes are outside src/include: what is assumed of them is marked.       *)
(*                                                                         *)
(* `by` and `session` of a request or record are not on the wire.  They    *)
(* say which thread sent the request, and in which session.                *)
(***************************************************************************)
EXTENDS Naturals, Sequences, FiniteSets

CONSTANTS
    Callers,      \* the host threads that call request()
    CallerOps,    \* what they request: "query" (one answer), "messages.export"
    MaxSessions,  \* bound: how often the owner starts a worker
    MaxCalls,     \* bound: requests sent by callers in one session
    MaxEvents,    \* bound: events of one export
    MaxLive,      \* bound: what one worker prints unasked: live events, garbage, a fatal error
    StdinRoom,    \* requests the stdin pipe holds
    StdoutRoom,   \* records the stdout pipe holds
    MaxQueued,    \* max_queued_records
    MaxKept,      \* how many responses fit into max_queued_bytes
    Timeouts,     \* may a wait for a response reach its timeout?
    Crashes,      \* may the worker end by itself?
    Throws        \* may a callback throw?

Owner      == "owner"
Dispatcher == "dispatcher"
Threads    == Callers \cup {Owner, Dispatcher}

ASSUME ClientAssumption ==
    /\ Owner \notin Callers /\ Dispatcher \notin Callers
    /\ CallerOps \subseteq {"query", "messages.export"}
    /\ {MaxSessions, MaxCalls, MaxEvents, MaxLive, StdinRoom, StdoutRoom,
        MaxQueued, MaxKept} \subseteq Nat
    /\ StdinRoom > 0 /\ StdoutRoom > 0 /\ MaxQueued > 0
    /\ {Timeouts, Crashes, Throws} \subseteq BOOLEAN

VARIABLES
    child, stdin, stdinOpen, outbox, stdout, lived,  \* the worker and its pipes
    mutex,           \* the thread that holds mutex_ while it writes, or "free"
    process,         \* process_ is not null
    session,         \* history: how many sessions were started
    nextId,          \* next_request_id_
    buffer,          \* stdout_buffer_
    records,         \* records_
    responses,       \* responses_, as a set of records
    handlers,        \* the ids in request_event_handlers_
    dispatcherStop,  \* dispatcher_stop_
    stopping,        \* stopping_
    failed,          \* failed_
    call,            \* call[t]: the request thread t is in
    seen,            \* history: events of that request its callback took
    expired,         \* history: the ids whose wait has timed out in this session
    owner,           \* where the owner is in start() or stop()
    disp,            \* the dispatcher thread
    hand             \* the record it has handed to a callback

worker == <<child, stdin, stdinOpen, outbox, stdout, lived>>
queues == <<buffer, records, responses, handlers>>
flags  == <<dispatcherStop, stopping, failed>>
past   == <<seen, expired>>
vars   == <<worker, mutex, process, session, nextId, queues, flags, call, past,
            owner, disp, hand>>

Operations == {"hello", "query", "messages.export", "shutdown"}

Record(type, id, by, n) == [type |-> type, id |-> id, session |-> session, by |-> by, n |-> n]

Nobody == [at |-> "none", op |-> "none", id |-> 0, session |-> 0]
NoRecord == [type |-> "none", id |-> 0, session |-> 0, by |-> Owner, n |-> 0]
Exit == [NoRecord EXCEPT !.type = "exit"]

Terminal(r) == r.type \in {"response", "error"}

Init ==
    /\ child = "none" /\ stdin = <<>> /\ stdinOpen = FALSE
    /\ outbox = <<>> /\ stdout = <<>> /\ lived = 0
    /\ mutex = "free"
    /\ process = FALSE
    /\ session = 0
    /\ nextId = 1
    /\ buffer = <<>> /\ records = <<>> /\ responses = {} /\ handlers = {}
    /\ dispatcherStop = FALSE /\ stopping = FALSE /\ failed = FALSE
    /\ call = [t \in Threads |-> Nobody]
    /\ seen = [t \in Threads |-> 0] /\ expired = {}
    /\ owner = "idle"
    /\ disp = "none"
    /\ hand = NoRecord

RecordType == [type : {"none", "response", "error", "event", "live", "fatal", "garbage", "exit"},
               id : Nat, session : Nat, by : Threads, n : Nat]

RequestType == [id : Nat, op : Operations, session : Nat, by : Threads]

CallType ==
    {Nobody} \cup [at : {"send", "write", "wait"}, op : Operations, id : Nat, session : Nat]

TypeOK ==
    /\ child \in {"none", "running", "exited"}
    /\ stdin \in Seq(RequestType)
    /\ stdinOpen \in BOOLEAN
    /\ outbox \in Seq(RecordType) /\ stdout \in Seq(RecordType)
    /\ lived \in 0..MaxLive
    /\ mutex \in Threads \cup {"free"}
    /\ process \in BOOLEAN
    /\ session \in 0..MaxSessions
    /\ nextId \in Nat \ {0}
    /\ buffer \in Seq(RecordType)
    /\ records \in Seq(RecordType) /\ Len(records) <= MaxQueued
    /\ responses \subseteq RecordType /\ Cardinality(responses) <= MaxKept
    /\ handlers \subseteq Nat
    /\ {dispatcherStop, stopping, failed} \subseteq BOOLEAN
    /\ call \in [Threads -> CallType]
    /\ seen \in [Threads -> Nat] /\ expired \subseteq Nat
    /\ owner \in {"idle", "launch", "launched", "hello", "stop.begin", "stop.ask",
                  "stop.close", "stop.poll", "stop.join", "stop.joining", "stop.clear",
                  "stop.release"}
    /\ disp \in {"none", "run", "call", "stop", "ended"}
    /\ hand \in RecordType

(***************************************************************************)
(* mutex_.                                                                 *)
(***************************************************************************)
Free == mutex = "free"
Fail == failed' = TRUE /\ UNCHANGED <<dispatcherStop, stopping>>

(***************************************************************************)
(* send_request and wait_for_response, by any thread.                      *)
(***************************************************************************)
\* request() returns or throws; start and stop go on.
Returns(t, ok) ==
    /\ call' = [call EXCEPT ![t] = Nobody]
    /\ owner' = IF t # Owner THEN owner
                ELSE IF owner = "stop.ask" THEN "stop.close"
                ELSE IF ok THEN "idle" ELSE "stop.begin"
    /\ disp' = IF t = Dispatcher THEN "run" ELSE disp

\* The request is written: a callback's stop() returns, others wait.
Written(t) ==
    IF t = Dispatcher
    THEN Returns(t, TRUE)
    ELSE /\ call' = [call EXCEPT ![t].at = "wait"]
         /\ UNCHANGED <<owner, disp>>

SendRefused(t) ==
    /\ Free
    /\ ~process \/ failed
    /\ Returns(t, FALSE)
    /\ UNCHANGED <<worker, mutex, process, session, nextId, queues, flags, past, hand>>

Send(t, op) ==
    /\ Free
    /\ process /\ ~failed
    /\ nextId' = nextId + 1
    /\ handlers' = IF op = "messages.export" THEN handlers \cup {nextId} ELSE handlers
    /\ call' = [call EXCEPT ![t] = [at |-> "send", op |-> op, id |-> nextId, session |-> session]]
    /\ seen' = [seen EXCEPT ![t] = 0]
    /\ UNCHANGED <<worker, mutex, process, session, buffer, records, responses,
                   flags, expired, owner, disp, hand>>

\* The line is longer than max_jsonl_record_bytes.
SendTooLarge(t) ==
    /\ Free
    /\ call[t].at = "send"
    /\ handlers' = handlers \ {call[t].id}
    /\ Returns(t, FALSE)
    /\ UNCHANGED <<worker, mutex, process, session, nextId, buffer, records,
                   responses, flags, past, hand>>

Request(t) == [id |-> call[t].id, op |-> call[t].op, session |-> call[t].session, by |-> t]
AtWrite(t) == (call[t].at = "send" /\ Free) \/ call[t].at = "write"
Readable == process /\ child = "running" /\ stdinOpen

\* The write finds no room: it blocks, and mutex_ stays locked.
WriteBlocks(t) ==
    /\ call[t].at = "send" /\ Free
    /\ Readable
    /\ Len(stdin) = StdinRoom
    /\ mutex' = t
    /\ call' = [call EXCEPT ![t].at = "write"]
    /\ UNCHANGED <<worker, process, session, nextId, queues, flags, past, owner, disp, hand>>

Write(t) ==
    /\ AtWrite(t)
    /\ Readable
    /\ Len(stdin) < StdinRoom
    /\ stdin' = Append(stdin, Request(t))
    /\ mutex' = "free"
    /\ Written(t)
    /\ UNCHANGED <<child, stdinOpen, outbox, stdout, lived, process, session, nextId,
                   queues, flags, past, hand>>

WriteFails(t) ==
    /\ AtWrite(t)
    /\ ~Readable
    /\ handlers' = handlers \ {call[t].id}
    /\ Fail
    /\ mutex' = "free"
    /\ Returns(t, FALSE)
    /\ UNCHANGED <<worker, process, session, nextId, buffer, records, responses, past, hand>>

AnswersAny(t) == responses  \* Mutant: the response is not looked up by id.

Answers(t) == {r \in responses : r.id = call[t].id}

TakeResponseKept(t) ==  \* Mutant: the response is not erased.
    /\ call[t].at = "wait" /\ Free
    /\ \E r \in Answers(t) :
         /\ Returns(t, r.type = "response")
         /\ handlers' = handlers \ {call[t].id}
    /\ UNCHANGED <<worker, mutex, process, session, nextId, buffer, records, responses,
                   flags, past, hand>>

TakeResponse(t) ==
    /\ call[t].at = "wait" /\ Free
    /\ \E r \in Answers(t) :
         /\ responses' = responses \ {r}
         /\ Returns(t, r.type = "response")
    /\ handlers' = handlers \ {call[t].id}
    /\ UNCHANGED <<worker, mutex, process, session, nextId, buffer, records, flags,
                   past, hand>>

\* The session failed or is stopping: throws, and leaves the handler behind.
GiveUp(t) ==
    /\ call[t].at = "wait" /\ Free
    /\ Answers(t) = {}
    /\ failed \/ dispatcherStop
    /\ Returns(t, FALSE)
    /\ UNCHANGED <<worker, mutex, process, session, nextId, queues, flags, past, hand>>

TimesOutNever(t) == FALSE  \* Mutant: the wait has no timeout.

\* A request that sleeps through the end of its session can only time out.
TimesOut(t) ==
    /\ Timeouts \/ ~process \/ call[t].session # session
    /\ call[t].at = "wait" /\ Free
    /\ Answers(t) = {} /\ ~failed /\ ~dispatcherStop
    /\ handlers' = handlers \ {call[t].id}
    /\ expired' = IF call[t].session = session THEN expired \cup {call[t].id} ELSE expired
    /\ Returns(t, FALSE)
    /\ UNCHANGED <<worker, mutex, process, session, nextId, buffer, records, responses,
                   flags, seen, hand>>

\* Everything a request does once it has its id.
Requesting(t) ==
    SendTooLarge(t) \/ WriteBlocks(t) \/ Write(t) \/ WriteFails(t)
        \/ TakeResponse(t) \/ GiveUp(t) \/ TimesOut(t)

CallerSends(t) ==
    /\ call[t] = Nobody
    /\ nextId <= MaxCalls + 1
    /\ \E op \in CallerOps : Send(t, op)

(***************************************************************************)
(* start(), by the owner.                                                  *)
(***************************************************************************)
Reset ==
    /\ buffer' = <<>> /\ records' = <<>> /\ responses' = {} /\ handlers' = {}
    /\ nextId' = 1 /\ expired' = {}
    /\ dispatcherStop' = FALSE /\ stopping' = FALSE /\ failed' = FALSE

StartReset ==
    /\ owner = "idle" /\ Free
    /\ ~process /\ disp = "none"
    /\ session < MaxSessions
    /\ Reset
    /\ session' = session + 1
    /\ owner' = "launch"
    /\ UNCHANGED <<worker, mutex, process, call, seen, disp, hand>>

Launch ==
    /\ owner = "launch" /\ Free
    /\ child' = "running" /\ stdinOpen' = TRUE /\ lived' = 0
    /\ process' = TRUE
    /\ owner' = "launched"
    /\ UNCHANGED <<stdin, outbox, stdout, mutex, session, nextId, queues, flags, call,
                   past, disp, hand>>

LaunchFails ==
    /\ owner = "launch" /\ Free
    /\ Fail
    /\ owner' = "stop.begin"
    /\ UNCHANGED <<worker, mutex, process, session, nextId, queues, call, past, disp, hand>>

StartDispatcher ==
    /\ owner = "launched"
    /\ disp' = "run"
    /\ owner' = "hello"
    /\ UNCHANGED <<worker, mutex, process, session, nextId, queues, flags, call, past, hand>>

OwnerSends(at, op) ==
    /\ owner = at
    /\ call[Owner] = Nobody
    /\ Send(Owner, op) \/ SendRefused(Owner)

(***************************************************************************)
(* stop(), by the owner.  It asks for a shutdown only when no callback has *)
(* done so, then closes stdin, waits for the exit, and kills at the        *)
(* deadline.                                                               *)
(***************************************************************************)
StopBegin ==
    /\ owner = "stop.begin" \/ (owner = "idle" /\ process)
    /\ Free
    /\ IF process
       THEN /\ stopping' = TRUE
            /\ owner' = IF stopping THEN "stop.close" ELSE "stop.ask"
       ELSE /\ owner' = "stop.join"
            /\ UNCHANGED stopping
    /\ UNCHANGED <<worker, mutex, process, session, nextId, queues, dispatcherStop, failed,
                   call, past, disp, hand>>

StopCloseStdin ==
    /\ owner = "stop.close" /\ Free
    /\ stdinOpen' = FALSE
    /\ owner' = "stop.poll"
    /\ UNCHANGED <<child, stdin, outbox, stdout, lived, mutex, process, session, nextId, queues,
                   flags, call, past, disp, hand>>

StopExited ==
    /\ owner = "stop.poll" /\ Free
    /\ child = "exited"
    /\ owner' = "stop.join"
    /\ UNCHANGED <<worker, mutex, process, session, nextId, queues, flags, call, past,
                   disp, hand>>

StopKillForgotten ==  \* Mutant: the deadline passes and nothing is killed.
    /\ owner = "stop.poll" /\ Free
    /\ child = "running"
    /\ owner' = "stop.join"
    /\ UNCHANGED <<worker, mutex, process, session, nextId, queues, flags, call, past,
                   disp, hand>>

StopKill ==
    /\ owner = "stop.poll" /\ Free
    /\ child = "running"
    /\ child' = "exited" /\ stdin' = <<>> /\ outbox' = <<>>
    /\ owner' = "stop.join"
    /\ UNCHANGED <<stdinOpen, stdout, lived, mutex, process, session, nextId, queues, flags,
                   call, past, disp, hand>>

StopFlagForgotten ==  \* Mutant: the dispatcher is not told to end.
    /\ owner = "stop.join" /\ Free
    /\ owner' = "stop.joining"
    /\ UNCHANGED <<worker, mutex, process, session, nextId, queues, flags, call, past,
                   disp, hand>>

StopFlag ==
    /\ owner = "stop.join" /\ Free
    /\ dispatcherStop' = TRUE
    /\ owner' = "stop.joining"
    /\ UNCHANGED <<worker, mutex, process, session, nextId, queues, stopping, failed, call,
                   past, disp, hand>>

StopJoined ==
    /\ owner = "stop.joining"
    /\ disp \in {"none", "ended"}
    /\ disp' = "none"
    /\ owner' = "stop.clear"
    /\ UNCHANGED <<worker, mutex, process, session, nextId, queues, flags, call, past, hand>>

StopClear ==
    /\ owner = "stop.clear" /\ Free
    /\ process' = FALSE
    /\ Reset
    /\ owner' = "stop.release"
    /\ UNCHANGED <<worker, mutex, session, call, seen, disp, hand>>

\* process.reset(): the library has read stdout to its end.
StopRelease ==
    /\ owner = "stop.release"
    /\ child # "running" /\ stdout = <<>>
    /\ child' = "none" /\ stdinOpen' = FALSE /\ stdin' = <<>>
    /\ owner' = "idle"
    /\ UNCHANGED <<outbox, stdout, lived, mutex, process, session, nextId, queues, flags,
                   call, past, disp, hand>>

(***************************************************************************)
(* dispatch_loop.  A record moves to responses_ or, with mutex_ released,  *)
(* to a callback; records that nobody listens for are dropped.             *)
(***************************************************************************)
\* Mutant: the next record is taken while the callback still runs.
TakesWhileCalling == disp \in {"run", "call"} /\ Free /\ records # <<>>

Takes == disp = "run" /\ Free /\ records # <<>>
Front == Head(records)

DispatchTerminal ==
    /\ Takes /\ Terminal(Front)
    /\ records' = Tail(records)
    /\ IF Cardinality(responses) >= MaxKept \/ \E r \in responses : r.id = Front.id
       THEN Fail /\ UNCHANGED responses
       ELSE responses' = responses \cup {Front} /\ UNCHANGED flags
    /\ UNCHANGED <<worker, mutex, process, session, nextId, buffer, handlers, call, past,
                   owner, disp, hand>>

HasHandler(r) == r.id = 0 \/ r.id \in handlers

DispatchEvent ==
    /\ Takes /\ ~Terminal(Front)
    /\ records' = Tail(records)
    /\ IF HasHandler(Front)
       THEN disp' = "call" /\ hand' = Front
       ELSE UNCHANGED <<disp, hand>>
    /\ UNCHANGED <<worker, mutex, process, session, nextId, buffer, responses, handlers,
                   flags, call, past, owner>>

\* The request the record in hand belongs to is still being waited for.
Belongs(r, t) == r.by = t /\ r.id = call[t].id /\ r.session = call[t].session

HandlerReturns ==
    /\ disp = "call"
    /\ seen' = [t \in Threads |-> IF Belongs(hand, t) THEN seen[t] + 1 ELSE seen[t]]
    /\ disp' = "run" /\ hand' = NoRecord
    /\ UNCHANGED <<worker, mutex, process, session, nextId, queues, flags, call, expired, owner>>

HandlerThrows ==
    /\ Throws
    /\ disp = "call" /\ Free
    /\ Fail
    /\ disp' = "run" /\ hand' = NoRecord
    /\ UNCHANGED <<worker, mutex, process, session, nextId, queues, call, past, owner>>

\* stop() in a callback: mark_stopping, then a shutdown request nobody awaits.
HandlerStops ==
    /\ disp = "call" /\ Free
    /\ hand.id = 0
    /\ stopping' = TRUE
    /\ disp' = "stop" /\ hand' = NoRecord
    /\ UNCHANGED <<worker, mutex, process, session, nextId, queues, dispatcherStop, failed,
                   call, past, owner>>

HandlerSends ==
    /\ disp = "stop"
    /\ call[Dispatcher] = Nobody
    /\ Send(Dispatcher, "shutdown") \/ SendRefused(Dispatcher)

DispatcherEnds ==
    /\ disp = "run" /\ Free
    /\ records = <<>> /\ dispatcherStop
    /\ disp' = "ended"
    /\ UNCHANGED <<worker, mutex, process, session, nextId, queues, flags, call, past,
                   owner, hand>>

(***************************************************************************)
(* on_stdout, by the reader thread, with the next `count` records of the   *)
(* pipe.  The record that is not valid JSON, or one more than the queue    *)
(* holds, is lost; what follows it stays in the buffer for the next call.  *)
(***************************************************************************)
FitsOneMore(k) == Len(records) + k <= MaxQueued + 1  \* Mutant: off by one.

Fits(k) == Len(records) + k <= MaxQueued

LossForgotten(all, lost) == UNCHANGED failed  \* Mutant: a lost record fails nothing.

LossFails(all, lost) == failed' = (failed \/ lost <= Len(all))

OnStdout(count) ==
    /\ Free
    /\ count \in 1..Len(stdout)
    /\ LET all == buffer \o SubSeq(stdout, 1, count)
           Kept(k) == Fits(k) /\ all[k].type # "garbage"
       IN  \E lost \in 1..(Len(all) + 1) :
             /\ \A k \in 1..(lost - 1) : Kept(k)
             /\ lost <= Len(all) => ~Kept(lost)
             /\ records' = records \o SubSeq(all, 1, lost - 1)
             /\ buffer' = SubSeq(all, lost + 1, Len(all))
             /\ LossFails(all, lost)
    /\ stdout' = SubSeq(stdout, count + 1, Len(stdout))
    /\ UNCHANGED <<child, stdin, stdinOpen, outbox, lived, mutex, process, session, nextId,
                   responses, handlers, dispatcherStop, stopping, call, past, owner, disp, hand>>

(***************************************************************************)
(* The worker: it reads a request when it has written all of its last      *)
(* answer, blocks on a full stdout, and ends after shutdown, at the end of *)
(* its input, or by itself.                                                *)
(***************************************************************************)
Idle == child = "running" /\ outbox = <<>>
ClientSide == <<mutex, process, session, nextId, queues, flags, call, past, owner, disp, hand>>

AnswerTo(q, events, type) ==
    [k \in 1..events |-> [type |-> "event", id |-> q.id, session |-> q.session, by |-> q.by, n |-> k]]
        \o <<[type |-> type, id |-> q.id, session |-> q.session, by |-> q.by, n |-> events]>>
        \o IF q.op = "shutdown" THEN <<Exit>> ELSE <<>>

WorkerReads ==
    /\ Idle
    /\ stdin # <<>>
    /\ stdin' = Tail(stdin)
    /\ LET q == Head(stdin) IN
         \E events \in IF q.op = "messages.export" THEN 0..MaxEvents ELSE {0},
            type \in IF q.op \in {"hello", "messages.export"} THEN {"response", "error"}
                    ELSE {"response"} :
           outbox' = AnswerTo(q, events, type)
    /\ UNCHANGED <<child, stdinOpen, stdout, lived, ClientSide>>

WorkerWrites ==
    /\ child = "running"
    /\ outbox # <<>> /\ Head(outbox) # Exit
    /\ Len(stdout) < StdoutRoom
    /\ stdout' = Append(stdout, Head(outbox))
    /\ outbox' = Tail(outbox)
    /\ UNCHANGED <<child, stdin, stdinOpen, lived, ClientSide>>

WorkerLive ==
    /\ child = "running"
    /\ lived < MaxLive
    /\ Len(stdout) < StdoutRoom
    /\ stdout' = Append(stdout, Record("live", 0, Owner, 0))
    /\ lived' = lived + 1
    /\ UNCHANGED <<child, stdin, stdinOpen, outbox, ClientSide>>

WorkerFatal ==
    /\ Idle
    /\ lived < MaxLive
    /\ outbox' = <<Record("fatal", 0, Owner, 0), Exit>>
    /\ lived' = lived + 1
    /\ UNCHANGED <<child, stdin, stdinOpen, stdout, ClientSide>>

\* A line that is not JSON is printed.  (One that is JSON but no object would end the
\* host: what record.value throws is caught nowhere in dispatch_loop, lines 511-512.)
WorkerBabbles ==
    /\ child = "running"
    /\ lived < MaxLive
    /\ Len(stdout) < StdoutRoom
    /\ stdout' = Append(stdout, Record("garbage", 0, Owner, 0))
    /\ lived' = lived + 1
    /\ UNCHANGED <<child, stdin, stdinOpen, outbox, ClientSide>>

WorkerExits ==
    /\ child = "running"
    /\ \/ outbox # <<>> /\ Head(outbox) = Exit
       \/ Idle /\ stdin = <<>> /\ ~stdinOpen
       \/ Crashes
    /\ child' = "exited" /\ stdin' = <<>> /\ outbox' = <<>>
    /\ UNCHANGED <<stdinOpen, stdout, lived, ClientSide>>

(***************************************************************************)
(* The whole.                                                              *)
(***************************************************************************)
OwnerStarts == StartReset

OwnerGoesOn ==
    \/ Launch \/ LaunchFails \/ StartDispatcher
    \/ OwnerSends("hello", "hello") \/ OwnerSends("stop.ask", "shutdown")
    \/ StopCloseStdin \/ StopExited \/ StopKill \/ StopFlag \/ StopJoined
    \/ StopClear \/ StopRelease
    \/ owner # "idle" /\ StopBegin

OwnerStops == owner = "idle" /\ StopBegin

Dispatches ==
    \/ DispatchTerminal \/ DispatchEvent
    \/ HandlerReturns \/ HandlerThrows \/ HandlerStops \/ HandlerSends
    \/ DispatcherEnds

Reads == \E count \in 1..StdoutRoom : OnStdout(count)

Works ==
    WorkerReads \/ WorkerWrites \/ WorkerLive \/ WorkerFatal \/ WorkerBabbles
        \/ WorkerExits

\* No session is left to start, and nobody waits for anything.
Rests ==
    /\ session = MaxSessions /\ owner = "idle" /\ ~process
    /\ \A t \in Threads : call[t] = Nobody
    /\ UNCHANGED vars

Next ==
    \/ Rests
    \/ OwnerStarts \/ OwnerGoesOn \/ OwnerStops
    \/ \E t \in Callers : CallerSends(t)
    \/ \E t \in Threads : Requesting(t)
    \/ Dispatches
    \/ Reads
    \/ Works

Spec == Init /\ [][Next]_vars

(***************************************************************************)
(* Fairness: every thread of the host runs, callbacks return, a deadline   *)
(* passes.  Nothing is assumed of the worker, which may hang.              *)
(***************************************************************************)
Fairness ==
    /\ WF_vars(OwnerGoesOn)
    /\ \A t \in Threads : WF_vars(Requesting(t))
    /\ WF_vars(Dispatches)
    /\ WF_vars(Reads)

FairSpec == Spec /\ Fairness
-----------------------------------------------------------------------------
(***************************************************************************)
(* "Requests are correlated by request ID": the record that a request      *)
(* returns with answers that very request.                                 *)
(***************************************************************************)
Collects(t) == call[t].at = "wait" /\ call'[t].at # "wait"

Correlated ==
    [][\A t \in Threads : Collects(t) =>
         \A r \in responses \ responses' : Belongs(r, t)]_vars

(***************************************************************************)
(* An export that returns its summary has had every message it counts      *)
(* taken by its callback, whatever else happened, unless the session has   *)
(* failed: then the code may still hand over the summary (line 481).       *)
(***************************************************************************)
ExportComplete ==
    [][\A t \in Threads : Collects(t) /\ ~failed =>
         \A r \in responses \ responses' : r.type = "response" => seen[t] = r.n]_vars

(***************************************************************************)
(* The callback of a request runs only while request() has not returned:   *)
(* it captures its caller's variables by reference.  (Once the session has *)
(* failed or is stopped the code does not keep to this, and a request that *)
(* times out may leave behind the callback that runs by then.)             *)
(***************************************************************************)
CallbackWithinRequest ==
    disp = "call" /\ hand.id # 0 /\ ~failed /\ ~dispatcherStop =>
        hand.id \in expired \/ (call[hand.by].at = "wait" /\ Belongs(hand, hand.by))

(***************************************************************************)
(* A response is kept only for a request that still waits for it, or that  *)
(* timed out before the response came: those, one for each timeout, and    *)
(* the answer to a shutdown that a callback sends are all that is left     *)
(* lying in responses_.                                                    *)
(***************************************************************************)
KeptIsAwaited ==
    ~failed /\ ~dispatcherStop =>
        \A r \in responses :
            r.by = Dispatcher \/ r.id \in expired \/ (call[r.by].at = "wait" /\ Belongs(r, r.by))

(***************************************************************************)
(* Once stop() has let go of process_ no worker runs, however it behaved.  *)
(***************************************************************************)
StopLeavesNoWorker == ~process => child # "running"

(***************************************************************************)
(* "Stops the worker gracefully, then kills it after the timeout": start() *)
(* and stop() end even when the worker hangs.                              *)
(***************************************************************************)
StopEnds == (owner # "idle") ~> (owner = "idle")

(***************************************************************************)
(* Every request() returns or throws, even when the worker hangs.          *)
(***************************************************************************)
RequestsReturn == \A t \in Callers : (call[t] # Nobody) ~> (call[t] = Nobody)
=============================================================================
