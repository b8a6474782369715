---------------------------- MODULE WorkerServer ----------------------------
(***************************************************************************)
(* JsonlWorkerServer (server.py): the main loop that reads one request at  *)
(* a time and answers it, and the callbacks that the live thread calls.    *)
(* The two share _listen_active, _live_events_ready, the pending records   *)
(* and the output; only the last three are guarded by _output_lock.        *)
(*                                                                         *)
(* Every critical section of _output_lock is one step, except the flush    *)
(* loop of messages.listen, which writes several records while it holds    *)
(* the lock: main = "listen.flushing" is exactly "the main thread holds    *)
(* _output_lock across steps", and the live thread waits for it.           *)
(*                                                                         *)
(* A record is abstracted to what the properties tell apart.  `gen` is not *)
(* on the wire: it says which polling thread a live record came from, or   *)
(* which one an accepted listen started.  A record longer than             *)
(* max_jsonl_bytes makes encode_envelope raise ProtocolError before        *)
(* anything is written; _run_loop then answers with an error ("fallback"). *)
(*                                                                         *)
(* The calls into the backend are not here: LiveWorker joins the actions   *)
(* named after a call's return to what TelethonLive does.                  *)
(***************************************************************************)
EXTENDS Naturals, Sequences, FiniteSets

CONSTANTS
    Operations,    \* what the host sends in this instance
    MaxRequests,   \* bound: how many requests the host sends
    ExportLimits,  \* the `limit` of an export query, 0 for none
    MaxExport,     \* bound: messages the backend yields for one export
    Oversized,     \* the <<chat, id>> whose live record exceeds the limit
    LongTexts      \* may a record that repeats text from outside exceed it?

\* Operations the main thread dispatches; "query" stands for dialogs.list and
\* auth.*, "unknown" for every record that is answered with an error as it is.
Requests == {"hello", "query", "unknown", "messages.export", "messages.listen",
             "messages.stop", "shutdown"}

ASSUME ServerAssumption ==
    /\ Operations \subseteq Requests \cup {"zeroId", "garbage"}
    /\ MaxRequests \in Nat
    /\ ExportLimits \subseteq Nat
    /\ MaxExport \in Nat
    /\ LongTexts \in BOOLEAN

VARIABLES
    main,               \* where the main thread is
    requestId,          \* id of the last request read
    exc,                \* the BackendError being reported, by kind
    limit, count,       \* export: query.limit and the counter
    flush,              \* listen: the local list of the flush loop
    listenActive,       \* _listen_active
    eventsReady,        \* _live_events_ready
    pending,            \* _pending_live_records
    shutdownRequested,  \* _shutdown_requested
    exitCode,           \* _exit_code
    status,             \* what _run_loop returned
    out                 \* the records written to stdout

flags == <<listenActive, eventsReady, pending>>
fate  == <<shutdownRequested, exitCode, status>>
local == <<exc, limit, count, flush>>
serverVars == <<main, requestId, local, flags, fate, out>>

(***************************************************************************)
(* Records.                                                                *)
(***************************************************************************)
Record(type, id, what, gen, chat, n) ==
    [type |-> type, id |-> id, what |-> what, gen |-> gen, chat |-> chat, n |-> n]

Response(what)         == Record("response", requestId, what, 0, 0, 0)
Accepted(gen)          == Record("response", requestId, "accepted", gen, 0, 0)
Exported(what)         == Record("response", requestId, what, 0, 0, count)
Error(what)            == Record("error", requestId, what, 0, 0, 0)
ExportEvent(what)      == Record("event", requestId, what, 0, 0, 0)
SessionError           == Record("error", 0, "fatal", 0, 0, 0)
LiveMessage(gen, c, n) == Record("event", 0, "message", gen, c, n)
LiveError(gen)         == Record("error", 0, "liveError", gen, 0, 0)

Whats == {"hello", "result", "bye", "accepted", "stopped", "complete", "truncated",
          "error", "fatal", "refused", "zeroId", "liveError",
          "export.started", "export.message", "message"}

Records == [type : {"response", "error", "event"}, id : Nat, what : Whats,
            gen : Nat, chat : Nat, n : Nat]

Terminal(r) == r.type \in {"response", "error"} /\ r.id # 0

\* The live records that encode_envelope rejects, and those it may accept.
Overflows(r) == r.what = "message" /\ <<r.chat, r.n>> \in Oversized
MayRaise(r)  == Overflows(r) \/ (LongTexts /\ r.what = "liveError")

ServerTypeOK ==
    /\ main \in Requests \cup
         {"read", "exporting", "listen.start", "listen.failed", "listen.flag",
          "listen.reply", "listen.flush", "listen.flushing", "stop.call",
          "stop.reply", "fallback", "close.stop", "close.backend", "exited"}
    /\ requestId \in 0..MaxRequests
    /\ exc \in {"none", "error", "fatal", "refused"}
    /\ limit \in Nat /\ count \in Nat
    /\ flush \in Seq(Records)
    /\ listenActive \in BOOLEAN
    /\ eventsReady \in BOOLEAN
    /\ pending \in Seq(Records)
    /\ shutdownRequested \in BOOLEAN
    /\ exitCode \in {0, 1}
    /\ status \in {"running", "0", "1"}
    /\ out \in Seq(Records)

ServerInit ==
    /\ main = "read"
    /\ requestId = 0
    /\ exc = "none"
    /\ limit = 0 /\ count = 0
    /\ flush = <<>>
    /\ listenActive = FALSE
    /\ eventsReady = TRUE
    /\ pending = <<>>
    /\ shutdownRequested = FALSE
    /\ exitCode = 0
    /\ status = "running"
    /\ out = <<>>

(***************************************************************************)
(* _write, and the ways a handler ends.                                    *)
(***************************************************************************)
Write(r)   == out' = Append(out, r)
Goto(next) == main' = next

\* The terminal record, then back to the loop.
Answer(r) ==
    /\ Write(r)
    /\ Goto("read")
    /\ exc' = "none" /\ limit' = 0 /\ count' = 0 /\ flush' = <<>>
    /\ UNCHANGED <<requestId, flags, fate>>

\* _write of a record that repeats outside text raises ProtocolError.
TooLong ==
    /\ LongTexts
    /\ Goto("fallback")
    /\ UNCHANGED <<requestId, local, flags, fate, out>>

AnswerBackendErrorKeepsCode(kind) ==  \* Mutant: _exit_code is not set.
    /\ Write(Error(kind))
    /\ shutdownRequested' = (shutdownRequested \/ kind = "fatal")
    /\ Goto("read")
    /\ exc' = "none" /\ limit' = 0 /\ count' = 0
    /\ UNCHANGED <<requestId, flush, flags, exitCode, status>>

\* _write_backend_error: a fatal error also ends the loop, with exit code 1.
AnswerBackendError(kind) ==
    /\ Write(Error(kind))
    /\ shutdownRequested' = (shutdownRequested \/ kind = "fatal")
    /\ exitCode' = IF kind = "fatal" THEN 1 ELSE exitCode
    /\ Goto("read")
    /\ exc' = "none" /\ limit' = 0 /\ count' = 0
    /\ UNCHANGED <<requestId, flush, flags, status>>

\* _run_loop returns; run goes on to _close_backend.
Return(result) == status' = result /\ Goto("close.stop")

\* The last except clause: a terminal fatal error, and return 1.
AnswerCrash ==
    /\ Write(Error("fatal"))
    /\ Return("1")
    /\ UNCHANGED <<requestId, local, flags, shutdownRequested, exitCode>>

(***************************************************************************)
(* _run_loop: what the main thread reads.                                  *)
(***************************************************************************)
LoopTop == main = "read" /\ ~shutdownRequested

ReadRequest(op) ==
    /\ LoopTop
    /\ op \in Operations \cap Requests
    /\ requestId < MaxRequests
    /\ requestId' = requestId + 1
    /\ Goto(op)
    /\ UNCHANGED <<local, flags, fate, out>>

\* request_id 0 cannot be correlated: the error has id 0 too (`n` is its place).
\* It echoes the operation, and may be too long like that of an unknown one.
ReadZeroId ==
    /\ LoopTop
    /\ "zeroId" \in Operations
    /\ requestId < MaxRequests
    /\ requestId' = requestId + 1
    /\ \/ /\ Write(Record("error", 0, "zeroId", 0, 0, requestId + 1))
          /\ UNCHANGED <<main, status>>
       \/ /\ LongTexts
          /\ Return("1")
          /\ UNCHANGED out
    /\ UNCHANGED <<local, flags, shutdownRequested, exitCode>>

\* A line that is too long, unterminated, or has no identity to answer to.
ReadGarbage ==
    /\ LoopTop
    /\ "garbage" \in Operations
    /\ Write(SessionError)
    /\ Return("1")
    /\ UNCHANGED <<requestId, local, flags, shutdownRequested, exitCode>>

ReadEof ==
    /\ LoopTop
    /\ Return("0")
    /\ UNCHANGED <<requestId, local, flags, shutdownRequested, exitCode, out>>

LoopEnds ==
    /\ main = "read"
    /\ shutdownRequested
    /\ Return(IF exitCode = 1 THEN "1" ELSE "0")
    /\ UNCHANGED <<requestId, local, flags, shutdownRequested, exitCode, out>>

(***************************************************************************)
(* Requests that do not touch the listener.                                *)
(***************************************************************************)
AnswerHello == main = "hello" /\ Answer(Response("hello"))

\* One backend call, one terminal record.
AnswerQuery ==
    /\ main = "query"
    /\ \/ Answer(Response("result"))
       \/ \E kind \in {"error", "fatal"} : AnswerBackendError(kind)
       \/ TooLong

\* An unknown operation, a record that is no request, or one that does not
\* decode but names a request.  The error echoes the operation: when it is too
\* long, so is the fallback, and the loop returns 1 with no terminal record.
AnswerUnknown ==
    /\ main = "unknown"
    /\ \/ Answer(Error("error"))
       \/ /\ LongTexts
          /\ Return("1")
          /\ UNCHANGED <<requestId, local, flags, shutdownRequested, exitCode, out>>

AnswerShutdown ==
    /\ main = "shutdown"
    /\ Write(Response("bye"))
    /\ shutdownRequested' = TRUE
    /\ Goto("read")
    /\ UNCHANGED <<requestId, local, flags, exitCode, status>>

\* except ProtocolError, with the request known: its own error always fits.
Fallback == main = "fallback" /\ Answer(Error("error"))

(***************************************************************************)
(* messages.export: started, messages, one terminal record.  The backend   *)
(* is asked for limit + 1 messages, the one too many means "truncated".    *)
(***************************************************************************)
ExportStart ==
    /\ main = "messages.export"
    /\ Write(ExportEvent("export.started"))
    /\ limit' \in ExportLimits
    /\ Goto("exporting")
    /\ UNCHANGED <<requestId, exc, count, flush, flags, fate>>

ExportInvalid == main = "messages.export" /\ Answer(Error("error"))

\* What the backend may still yield: it stops after limit + 1 messages.
Yields == count < MaxExport

ExportMessage ==
    /\ main = "exporting"
    /\ Yields
    /\ limit = 0 \/ count < limit
    /\ Write(ExportEvent("export.message"))
    /\ count' = count + 1
    /\ UNCHANGED <<main, requestId, exc, limit, flush, flags, fate>>

ExportTruncateCountsExtra ==  \* Mutant: the message too many is counted.
    /\ main = "exporting"
    /\ Yields
    /\ limit # 0 /\ count >= limit
    /\ Answer([Exported("truncated") EXCEPT !.n = @ + 1])

ExportTruncate ==
    /\ main = "exporting"
    /\ Yields
    /\ limit # 0 /\ count >= limit
    /\ Answer(Exported("truncated"))

ExportEnd == main = "exporting" /\ Answer(Exported("complete"))

ExportFails ==
    /\ main = "exporting"
    /\ \/ \E kind \in {"error", "fatal"} : AnswerBackendError(kind)
       \/ AnswerCrash
       \/ TooLong

(***************************************************************************)
(* messages.listen.  ListenRefused folds the check and the write: between  *)
(* them the live thread can only write and clear the flag.                 *)
(***************************************************************************)
ListenInvalid == main = "messages.listen" /\ Answer(Error("error"))

ListenRefusedGoesOn ==  \* Mutant: the return after the error is missing.
    /\ main = "messages.listen"
    /\ listenActive
    /\ Write(Error("refused"))
    /\ eventsReady' = FALSE
    /\ Goto("listen.start")
    /\ UNCHANGED <<requestId, local, listenActive, pending, fate>>

ListenRefused ==
    /\ main = "messages.listen"
    /\ listenActive
    /\ Answer(Error("refused"))

ListenArmReady ==  \* Mutant: live events stay switched on.
    /\ main = "messages.listen"
    /\ ~listenActive
    /\ Goto("listen.start")
    /\ UNCHANGED <<requestId, local, flags, fate, out>>

ListenArm ==
    /\ main = "messages.listen"
    /\ ~listenActive
    /\ eventsReady' = FALSE
    /\ Goto("listen.start")
    /\ UNCHANGED <<requestId, local, listenActive, pending, fate, out>>

ListenAbortedStaysOff(kind) ==  \* Mutant: events are not switched on again.
    /\ main = "listen.start"
    /\ pending' = <<>>
    /\ exc' = kind
    /\ Goto("listen.failed")
    /\ UNCHANGED <<requestId, limit, count, flush, listenActive, eventsReady, fate, out>>

\* backend.start_listening raised BackendError.
ListenAborted(kind) ==
    /\ main = "listen.start"
    /\ eventsReady' = TRUE
    /\ pending' = <<>>
    /\ exc' = kind
    /\ Goto("listen.failed")
    /\ UNCHANGED <<requestId, limit, count, flush, listenActive, fate, out>>

ListenFailed ==
    /\ main = "listen.failed"
    /\ AnswerBackendError(exc) \/ (exc # "refused" /\ TooLong)

\* backend.start_listening returned.
ListenStarted ==
    /\ main = "listen.start"
    /\ Goto("listen.flag")
    /\ UNCHANGED <<requestId, local, flags, fate, out>>

ListenFlag ==
    /\ main = "listen.flag"
    /\ listenActive' = TRUE
    /\ Goto("listen.reply")
    /\ UNCHANGED <<requestId, local, eventsReady, pending, fate, out>>

\* The response repeats the query, so it may be too long.
ListenReply(gen) ==
    /\ main = "listen.reply"
    /\ \/ /\ Write(Accepted(gen))
          /\ Goto("listen.flush")
          /\ UNCHANGED <<requestId, local, flags, fate>>
       \/ TooLong

ListenFlushDrops ==  \* Mutant: the pending records are cleared, not flushed.
    /\ main = "listen.flush"
    /\ eventsReady' = TRUE
    /\ pending' = <<>>
    /\ Goto("listen.flushing")
    /\ UNCHANGED <<requestId, local, listenActive, fate, out>>

ListenFlush ==
    /\ main = "listen.flush"
    /\ eventsReady' = TRUE
    /\ flush' = pending
    /\ pending' = <<>>
    /\ Goto("listen.flushing")
    /\ UNCHANGED <<requestId, exc, limit, count, listenActive, fate, out>>

FlushRecord ==
    /\ main = "listen.flushing"
    /\ flush # <<>>
    /\ ~Overflows(Head(flush))
    /\ Write(Head(flush))
    /\ flush' = Tail(flush)
    /\ UNCHANGED <<main, requestId, exc, limit, count, flags, fate>>

\* The exception leaves the loop: the rest of the list is lost.
FlushRaises ==
    /\ main = "listen.flushing"
    /\ flush # <<>>
    /\ MayRaise(Head(flush))
    /\ flush' = <<>>
    /\ Goto("fallback")
    /\ UNCHANGED <<requestId, exc, limit, count, flags, fate, out>>

FlushDone ==
    /\ main = "listen.flushing"
    /\ flush = <<>>
    /\ Goto("read")
    /\ UNCHANGED <<requestId, local, flags, fate, out>>

(***************************************************************************)
(* messages.stop, and _close_backend after the loop has returned.          *)
(***************************************************************************)
StopCheck ==
    /\ main = "messages.stop"
    /\ Goto(IF listenActive THEN "stop.call" ELSE "stop.reply")
    /\ UNCHANGED <<requestId, local, flags, fate, out>>

\* backend.stop_listening returned.
StopReturned ==
    /\ main = "stop.call"
    /\ listenActive' = FALSE
    /\ Goto("stop.reply")
    /\ UNCHANGED <<requestId, local, eventsReady, pending, fate, out>>

StopReply == main = "stop.reply" /\ Answer(Response("stopped"))

\* backend.stop_listening, then backend.close, returned.
CloseReturned ==
    /\ main \in {"close.stop", "close.backend"}
    /\ Goto(IF main = "close.stop" THEN "close.backend" ELSE "exited")
    /\ UNCHANGED <<requestId, local, flags, fate, out>>

(***************************************************************************)
(* The callbacks, called by the live thread.                               *)
(***************************************************************************)
OutputNotLocked == TRUE  \* Mutant: the flush loop does not hold the lock.

OutputFree == main # "listen.flushing"

\* _emit_live_record: written now, or kept until the listen is answered.
EmitLive(r) ==
    /\ OutputFree
    /\ IF eventsReady THEN ~Overflows(r) /\ Write(r) /\ UNCHANGED pending
                      ELSE pending' = Append(pending, r) /\ UNCHANGED out
    /\ UNCHANGED <<main, requestId, local, listenActive, eventsReady, fate>>

EmitRaises(r) ==
    /\ OutputFree
    /\ eventsReady
    /\ MayRaise(r)
    /\ UNCHANGED serverVars

\* The end of _on_live_error; the Telethon backend never passes a fatal error.
ClearListenFlag ==
    /\ listenActive' = FALSE
    /\ UNCHANGED <<main, requestId, local, eventsReady, pending, fate, out>>

=============================================================================
