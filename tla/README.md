# tg-client-stdio in TLA+

tg-client-stdio lets a host program use a Telegram user account through a child
process. The host (C++ or Python) writes one JSON request per line to the
worker's stdin; the worker answers on stdout with events and exactly one
terminal record per request. This directory holds TLA+ models of that system,
their TLC configurations, and proofs that TLAPS checks.

Run from this directory: `tlc -config live_events.cfg MCLiveWorker`,
`tlapm LiveWorkerProofs.tla`. `PROJECT.json` maps every definition to the source lines it
stands for and lists the runs, the hazards and the findings.

## 1. The system

| part | source | state | operations | talks to |
|---|---|---|---|---|
| JSONL worker server | `server.py` | `_listen_active`, `_live_events_ready`, `_pending_live_records`, `_shutdown_requested`, `_exit_code`, `_output_lock` | read a line, dispatch, answer; `_on_live_message`, `_on_live_error` | host by pipes, backend by calls and callbacks |
| protocol codec | `protocol.py` | none | decode, encode with a size limit, build records | server, Python client |
| Telethon live listener | `telethon_backend.py` | `_live_thread`, `_live_stop`, `_live_generation`, the watches | `start_listening`, `stop_listening`, `_poll_live` | server callbacks, runtime |
| Telethon runtime | `telethon_backend.py` | task queue, owner thread, client | `call`, `stream`, `close` | Telegram |
| Telethon export, dialogs | `telethon_backend.py` | none kept | `iter_export_messages`, `dialogs` | runtime |
| Telethon authorization | `telethon_backend.py` | phone, code hash, password flag | `auth_*` | runtime |
| mock backend, queries | `backend.py` | live query and callbacks | the backend protocol | server |
| Python client | `client.py` | next id, session error, live callback, size limits | `request`, `stream_messages`, `read_event` ... | worker by pipes |
| Python worker process | `process.py` | process, client | `start`, `close` | Python client |
| C++ worker supervisor | `worker_client.hpp` | process, dispatcher, record and response tables, flags | `start`, `request`, `stop`, listeners, export | worker by pipes |
| C++ stream client, DTOs | `client.hpp`, `protocol.hpp`, `messages.hpp` | next id | encode, decode | streams |
| signal parser | `parsing.py` | none | candidates of one message | operator tools |
| operator command line | `operator_cli.py`, `cli.py`, `scripts/` | output file and its `.part` file | export to a file, authorize, list dialogs | Python process and client |

What is hard here:

- The worker has two threads that write to one pipe: the main thread answers
  requests and the polling thread reports live messages and its own failure.
  They share a flag with no lock (`_listen_active`), two variables under
  `_output_lock`, and the thread's registration under `_live_lock`, which the
  main thread holds across a network call. `stop_listening` joins the polling
  thread, which may need both locks to finish.
- Any write can raise: a record longer than the limit is refused by the
  encoder, and where the exception goes depends on the line that wrote.
- The C++ host has a caller thread per request, a dispatcher, the process
  library's reader thread and an owner that starts and stops sessions; requests
  time out; a pipe write blocks while a mutex is held.
- Export streams through a bounded queue between two threads and can be abandoned.
- An export's date bounds are in milliseconds and the offset it gives Telegram is
  in 32-bit seconds; limit, offset, range and a topic's root are each applied at a
  different place.
- A login takes several requests, any of which may fail before or after Telegram
  did what was asked.
- The operator's export may fail, be killed or lose power at any step.

What makes each part correct: one terminal record per request and the right exit
code (server); no live message before the acceptance, in order, nothing skipped,
none after a stop (listener); at most one polling thread and none left at exit
(listener); a response reaches the caller that asked for it, and `stop` ends
(supervisor); a stream delivers a prefix of what was produced and never wedges
its thread (runtime); a session that lost its place in the stream is not used
again (Python client); an export delivers the messages that were asked for, no
matter which part applied which bound (export); a code is never paired with
another phone (authorization); the output file is always the old one or a whole
new one (operator); overlapping matches are settled without contradiction (parser).

## 2. The modules

| module | models |
|---|---|
| `WorkerServer` | the server: loop, handlers, flush, callbacks |
| `TelethonLive` | the listener: registration, stop and join, polling thread |
| `LiveWorker` | both, with the calls and callbacks between them; the properties |
| `LiveFeed` | abstract specification: what the host is promised about live messages |
| `MCLiveWorker` | constants for TLC |
| `LiveWorkerProofs` | theorems about `LiveWorker`: threads, registration, acceptance |
| `LiveOutputProofs` | theorems about what `LiveWorker` writes: order, terminal records, exports, exit code |
| `WorkerClient` | the C++ supervisor: callers, owner, dispatcher, reader thread, and the worker at the other end of two bounded pipes; its properties |
| `MCWorkerClient` | constants for TLC |
| `WorkerClientProofs` | theorems about `WorkerClient` |
| `TelethonRuntime` | the owner thread of the Telethon client: tasks, calls, bounded streams, close |
| `ResultStreams` | abstract specification: what a stream promises its caller |
| `MCTelethonRuntime` | constants for TLC |
| `TelethonRuntimeProofs` | theorems about `TelethonRuntime` |
| `HostSession` | the Python host: client and process, with the worker as they see it |
| `HostSessionProofs` | theorems about `HostSession` |
| `ExportSelection` | which messages an export delivers, in both backends, and the reference definition of what it should |
| `OperatorExport` | the operator's `export` command and its files, over `ExportSelection` |
| `OperatorExportProofs` | theorems about `OperatorExport` |
| `Authorization` | the login operations, Telegram's side of them, and the authorize script |
| `SignalParser` | how `parse_message` settles the matches of its rules |
| `SignalParserProofs` | theorems about `SignalParser` |
| `MCOperatorTools` | instances of the four modules before for TLC, one tool per behaviour |
| `OperatorToolsProofs` | theorems about `Authorization` and about all tools together |

`LiveWorker` extends the two component modules and joins their actions: a call
into the backend and its return are joint steps (`CallStartReturns` is
`StartThread` of the listener with `ListenStarted` of the server), and so is a
callback (`OnMessage` is `PollDeliver` with `EmitLive`).

How state corresponds to code:

- `main` is the main thread's program counter; each value is a point between
  two lines of `_handle_request`, `_run_loop` or `_close_backend`. `poller[g]` is
  the same for the thread of generation `g` in `_poll_live`. Its last value
  also remembers how the thread ended: "late" when the flag its `on_error`
  cleared was set for a later listener.
- `listenActive`, `eventsReady`, `pending`, `shutdownRequested`, `exitCode` are
  the server's attributes; `flush` is the local list of the flush loop.
- `liveThread` and `liveGeneration` are the backend's attributes. `_live_thread`
  and `_live_stop` are always written together under the lock and are one
  variable here. `stop[g]` is the event handed to thread `g`.
- `_output_lock` critical sections are single steps. The flush loop writes
  several records under the lock and is several steps: `main =
  "listen.flushing"` is exactly "the main thread holds the lock", and the
  callbacks wait for it (`OutputFree`).
- `_live_lock` is held across the network call of `start_listening`; that is
  `liveLock = "main"`.
- `out` is everything written to stdout. A record is its type, request id, what
  it says, and for live records the chat and message number. `gen` is not on
  the wire: it tells which thread a record came from.
- The wait between two polling rounds is folded into the loop test. The check
  and the write of a refused listen are one step: between them the live thread
  can only write or clear a flag that the refusal does not read again.

In `WorkerClient`:

- `call[t]` is the request thread `t` is in: `send` (it has an id), `write` (its
  pipe write blocks), `wait` (in `wait_for_response`). The threads are the
  callers, the owner and, for a `stop()` inside a callback, the dispatcher.
- A critical section of `mutex_` is one step. The one exception is the pipe write:
  `mutex` names the thread whose write blocks with the lock held. `write_mutex_`
  is only taken right before `mutex_` and adds no waiting.
- `owner` is where the owner is in `start()` or `stop()`, `disp` where the
  dispatcher is, `hand` the record it handed to a callback.
- `child`, `stdin`, `stdout` and `outbox` are the worker and its pipes, which
  `src/include` only uses: it answers in order, may hang, exit or print garbage.
- `by` and `session` in a record are history: whose request it answers. `seen[t]`
  counts the events the callback of `t`'s request took, `expired` holds the ids of
  the session whose wait timed out.
- Records have one size, so the byte limits are counts (`MaxQueued`, `MaxKept`).
- A request of an ended session can always time out; `Timeouts` says whether one
  of the running session can.

In `TelethonRuntime`:

- `runtime` is where the owner thread is in `_run`, `task` what it works on,
  `offer` the item its put loop holds. `at[c]` is where a polling thread or the
  main thread is in `call`, `stream` or `close`.
- `output[s]` and `cancel[s]` are the queue and the event of stream `s`; the main
  thread reads one stream at a time, the last one started. The owner thread may
  still work on an older one that was left.
- `emit` and `_put_stream_marker` are one loop: test the event (`PutCancelled`,
  `PutTries`), then put, or meet a full queue and go round (`Puts`, `PutFull`).
  An `emit` that raises `_StreamCancelled` is followed by markers whose own test
  sees the same event, which is never cleared, so they put nothing: one step.
- `close` begins when no polling thread is inside the runtime.
  `TelethonBackend.close` calls `stop_listening` first, which joins them
  (`LiveWorkerProofs!ExitIsQuiet`).
- `made`, `ended`, `got` and `seen` are history and the state of `ResultStreams`.

In `HostSession`:

- `at[t]` and `call[t]` are where the user's thread and the helper thread of
  `_call_with_timeout` are in the client or in `start` and `close`, and the
  request they wait for. `owned` is that `_process` and `client` are set,
  `broken` that `_session_error` is, `callback` that `_live_message_callback` is.
- `request`, `stream_messages` and `read_event` share their steps: each record
  is read and handled in one step, but for the callbacks, during which the other
  thread may run.
- A record that cannot be decoded, or has the wrong operation or payload, is
  `garbage`; so is a hello whose capabilities are rejected.
- The worker answers in order and writes live records at any time while it
  listens. It may hang, write a broken record, or exit. A listener that has failed
  may report late (`worker.late`), which clears the flag of the one that runs by
  then; `worker.runaway` is that a stop was answered although that one runs on.
- `start_listening` sets a callback or none. `heard` and `lost` count the live
  messages the client read and handed on or dropped, `deaf` is that the last
  `start_listening` failed or gave no callback.
- Ctrl-C is an action where the user's thread blocks: in a `readline` that waits
  (`Interrupted`; the request stays open, which `torn` records, once per session),
  in start's join (`StartInterrupted`, which cleans up), and in close's join,
  terminate and closing of the pipes. The last ones may leave the process to
  itself, which is `abandoned`; the next start then waits for its end, since there is
  one process at a time in the model.
- `start` makes a new process and a new client. An older helper shares nothing
  with them, so a new start waits for its end without loss.

In `ExportSelection`, operators only:

- `ExportQuery` is what the operator's arguments become, `ExportOnRuntime` is
  `_export_on_runtime` with its offset, early end, range and limit, `Served` is
  what the server makes of it (it asks for one message more than the limit).
- A message has its second, the topic Telegram files it under, its
  `reply_to_top_id` and whether it created the topic. Its date in milliseconds is
  a whole second, as Telethon's dates are.
- `iter_messages` is external. Whether its offset excludes the offset's own second
  (`listsEdge`), and whether the replies of a topic contain its root
  (`listsRoot`), are Telegram's choice.
- `Answers` with `Asked` is the reference: filter by topic and by date or day,
  order, take the limit, tell whether any is left. It has no offset and no loop.

In `OperatorExport`:

- `run` is where `run_export` is. `final` and `part` are the output file and the
  `.part` file: a set of at most one record of its lines (`data`), how many of them
  are on the disk (`synced`) and whether they are an export to its end (`whole`).
- What is streamed is `ExportSelection!Exported` for the job. Every step may raise;
  `Killed` stops the command between any two steps; `PowerLoss` also takes what
  was not synced, and may take the renames of this run and of earlier ones, since
  the directory is never synced (`undone` holds the files before each of them).
- `code` is "ok" for exit code 0, "failed" for any other, "killed" or "off" when
  there is none.

In `Authorization`:

- `authPhone`, `phoneCodeHash`, `passwordRequired` are the backend's attributes;
  `account`, `sent`, `locked`, `codes` and `twoFactor` are Telegram's side, as the
  code relies on it (external).
- Each operation succeeds, fails before it reached Telegram (`Fails`), or loses
  Telegram's reply (`...Lost`). `script` is where the authorize script is; with
  `"host"` any operation may be asked for next.

In `SignalParser`:

- `todo` are the candidates in the order the code sorts them, `accepted` and
  `blocked` are the results and the `blocked_regions`; a candidate is blocked, a
  duplicate, a conflict or accepted, which are the branches of the loop.
- A match is its span, its rule and what it captured. The matches are the input.

What is abstracted: the JSON text (a line is a request that decodes, one that
does not but names its id, one with id 0, or garbage); the backend's answers to
`dialogs.list` and `auth.*` (any of: a result, an error, a fatal error); lengths
(`Oversized` names the live records that exceed the limit, `LongTexts` says
whether a response or error that repeats outside text may exceed it).
Telethon reports live errors as non-fatal only (`telethon_backend.py:526`), so
the fatal branch of `_on_live_error` has no action; `stop_listening` never
raises a `BackendError`, so neither has `server.py:217-219`.

## 3. The runs

The `live_` and `server_` runs and `stop_late_error` are instances in
`MCLiveWorker`, the `client_` runs in `MCWorkerClient`, `runtime_streams` in
`MCTelethonRuntime`; `host_session` runs `HostSession` itself; `operator_tools`
and `topic_identity` are in `MCOperatorTools`.

| run | checks | bounds |
|---|---|---|
| `live_events` | `TypeOK`, `AtMostOnePoller`, `ExitStopsPolling`, `EventsAfterAccept`, `NoStrandedRecords`, `ExitCodeTellsFatal`, and the refinement `ImplementsFeed` | 1 chat, 2 messages, the first oversized, pages of 2, 2 generations, 4 requests, faults |
| `live_progress` | `RequestsEnd`, `ShutdownExits`, `MessagesDelivered`, `FailureReported`, and the invariant `InOrder` | 1 chat, 2 messages, pages of 1, 2 generations, 3 requests, faults |
| `server_ops` | `OneTerminal`, `ExportFramed` | every operation, 3 requests, 2 chats of which one has a message off topic, exports of up to 2 messages, limits none and 1, responses that may be too long |
| `client_faults` | `TypeOK`, `StopLeavesNoWorker`, `Correlated`, `KeptIsAwaited`, `StopEnds`, `RequestsReturn` | 1 caller, 1 session, timeouts, crashes, garbage, throwing callbacks, queues of 1, room in stdin for every request |
| `client_exports` | `CallbackWithinRequest`, `ExportComplete` | 2 callers, 1 session, 2 calls, exports of up to 1 event, crashes, throwing callbacks, a queue of 1, no timeouts |
| `runtime_streams` | `TypeOK`, `NobodyForgotten`, `ClosedIsClean`, `ImplementsStreams`, `EveryCallReturns` | 1 polling thread, 2 streams of up to 3 values, queues of 1, any number of calls, opens and closes |
| `host_session` | `TypeOK`, `AnswersItsRequest`, `InStepOrBroken`, `ListenerHears`, `NoOrphan`, `HelperLetsGo`, `BrokenIsSilent`, `StartsAndCloses` | 2 sessions of 2 requests and a shutdown (start's hello is one of the 2), exports of up to 1 message, 1 live message, every fault of the worker, Ctrl-C |
| `operator_tools` | `ExportSelects`, `FinalIsComplete`, `ExitCodesTell`, `LoginConsistent`, `MatchesSettled` | histories of 4 messages in 3 seconds, 2 exports to a file, 2 phones, 3 codes, 6 login requests, 3 matches of 2 rules |

What the runs show beyond their properties' names: `AnswersItsRequest` is a
property of steps, "a call that returns leaves nothing of its request behind", so
an answer taken by a caller of another request violates it although both ids look
right on their own; `Correlated`, `ExportComplete` and `BrokenIsSilent` are of this
kind too. `ImplementsFeed` and `ImplementsStreams` compare every step with an
abstract specification. `LiveFeed` promises nothing once it is `void`: that is
when a late report has cleared the flag of a later listener (`Overtaken`, the
code of `stop_late_error`) or a flush was cut short (`FlushTorn`). With either
condition left out of the mapping TLC finds a behaviour that breaks the promise.

Why the bounds are enough: two generations are needed for an old thread to meet
a new one, and the third adds no new pair, since a thread interacts only with
the registration, the flags and one successor. Two messages with pages of two
give a full page, a partial page and an empty one, an order to break and a first
message to skip. With pages of one, in `live_progress`, the second message is
always on another page. A message off topic is skipped in
`server_ops`, beside a chat that has none. Four requests are listen, stop, listen
and either stop or the listen that is refused after a late report; where three are
allowed, the first listener ends by a fault or the last one by shutdown.
`MaxRequests`, `MaxGen`, `MaxMsgs` and `MaxExport` are the only bounds; each is a
guard of the action that would pass it.

For the C++ client, the queues of one record in `client_faults` are the smallest
that overflow, pipes of one record the smallest that fill, and two callers in
`client_exports` are two that could take each other's records; its queue of one
record loses an event whenever a third record arrives with the dispatcher
behind. The owner and the dispatcher send requests of their own, so even one
caller competes with two other threads. `MaxSessions`, `MaxCalls`, `MaxEvents`
and `MaxLive` (what a worker prints unasked) bound the behaviour; `StdinRoom`,
`StdoutRoom`, `MaxQueued` and `MaxKept` are limits the program has.

For the runtime, a queue of one is full after one value, so three values meet it
full, half read and empty; two streams let the main thread read one while the
owner thread still works on an abandoned one; a second polling thread would only
queue behind the first. `MaxStreams` and `MaxItems` bound the behaviour,
`Capacity` is the program's 128.

For the Python host, two requests and the shutdown are enough to listen, lose an
answer to a live error and ask again, to listen, be refused and read a message
without a callback, or to listen and stop while a message is on its way; two
sessions show what one leaves to the next. A listener that runs on after its stop
needs four requests (listen, stop, listen, stop) and is not met in the run:
`worker.runaway` is covered by the theorem, which holds for any number of
requests. `MaxSessions`, `MaxRequests`, `MaxLive` and `MaxMessages` are guards.

`operator_tools` asks what an export delivers for every non-descending choice of
dates of four messages over three seconds, bounds on, between and beside the
seconds, days, both orders, no limit or one or two messages, the whole chat or a
topic, and for topics that must be refused. A second has two milliseconds, a day
two seconds, and the last second that fits the offset is 2, so that every
rounding and the end of the range are met within the history. Two runs of the
command leave a `.part` file from the first to the second. Two phones and three
codes let a login be started again with another phone while a code is
outstanding, twice. Three spans are the fewest that can overlap in a chain
without all overlapping each other. The four tools share no state; a behaviour
runs one of them, so their states add up instead of multiplying. `MaxRuns`,
`MaxCodes` and `MaxRequests` are guards.

Fairness (`FairSpec`): the main thread's handlers, its calls into the backend
and each polling thread are weakly fair, as a running operating system makes
them. Runtime calls return. Nothing is assumed of the host's requests, which may
stop at any time, or of Telegram. `MessagesDelivered` and `RequestsEnd` thus
say that no lock or join can block for good.

In `WorkerClient`, `FairSpec` makes each host thread weakly fair: the owner once it
is inside `start()` or `stop()`, each request, the dispatcher, the reader. A
deadline therefore passes (`TimesOut`, `StopKill`) and a callback returns. Nothing
is assumed of the worker or of when the owner stops. `StopEnds` and
`RequestsReturn` hold in `client_faults`, where the stdin pipe has room for every
request in flight; `client_stop_blocked` shows what happens otherwise, and is why
`client_exports`, with its smaller pipe, may deadlock.

In `TelethonRuntime`, `FairSpec` makes the owner thread and each user weakly fair
once it is inside `call`, `stream` or `close`: what the thread asks of Telegram
returns or raises, and the body of an export goes on to its next value or leaves.
Nothing makes a thread begin. In `HostSession`, `FairSpec` covers `start`, `close`
and the helper, whose timeouts pass and whose callbacks return; the worker owes
nothing, and neither does a request of the user, which has no timeout. The tools
need no fairness: their properties are invariants.

### Where the code and its documentation disagree

Four are runs that must end in a violation; the protocol is
`docs/protocol-v1.md`.

| run | what happens |
|---|---|
| `stop_late_error` | a failed listener unregisters itself before it reports; stop and listen in between, and the late report clears the flag of the new listener, so `messages.stop` answers `stopped` and stops nothing |
| `client_sessions` | ids restart at 1 with each session and `dispatcher_stop_` is cleared before every waiting caller has run: a request of the old session takes a response of the new one |
| `client_stop_blocked` | a pipe write blocks with `mutex_` held; `stop` needs `mutex_` before it can kill the worker |
| `topic_identity` | a message written directly into a topic has no `reply_to_top_id`; its identity names the topic only when it is exported through the topic, though the document (272-274) says both exports give the same identity |

The models also allow the following; the properties above are stated so that they
leave room for it, at the conditions named.

- `server.py:199`: the listener fails between `start_listening` and
  `_listen_active = True`. The flag stays set with no thread, and every listen is
  refused until a `messages.stop` or a later report clears it.
- `server.py:297`: the error record is written before the flag is cleared; the
  document (228-230) says the other order, and a host that reacts at once is refused.
- `server.py:209`: an oversized pending record raises after the response was
  written: the request gets an error too (`OneTerminal` is checked without
  oversized live records), and the rest of the pending records is lost while
  the listener goes on (`ImplementsFeed` holds until then).
- `server.py:196`: after the late report of `stop_late_error` a third
  `messages.listen` passes the flag, is refused by the backend, and on the way out
  discards the records kept for the listener that still runs. `ImplementsFeed`,
  `MessagesDelivered` and `FailureReported` hold until such a report.
- `server.py:200`: the acceptance is too long and becomes an error; the listener
  runs, and what it found is flushed behind a later listen's acceptance
  (`EventsAfterAccept` is checked and proved for `LongTexts = FALSE`).
- `worker_client.hpp:481`: a callback that throws fails the session, but its
  export still returns the summary (`ExportComplete` is about
  sessions that have not failed).
- `worker_client.hpp:478`: the response to a request that timed out stays in
  `responses_` until the session ends and counts against its limit
  (`KeptIsAwaited` says that nothing else stays, but for the answer to a shutdown
  that a callback sent).
- `worker_client.hpp:511-512`: a line that is valid JSON but no object, or has a
  `request_id` of another type, makes `record.value` throw. Nothing in
  `dispatch_loop` catches it, and the host ends in `std::terminate`. The model has
  only the line that is no JSON, which fails the session.
- `worker_client.hpp`: `is_running` stays true after the worker has ended.
- `server.py:101`: an unknown operation whose name fills the line cannot be refused
  under that name; the loop ends with 1 and the host sees no terminal record. The
  same goes for a request with id 0 whose operation fills the line (134-136).
- `client.py:62-66`: a live error read by `request` is raised in the place of the
  answer. The answer stays unread and makes the next call fail the whole session,
  although the error is not fatal and the document (229-230) lets the host listen
  again (`InStepOrBroken` excludes a session with `torn` set). A Ctrl-C in
  `readline` (`client.py:219`) leaves the request open in the same way and does not
  fail the session either, since it is no `Exception`.
- `client.py:109`: a live message that arrives during an export is dropped and fails
  the session, while `request` hands it on.
- `client.py:178`: a second `start_listening` that the worker refuses clears the
  callback of the first, and `client.py:171`: one without `on_message`, the default,
  does so too; `request` (59-61, 254) then drops the live messages it reads.
- `telethon_backend.py:529`, seen by the Python client: after the late report of
  `stop_late_error`, `stop_listening` returns and clears the callback while the
  worker goes on sending. `ListenerHears` names these exceptions.
- `process.py:94-108`: a Ctrl-C in close's join skips `_cleanup_process`, or in its
  `wait` skips the kill, and `_process` is cleared all the same: nobody owns the
  worker any more (`NoOrphan` and `StartsAndCloses` name it, `abandoned`).
- `telethon_backend.py:467`: two names of one chat in the same query make two
  watches, and each message is delivered twice (chats are distinct in the model).
- `operator_cli.py:318`: closing the worker may fail after the file was replaced:
  the `TimeoutExpired` of a worker that survives its kill is none of the exceptions
  that `main` catches (331), so the command ends in a traceback with exit code 1, not
  2, although the export is complete (`ExitCodesTell` only says what exit code 0
  promises, and that the file is the old one or this run's).
- `operator_cli.py:283`: the directory is not synced, so a power loss may bring back
  the file of before an earlier run that ended with 0 (`ExitCodesTell` says that
  only a power loss does).
- `telethon_backend.py`: after a lost reply `_password_required` may stay set although
  Telegram asks for no password; `LoginConsistent` allows it when a reply was lost.
- `process.py:145`: after a `close` whose shutdown timed out, a callback that the
  helper thread was about to call may still run.

## 4. The proofs

`LiveWorkerProofs` proves, for every number of chats, messages, generations and
requests, every page size and every set of operations:

- `TypeCorrect`: `Spec => []TypeOK`.
- `OnePoller`: `Spec => []AtMostOnePoller`. Alone it is not inductive: a second
  thread is started where `liveThread = 0`, so the invariant must say that then
  no unjoined thread polls. `RegistryInv` does: a thread that may still poll is
  the registered one or the one being joined, and the two never coexist.
- `ExitIsQuiet`: `Spec => []ExitStopsPolling`, from `RegistryInv` and `ClosedInv`
  (from the second call of `_close_backend` on, nothing is registered).
- `AcceptedFirst`: `Spec => []EventsAfterAccept`, under `~LongTexts` (no response
  exceeds the limit; section 3 says what happens otherwise). `AcceptInv` strengthens it: what polls, waits or is being flushed
  belongs to an accepted listener, or to the one about to be accepted while
  events are off.
- `NothingStranded`: `Spec => []NoStrandedRecords`, under `~LongTexts`.

`LiveOutputProofs` goes on with what the worker writes:

- `MessagesInOrder`: `Spec => []InOrder`. A message goes from its thread's batch
  to `pending`, to `flush`, to `out`, or from the batch directly to `out`.
  `OrderInv` says that each of these lists ascends and lies behind the next one,
  and that nothing handed over is newer than the mark of its chat.
- `AnsweredOnce`: `Spec => []OneTerminal`, under `Fits`: no live record exceeds the
  limit, and responses may only where the listener meets no faults. Without it a
  flush that raises answers a second time (section 3). `TermInv` says that one
  terminal record at most names each request, that no record names a request not
  yet read, and that the request being handled has one exactly when the main
  thread is past the write.
- `ExportsFramed`: `Spec => []ExportFramed`. `FrameInv` keeps, for the export under
  way, what was written of it so far, and for each summary that it stays true of
  its frame although live records are written in between.
- `CodeTellsFatal`: `Spec => []ExitCodeTellsFatal`, under `~LongTexts`: an
  unknown operation whose name fills the line makes even the error that refuses it
  too long, and the loop then ends with 1 and no record at all. `CodeInv` relates
  the fatal records to the exit code at every program counter.
- `FeedKept`: `Spec => ImplementsFeed`, the refinement to `LiveFeed`, under
  `~LongTexts` (an accepted answer that is too long is replaced by an error, the
  host sees a refusal, and events stay off). While the promise is not void,
  four more invariants hold. `FlagInv`: while the host holds an accepted listen, the
  flag is set or the report that cleared it is still kept back, and what polls with
  events on is the accepted listener. `TidyInv`: what is kept back is on topic and of
  the newest listener, and no message follows its report. `WireInv`: what was
  written since the last change of the feed is of the accepted listener.
  `CoverInv`: every message on topic that the thread's mark has passed was given,
  is kept back, or is in the batch; only messages behind all of these are lost
  when the thread fails. `VoidStays` says that a void promise stays void.
  `Follows` maps every step to a step of `LiveFeed` or to a stutter, and a step
  that voids the promise to `Disturb`.

The other assumptions are those of the component modules (`LiveAssumption`,
`ServerAssumption`): types of the constants, at least one chat, a positive page
size. Each proof has one step per action and a lemma per invariant.

`WorkerClientProofs` proves, for every number of callers, sessions and requests,
every limit and every fault:

- `TypeCorrect`: `Spec => []TypeOK`, with the limits of both queues. The
  cardinality of `responses` needs it to be finite (`TypeInv`).
- `NoWorkerLeft`: `Spec => []StopLeavesNoWorker`. `process_` is cleared four steps
  after the kill; `EndedInv` says that in between the worker is not running.
- `CorrelatedInOneSession`: `MaxSessions = 1` implies `Spec => Correlated`.
  `CorrInv` says that every request or record under way carries an id below
  `next_request_id_` and that the active request with this id, if any, is its
  thread's; new ids are fresh as long as `process_` is set. The assumption is
  needed: `client_sessions`.
- `NothingMissing`: `MaxSessions = 1` implies `Spec => ExportComplete`.
- `CallbackInTime` (`CallbackWithinRequest`) and `KeptForSomebody` (`KeptIsAwaited`):
  under `MaxSessions = 1`, with timeouts. A request that times out may leave behind
  the callback that runs by then and the response that comes later; both
  properties say that nothing else is left behind.

The last three rest on `SessionInv`. While the session is sound (`process_` set, not
failed), `LineInv` says that worker, pipe, `records_` and the dispatcher's hand
form one line in which each request's events ascend and its answer is the last;
`IdsInv` that nothing is under way for a request before it is written and read;
`CountInv` that of a request that waits every event its callback has not taken
yet, up to the one or the answer looked at, is in that line. `WaitInv` adds
that what is under way is waited for, or its wait has timed out (`OnlyExpires`),
until `dispatcher_stop_` is set. A session
becomes sound in one step only, the launch, when everything is empty
(`OnlyLaunch`, `LaunchSound`).

`WorkerClientProofs` assumes `ClientAssumption`, the types of the constants.

`HostSessionProofs` proves, for every number of sessions, requests and messages:

- `HostTypeCorrect`, `NobodyIsOrphaned` (`NoOrphan`) and `OneThreadInside`
  (`HelperLetsGo`), from `ThreadInv`: where each thread can be while the other is
  inside, and what is set then. `NoOrphan` excludes the process that a Ctrl-C in
  close has abandoned, and nothing else.
- `BrokenStaysSilent`: `Spec => BrokenIsSilent`, an action property: a failed
  session stays failed, and no thread of it is reading (`SilentInv`).
- `OwnAnswer`: `Spec => AnswersItsRequest`, an action property. `OrderInv` and
  `FreshInv` say that the ids in stdin, in the worker and in stdout follow each
  other in this order; `LastInv` that the call that waits has the latest id;
  `SameInv` that what carries its id is its request.
- `InStep`: `Spec => []InStepOrBroken`. `StepInv` says more: of the call that waits,
  exactly one thing is under way: its request, its service, or its answer.
- `NothingIsLost`: `Spec => ListenerHears`, an action property: a step that drops a
  live message fails the session with it, or happens while the last
  `start_listening` failed or gave no callback, or after a stop that did not find its
  listener. It follows from `HearInv` (otherwise, without a callback, there is no
  listener and no live message anywhere) and `StopInv` (behind the answer to a stop
  there is none either).

All are conjuncts of one inductive invariant, `HostInv`. It assumes
`HostAssumption`: the types of the constants, two threads, and at least one
request per session, since `start` sends its hello.

`OperatorExportProofs` proves, for every set of jobs, every earlier file and any
number of runs:

- `NeverHalfWritten` (`FinalIsComplete`) and `ExitCodeTells` (`ExportExitTells`).
  `ExportInv` says that the output file is untouched until the replacement
  (`RunInv`) and that what is replaced is a whole export on the disk (`FilesInv`),
  and so is what a power loss can bring back. `UndoInv` says that in the first run
  only its own replacement can be undone.
- `ExportsWhatWasAsked`: `ExportSpec => []ExportSelects`. The algorithm of either
  backend answers as the reference definition asks, for histories of any length.
  Behind it is one relation, `Enough(q, c, S, L)`: the list `c` is taken from `S`, in the
  order of the query, and what it leaves out of `S` comes after its first n
  messages, when the limit `L` is n. Telethon's limit brings it about (`TakeEnough`);
  merging the root (`MergeEnough`), the early end and the filter by range
  (`KeptEnough`) keep it. `OffsetSpares` says that the rounded offset excludes
  nothing within the bounds, `RangeIsWithin` that milliseconds and days mean the
  same, and `EnoughAnswers` that one message more than the limit tells whether
  the export is truncated. What the loop's filter computes (`Sift`, a recursive
  function) is shown for every length by taking the shortest prefix for which
  it would fail (`SiftIs`).

It assumes `SelectionAssumption` (a second and a day have a positive length) and
`JobsAssumption`: a history ascends in ids and does not descend in dates, a
message comes after the topic it is filed under, a topic's root is filed under
itself, the arguments are well formed, and the earlier file is a list of lines.

`OperatorToolsProofs` proves `AuthTypeCorrect`, `LoginAgrees` (`LoginConsistent`) and
`AuthorizeTells` of `Authorization`, for every set of phones and any number of codes
and requests. `LoginInv` adds that the flag tells the truth unless a reply was
lost. `ExitsTell` (`ExitCodesTell`) states the exit codes of both commands for the
composition that the run checks: each tool keeps its own inductive invariant and
finds the other at rest (`ToolsInv`).

`SignalParserProofs` proves `OverlapsSettled` (`MatchesSettled`), for any number of
matches and rules and texts of any length. The case that matters is a conflict:
the region of the candidate and all that it overlaps cannot touch an accepted
result that it does not overlap, because accepted results are disjoint
(`ConflictKeeps`). It assumes `ParserAssumption`: a match is a span of the text.

`TelethonRuntimeProofs` proves, for every number of polling threads, streams and
values and every capacity:

- `TypeCorrect`: `Spec => []TypeOK`, with the capacity of every queue.
- `NobodyIsForgotten`: `Spec => []NobodyForgotten`. That a pending task has a thread
  that comes to it needs `ThreadInv` (a stop marker is the last task, and from its
  reception on only the main thread is inside, joining) and `StreamInv` (a stream
  that is queued is untouched, and queued once).
- `CloseLeavesNothing`: `Spec => []ClosedIsClean`, from `OwnerInv` and `ThreadInv`.
- `StreamsKeepOrder`: `Spec => ImplementsStreams`, the refinement to `ResultStreams`.
  `OrderInv` is the invariant behind it: a queue holds the values after the last
  one taken, in order, then the failure, then the end (`QueueInv`), and the item
  the owner thread holds is the one that comes next (`WorkInv`). Three lemmas show
  that taking the head, putting an item and making one keep this; the proof maps
  every step to a step of `ResultStreams` or to a stutter.

It assumes `RuntimeAssumption`: the types of the constants, a positive capacity,
and that the main thread is not a polling thread.

Only model-checked: all liveness (`RequestsEnd`, `ShutdownExits`, `MessagesDelivered`,
`FailureReported`, `StopEnds`, `RequestsReturn`, `EveryCallReturns`,
`StartsAndCloses`), since the prover does not reach fairness, and the properties
that a run shows violated.

## 5. Not modelled, and the plan

What remains to be modelled: the exchange of callbacks in the C++
`start_listening`.

Of the tools, left out are: the list of dialogs and its fields, the types of a
payload's fields and the other fields of a message; the symbol an outcome takes from the text
(`parsing.py:205-223`), the normalisation of symbols, the regular expressions and
the parser's configuration; building options, environment and proxy; the
`dialogs` command. Two operators that write to the same `.part` file, and a session
that Telegram revokes while it is in use, are outside the models too.
`client.hpp`, `protocol.hpp` and `messages.hpp` encode and decode without a state.

In `HostSession` two things are left out: a callback that calls the client
itself, and the size limits that `hello` negotiates (a request that is too large
is refused, a record that is too large is garbage). Ctrl-C is modelled where the
user's thread blocks, not between two lines that do not; in a callback
it is one of the things the callback may throw.

In `WorkerClient` two things are left out. `start_listening` exchanges the event
callback and puts the old one back on failure; which callback is registered
changes nothing else. An inbound line that is too long fails the session as a
garbage line does, except that it stays in the buffer. The line that ends the host
(section 3, `worker_client.hpp:511-512`) is left out too. Once a session has failed or
stopped, or a request has timed out, a callback may still run after its
`request()` has returned; the documents promise nothing there, and
`CallbackWithinRequest` says under which conditions it cannot happen.

Left out for good: JSON text, regular expressions, argument parsing and output
wording, data transfer objects, a broken stdout pipe (nothing can be observed
afterwards), and Telegram itself beyond ascending message numbers. Deleted
messages (gaps in the numbers) are not modelled either: a gap behaves as a
message that is off topic.
