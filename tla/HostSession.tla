---------------------------- MODULE HostSession ----------------------------
(***************************************************************************)
(* The Python host: WorkerProcess owns one worker process and exposes a    *)
(* JsonlWorkerClient.  The user's thread calls both, one call at a time,   *)
(* and lets go of the client when it closes the process; start's hello and *)
(* close's shutdown run in a helper thread, so that they can time out.     *)
(*                                                                         *)
(* The worker is what the client can see of WorkerServer: it answers the   *)
(* requests in order and writes live records next to the answers.          *)
(***************************************************************************)
EXTENDS Naturals, Sequences

CONSTANTS
    User, Helper,  \* the user's thread and the helper thread
    MaxSessions,   \* bound: how often the process is started
    MaxRequests,   \* bound: how many requests one session gets, but for its shutdown
    MaxLive,       \* bound: how many live messages one session gets
    MaxMessages    \* bound: how many messages one export has

ASSUME HostAssumption ==
    /\ User # Helper
    /\ {MaxSessions, MaxLive, MaxMessages} \subseteq Nat
    /\ MaxRequests \in Nat \ {0}   \* A start sends its hello.

Threads == {User, Helper}

\* What the user asks of the client; "dialogs.list" stands for the plain requests.
UserOperations == {"dialogs.list", "messages.export", "messages.listen", "messages.stop"}
Operations == UserOperations \cup {"hello", "shutdown"}
NoRequest == [id |-> 0, operation |-> "none"]
Ids == 1..(MaxRequests + 1)
Requests == [id : Ids, operation : Operations]

\* A record of the worker; id 0 is a live record, n counts messages (0: export.started).
Record(kind, id, n) == [kind |-> kind, id |-> id, n |-> n]
Kinds == {"response", "error", "fatal", "event", "garbage"}

VARIABLES
    at,        \* [Threads -> where a thread is]
    call,      \* [Threads -> the request a thread waits for]
    purpose,   \* what the helper is for: "start" or "close"
    owned,     \* _process and client are set
    nextId,    \* _next_request_id
    broken,    \* _session_error is set
    callback,  \* _live_message_callback is set
    requests,  \* the worker's stdin
    records,   \* the worker's stdout
    closed,    \* the host's ends of the pipes are closed
    process,   \* "none", "running" or "dead"
    worker,    \* the request it serves, whether it still serves, its listener, its counts
    sessions,  \* history: how often the process was started
    abandoned, \* history: Ctrl-C kept close from ending a process that runs
    heard,     \* history: live messages that the user was given
    lost,      \* history: live messages that the client read and dropped
    deaf,      \* history: the last start_listening failed, or had no callback
    torn       \* history: a live error took the place of an answer

client  == <<nextId, broken, callback>>
pipes   == <<requests, records, closed>>
history == <<heard, lost, deaf, torn>>
vars == <<at, call, purpose, owned, client, pipes, process, worker, sessions, abandoned, history>>

Idle == [serving |-> NoRequest, serves |-> TRUE, listening |-> "no", late |-> 0, runaway |-> FALSE,
         live |-> 0, n |-> 0]

TypeOK ==
    /\ at \in [Threads -> {"idle", "send", "read", "callback", "ok", "raised",
                           "join", "terminate", "close"}]
    /\ call \in [Threads -> Requests \cup
                           [id : {0}, operation : {"none", "read_event"} \cup Operations]]
    /\ purpose \in {"start", "close"}
    /\ {owned, broken, callback, closed, abandoned, deaf, torn} \subseteq BOOLEAN
    /\ nextId \in 1..(MaxRequests + 2)
    /\ requests \in Seq(Requests)
    /\ records \in Seq([kind : Kinds, id : {0} \cup Ids, n : Nat])
    /\ process \in {"none", "running", "dead"}
    /\ worker \in [serving : Requests \cup {NoRequest}, serves : BOOLEAN,
                   listening : {"no", "yes", "stray"}, late : Nat, runaway : BOOLEAN,
                   live : 0..MaxLive, n : 0..(MaxMessages + 1)]
    /\ sessions \in 0..MaxSessions
    /\ {heard, lost} \subseteq 0..MaxLive /\ heard + lost <= worker.live
    \* The ids in use were given out before.
    /\ \A t \in Threads : call[t].id < nextId
    /\ \A i \in DOMAIN requests : requests[i].id < nextId

Init ==
    /\ at = [t \in Threads |-> "idle"]
    /\ call = [t \in Threads |-> NoRequest]
    /\ purpose = "start" /\ owned = FALSE
    /\ nextId = 1 /\ broken = FALSE /\ callback = FALSE
    /\ requests = <<>> /\ records = <<>> /\ closed = FALSE
    /\ process = "none" /\ worker = Idle
    /\ sessions = 0 /\ abandoned = FALSE
    /\ heard = 0 /\ lost = 0 /\ deaf = FALSE /\ torn = FALSE

(***************************************************************************)
(* How a call into the client ends, and what its wrapper does then.        *)
(***************************************************************************)
Comes(t, where) == at' = [at EXCEPT ![t] = where]

Ends(t, how) ==
    /\ Comes(t, IF t = User THEN "idle" ELSE how)
    /\ call' = [call EXCEPT ![t] = NoRequest]

Raises(t, operation) ==
    /\ Ends(t, "raised")
    /\ callback' = (callback /\ operation # "messages.listen")
    /\ deaf' = (deaf \/ operation = "messages.listen")

Returns(t, operation) ==
    /\ Ends(t, "ok")
    /\ callback' = (callback /\ operation # "messages.stop")
    /\ deaf' = (deaf /\ operation # "messages.stop")

(***************************************************************************)
(* Sending.  start_listening sets its callback, or none, before its        *)
(* request.                                                                *)
(***************************************************************************)
CallbackClearedEarly(operation) ==  \* Mutant: stop_listening clears it before its request.
    IF operation = "messages.listen" THEN BOOLEAN ELSE {callback /\ operation # "messages.stop"}
CallbackAtCall(operation) == IF operation = "messages.listen" THEN BOOLEAN ELSE {callback}

SendRefused(t, operation) ==
    /\ broken
    /\ Raises(t, operation)
    /\ UNCHANGED <<nextId, requests>>

\* The user's payload is too large, or the pipe is broken: the id is spent.
SendFails(t, operation) ==
    /\ ~broken /\ (t = User \/ closed \/ process # "running")
    /\ nextId' = nextId + 1
    /\ Raises(t, operation)
    /\ UNCHANGED requests

NextIdKept == nextId  \* Mutant: the id is not counted up.
NextId == nextId + 1

SendWrites(t, operation) ==
    /\ ~broken /\ ~closed /\ process = "running"
    /\ nextId' = NextId
    /\ call' = [call EXCEPT ![t] = [id |-> nextId, operation |-> operation]]
    /\ requests' = Append(requests, call'[t])
    /\ Comes(t, "read")
    /\ callback' \in CallbackAtCall(operation)
    /\ deaf' = IF operation = "messages.listen" THEN ~callback' ELSE deaf

Sends(t, operation) ==
    /\ SendRefused(t, operation) \/ SendFails(t, operation) \/ SendWrites(t, operation)
    /\ UNCHANGED <<purpose, owned, broken, records, closed, process, worker, sessions, abandoned,
                   heard, lost, torn>>

UserRequests(operation) ==
    at[User] = "idle" /\ owned /\ nextId <= MaxRequests /\ Sends(User, operation)

HelperSends ==
    /\ at[Helper] = "send"
    /\ Sends(Helper, IF purpose = "start" THEN "hello" ELSE "shutdown")

UsableUnchecked == TRUE  \* Mutant: read_event does not look at the session's error.
Usable == ~broken

ReadEvent ==
    /\ at[User] = "idle" /\ owned /\ Usable
    /\ Comes(User, "read")
    /\ call' = [call EXCEPT ![User] = [id |-> 0, operation |-> "read_event"]]
    /\ UNCHANGED <<purpose, owned, client, pipes, process, worker, sessions, abandoned, history>>

(***************************************************************************)
(* Reading: request, stream_messages and read_event take records until     *)
(* one ends the call.  The record that cannot be decoded, or whose payload *)
(* or operation is wrong, is "garbage".                                    *)
(***************************************************************************)
Takes(t) ==
    /\ at[t] = "read" /\ ~closed /\ records # <<>>
    /\ records' = Tail(records)
    /\ UNCHANGED <<purpose, owned, nextId, requests, closed, process, worker, sessions, abandoned>>

Item == Head(records)
IsEvent == Item.id = 0 /\ Item.kind = "event"
IsFailure == Item.kind \in {"error", "fatal"}
MineAny(t) == Item.id # 0 /\ call[t].operation # "read_event"  \* Mutant: the id is not compared.
Mine(t) == Item.id = call[t].id /\ Item.id # 0

Exports(t) == call[t].operation = "messages.export"
ReadsOne(t) == call[t].operation = "read_event"

\* _dispatch_live_event: request goes on after it, read_event returns the message.
LiveMessage(t) ==
    /\ Takes(t) /\ IsEvent /\ ~Exports(t)
    /\ IF callback THEN Comes(t, "callback") /\ UNCHANGED <<call, callback, deaf>>
       ELSE IF ReadsOne(t) THEN Returns(t, "read_event")
       ELSE UNCHANGED <<at, call, callback, deaf>>
    /\ heard' = IF callback \/ ReadsOne(t) THEN heard + 1 ELSE heard
    /\ lost' = IF callback \/ ReadsOne(t) THEN lost ELSE lost + 1
    /\ UNCHANGED <<broken, torn>>

\* A live error is raised from whatever reads it, and the request stays unanswered.
LiveFailure(t) ==
    /\ Takes(t) /\ Item.id = 0 /\ IsFailure /\ ~Exports(t)
    /\ Raises(t, call[t].operation)
    /\ broken' = (broken \/ Item.kind = "fatal")
    /\ torn' = (torn \/ ~ReadsOne(t))
    /\ UNCHANGED <<heard, lost>>

Answer(t) ==
    /\ Takes(t) /\ Mine(t) /\ Item.kind = "response"
    /\ Returns(t, call[t].operation)
    /\ UNCHANGED <<broken, heard, lost, torn>>

Refusal(t) ==
    /\ Takes(t) /\ Mine(t) /\ IsFailure
    /\ Raises(t, call[t].operation)
    /\ broken' = (broken \/ Item.kind = "fatal")
    /\ UNCHANGED <<heard, lost, torn>>

ExportEvent(t) ==
    /\ Takes(t) /\ Mine(t) /\ Exports(t) /\ Item.kind = "event"
    /\ IF Item.n > 0 THEN Comes(t, "callback") ELSE UNCHANGED at
    /\ UNCHANGED <<call, broken, callback, history>>

\* Another id, a kind out of place, garbage: the session is unusable from here on.
\* A live message is out of place in an export, and dropped.
Unexpected(t) ==
    /\ Takes(t)
    /\ Item.id = 0 => Item.kind = "garbage" \/ Exports(t)
    /\ Mine(t) => Item.kind = "event" /\ ~Exports(t)
    /\ broken' = TRUE
    /\ Raises(t, call[t].operation)
    /\ lost' = IF IsEvent THEN lost + 1 ELSE lost
    /\ UNCHANGED <<heard, torn>>

WorkerEof(t) ==
    /\ at[t] = "read" /\ ~closed /\ records = <<>> /\ process = "dead"
    /\ broken' = TRUE
    /\ Raises(t, call[t].operation)
    /\ UNCHANGED <<purpose, owned, nextId, pipes, process, worker, sessions, abandoned,
                   heard, lost, torn>>

ReadsClosed(t) ==
    /\ at[t] = "read" /\ closed
    /\ Raises(t, call[t].operation)
    /\ UNCHANGED <<purpose, owned, nextId, broken, pipes, process, worker, sessions, abandoned,
                   heard, lost, torn>>

CallbackReturns(t) ==
    /\ at[t] = "callback"
    /\ IF ReadsOne(t) THEN Returns(t, "read_event")
                      ELSE Comes(t, "read") /\ UNCHANGED <<call, callback, deaf>>
    /\ UNCHANGED <<purpose, owned, nextId, broken, pipes, process, worker, sessions, abandoned,
                   heard, lost, torn>>

CallbackForgiven(t) ==  \* Mutant: what it throws reaches the caller, the session stays usable.
    /\ at[t] = "callback"
    /\ Raises(t, call[t].operation)
    /\ UNCHANGED <<purpose, owned, nextId, broken, pipes, process, worker, sessions, abandoned,
                   heard, lost, torn>>

CallbackThrows(t) ==
    /\ at[t] = "callback"
    /\ broken' = TRUE
    /\ Raises(t, call[t].operation)
    /\ UNCHANGED <<purpose, owned, nextId, pipes, process, worker, sessions, abandoned,
                   heard, lost, torn>>

\* Ctrl-C in a readline that waits: the request stays unanswered, the session usable.
Interrupted ==
    /\ at[User] = "read" /\ ~closed /\ records = <<>> /\ process = "running" /\ ~torn
    /\ Raises(User, call[User].operation)
    /\ torn' = (torn \/ ~ReadsOne(User))
    /\ UNCHANGED <<purpose, owned, nextId, broken, pipes, process, worker, sessions, abandoned,
                   heard, lost>>

(***************************************************************************)
(* start, close and their _call_with_timeout and _cleanup_process.         *)
(***************************************************************************)
Launch(why) ==
    /\ at' = [at EXCEPT ![User] = "join", ![Helper] = "send"]
    /\ purpose' = why

\* A new process and a new client.  The last helper has let go of the old ones; a
\* process that was abandoned has ended, since there is one at a time in this model.
Start ==
    /\ at[User] = "idle" /\ ~owned /\ at[Helper] \in {"idle", "ok", "raised"}
    /\ process # "running" /\ abandoned' = FALSE
    /\ sessions < MaxSessions /\ sessions' = sessions + 1
    /\ process' = "running" /\ worker' = Idle
    /\ nextId' = 1 /\ broken' = FALSE /\ callback' = FALSE
    /\ requests' = <<>> /\ records' = <<>> /\ closed' = FALSE
    /\ heard' = 0 /\ lost' = 0 /\ deaf' = FALSE /\ torn' = FALSE
    /\ call' = [t \in Threads |-> NoRequest]
    /\ \/ Launch("start") /\ UNCHANGED owned
       \/ owned' = TRUE /\ Comes(Helper, "idle") /\ purpose' = "start"   \* startup_hello is off

Close ==
    /\ at[User] = "idle" /\ owned
    /\ IF process = "running" THEN Launch("close")
                              ELSE Comes(User, "terminate") /\ purpose' = "close"
    /\ UNCHANGED <<call, owned, client, pipes, process, worker, sessions, abandoned, history>>

Cleanup(from, to) ==
    /\ at[User] = from
    /\ Comes(User, to)
    /\ UNCHANGED <<call, purpose, owned, client, pipes, process, worker, sessions, abandoned,
                   history>>

HelloArrived ==
    /\ at[User] = "join" /\ at[Helper] = "ok" /\ purpose = "start"
    /\ Comes(User, "idle") /\ owned' = TRUE
    /\ UNCHANGED <<call, purpose, client, pipes, process, worker, sessions, abandoned, history>>

JoinEnds ==
    /\ at[Helper] = "raised" \/ (at[Helper] = "ok" /\ purpose = "close")
    /\ Cleanup("join", "terminate")

JoinAccepts ==  \* Mutant: a hello that timed out counts as a start.
    /\ at[User] = "join" /\ at[Helper] \notin {"ok", "raised"}
    /\ Comes(User, "idle") /\ owned' = (purpose = "start")
    /\ UNCHANGED <<call, purpose, client, pipes, process, worker, sessions, abandoned, history>>

JoinForever == FALSE  \* Mutant: the join has no timeout.

JoinTimesOut == at[Helper] \notin {"ok", "raised"} /\ Cleanup("join", "terminate")

\* What it had of the host's requests goes with it; what it wrote can still be read.
Dies ==
    /\ process = "running" /\ process' = "dead"
    /\ requests' = <<>> /\ abandoned' = FALSE
    /\ worker' = [worker EXCEPT !.serving = NoRequest, !.n = 0, !.serves = FALSE,
                                !.listening = "no", !.late = 0]

\* terminate has sent its signal, and the worker exits of it or not.
Exited == process = "dead" /\ Cleanup("terminate", "close")

KillForgotten == Cleanup("terminate", "close")  \* Mutant: the timeout is taken for an exit.

Kill ==
    /\ at[User] = "terminate" /\ Dies
    /\ Comes(User, "close")
    /\ UNCHANGED <<call, purpose, owned, client, records, closed, sessions, history>>

\* stdout.close() waits for a readline of the helper.
CloseStreams ==
    /\ at[User] = "close"
    /\ process = "running" => at[Helper] # "read"
    /\ Comes(User, "idle")
    /\ closed' = TRUE /\ owned' = FALSE
    /\ UNCHANGED <<call, purpose, client, requests, records, process, worker, sessions, abandoned,
                   history>>

(***************************************************************************)
(* Ctrl-C while the user's thread waits in start or close.  start catches  *)
(* it and cleans up.  close does not: it forgets the process as it is, and *)
(* a cleanup that is cut short only closes the pipes.                      *)
(***************************************************************************)
StartInterrupted == purpose = "start" /\ Cleanup("join", "terminate")

CleanupInterrupted ==
    /\ at[User] = "terminate"
    /\ Comes(User, "close")
    /\ abandoned' = (process = "running")
    /\ UNCHANGED <<call, purpose, owned, client, pipes, process, worker, sessions, history>>

CloseInterrupted ==
    /\ at[User] = "close" \/ (at[User] = "join" /\ purpose = "close")
    /\ Comes(User, "idle") /\ owned' = FALSE
    /\ abandoned' = (process = "running")
    /\ UNCHANGED <<call, purpose, client, pipes, process, worker, sessions, history>>

(***************************************************************************)
(* The worker.                                                             *)
(***************************************************************************)
Works == process = "running" /\ worker.serves
HostKept ==
    UNCHANGED <<at, call, purpose, owned, client, closed, process, sessions, abandoned, history>>
Writes(item) == records' = Append(records, item) /\ UNCHANGED requests /\ HostKept

WorkerTakes ==
    /\ Works /\ worker.serving = NoRequest /\ requests # <<>>
    /\ worker' = [worker EXCEPT !.serving = Head(requests)]
    /\ requests' = Tail(requests)
    /\ UNCHANGED records /\ HostKept

WorkerExports ==
    /\ Works /\ worker.serving.operation = "messages.export" /\ worker.n <= MaxMessages
    /\ worker' = [worker EXCEPT !.n = @ + 1]
    /\ Writes(Record("event", worker.serving.id, worker.n))

(***************************************************************************)
(* What a successful operation does to the listener.  A listener that has  *)
(* failed may be replaced, or stopped, before it reports: the report comes *)
(* late, and clears the flag of the listener that runs by then.  A stop    *)
(* does not find such a "stray" listener.                                  *)
(***************************************************************************)
Listening(operation) ==
    LET stopped == [worker EXCEPT !.listening = "no"]
        started == [worker EXCEPT !.listening = "yes"]
        Late(w) == [w EXCEPT !.late = @ + 1]
    IN  CASE operation = "messages.listen" ->
               {IF worker.listening = "stray" THEN Late(started) ELSE started}
          [] operation = "messages.stop" /\ worker.listening = "yes" -> {stopped, Late(stopped)}
          [] operation = "messages.stop" /\ worker.listening = "stray" ->
               {[worker EXCEPT !.runaway = TRUE]}
          [] OTHER -> {worker}

WorkerAnswers ==
    LET operation == worker.serving.operation
    IN  /\ Works /\ worker.serving # NoRequest
        /\ operation = "messages.export" => worker.n > 0
        /\ operation = "messages.listen" => worker.listening # "yes"
        /\ \E after \in Listening(operation) :
             worker' = [after EXCEPT !.serving = NoRequest, !.n = 0,
                                     !.serves = operation # "shutdown"]
        /\ Writes(Record("response", worker.serving.id, 0))

WorkerRefuses ==
    /\ Works /\ worker.serving.operation \in {"dialogs.list", "messages.export", "messages.listen"}
    /\ \E kind \in {"error", "fatal"} :
         /\ worker' = [worker EXCEPT !.serving = NoRequest, !.n = 0, !.serves = kind = "error"]
         /\ Writes(Record(kind, worker.serving.id, 0))

\* The polling thread, which goes on until the process ends.
WorkerLive ==
    /\ process = "running" /\ worker.listening # "no" /\ worker.live < MaxLive
    /\ worker' = [worker EXCEPT !.live = @ + 1]
    /\ Writes(Record("event", 0, worker.live + 1))

\* A fatal one makes the main thread leave, after at most one more request.
WorkerLiveFails ==
    /\ process = "running" /\ worker.listening # "no"
    /\ worker' = [worker EXCEPT !.listening = "no"]
    /\ \E kind \in {"error", "fatal"} : Writes(Record(kind, 0, 0))

WorkerReportsLate ==
    /\ process = "running" /\ worker.late > 0
    /\ worker' = [worker EXCEPT !.late = @ - 1,
                                !.listening = IF @ = "yes" THEN "stray" ELSE @]
    /\ Writes(Record("error", 0, 0))

\* Its main thread stops with a record that is broken, or a session error.
WorkerHangs ==
    /\ Works
    /\ worker' = [worker EXCEPT !.serves = FALSE]
    /\ \E kind \in {"garbage", "fatal"} : Writes(Record(kind, 0, 0))

\* It crashes, or exits because it is told to.
WorkerExits ==
    /\ Dies
    /\ UNCHANGED <<at, call, purpose, owned, client, records, closed, sessions, history>>
-----------------------------------------------------------------------------
Reads(t) ==
    \/ LiveMessage(t) \/ LiveFailure(t) \/ Answer(t) \/ Refusal(t) \/ ExportEvent(t)
    \/ Unexpected(t) \/ WorkerEof(t) \/ ReadsClosed(t)
    \/ CallbackReturns(t) \/ CallbackThrows(t)

Interrupts == Interrupted \/ StartInterrupted \/ CleanupInterrupted \/ CloseInterrupted

StartOrClose ==
    \/ HelloArrived \/ JoinEnds \/ JoinTimesOut
    \/ Exited \/ Kill \/ CloseStreams

HelperGoesOn == HelperSends \/ Reads(Helper)

WorkerSteps ==
    \/ WorkerTakes \/ WorkerExports \/ WorkerAnswers \/ WorkerRefuses
    \/ WorkerLive \/ WorkerLiveFails \/ WorkerReportsLate \/ WorkerHangs \/ WorkerExits

Next ==
    \/ Start \/ Close \/ StartOrClose
    \/ \E operation \in UserOperations : UserRequests(operation)
    \/ ReadEvent
    \/ Reads(User)
    \/ HelperGoesOn
    \/ Interrupts
    \/ WorkerSteps

Spec == Init /\ [][Next]_vars

\* The threads run and a callback comes to an end; the worker owes nothing.
FairSpec == Spec /\ WF_vars(StartOrClose) /\ WF_vars(HelperGoesOn)
-----------------------------------------------------------------------------
(***************************************************************************)
(* Properties.                                                             *)
(***************************************************************************)
\* A call that returns has its own answer, also when a live error has left
\* that of an earlier call unread: nothing of its request is left then, neither
\* in the pipes nor in the worker's hands.
Due(id) ==
    \/ \E i \in DOMAIN requests : requests[i].id = id
    \/ worker.serving.id = id
    \/ \E i \in DOMAIN records : records[i].id = id

AnswersItsRequest ==
    [][\A t \in Threads, id \in Ids : Answer(t) /\ call[t].id = id => ~Due(id)']_vars

\* Between two calls a usable session and its worker are in step: no request
\* is open and nothing but live records is unread, unless a live error took
\* the place of an answer.
InStepOrBroken ==
    at[User] = "idle" /\ owned /\ ~broken /\ ~torn =>
        /\ requests = <<>> /\ worker.serving = NoRequest
        /\ \A i \in DOMAIN records : records[i].id = 0

\* Once the session has failed, nothing is sent and nothing is read.
BrokenIsSilent ==
    [][broken /\ sessions' = sessions =>
         /\ broken'
         /\ Len(requests') <= Len(requests) /\ Len(records') >= Len(records)]_vars

\* A live message that the client reads reaches the user, also while a stop is under
\* way.  Otherwise the session fails with it, the last start_listening has failed or
\* gave no callback, or a stop has been answered although the listener ran on.
ListenerHears == [][lost' # lost /\ sessions' = sessions => broken' \/ deaf \/ worker.runaway]_vars

\* Nobody leaves a worker behind: neither a close nor a start that fails, but for
\* those that Ctrl-C cuts short.
NoOrphan == at[User] = "idle" /\ ~owned /\ ~abandoned => process # "running"

\* The client is not shared: while the user has it, the helper has let go.
HelperLetsGo ==
    owned /\ at[User] \in {"idle", "read", "callback"} => at[Helper] \in {"idle", "ok", "raised"}

\* Start and close end however the worker behaves, and so do their helpers, unless
\* Ctrl-C has left the process alone.
StartsAndCloses ==
    /\ at[User] \in {"join", "terminate", "close"} ~> at[User] = "idle" \/ abandoned
    /\ at[Helper] \in {"send", "read", "callback"} ~>
         at[Helper] \in {"idle", "ok", "raised"} \/ abandoned
=============================================================================
