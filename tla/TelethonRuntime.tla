-------------------------- MODULE TelethonRuntime --------------------------
(***************************************************************************)
(* _TelethonRuntime: one thread owns the Telethon client and runs the      *)
(* operations other threads hand it.  A call waits for one result; a       *)
(* stream reads values from a bounded queue and may be left early.         *)
(*                                                                         *)
(* Its users are the main thread of the worker (calls, streams, close) and *)
(* polling threads (calls).  close is called after stop_listening has      *)
(* joined the polling thread, so no other user is inside the runtime then: *)
(* LiveWorkerProofs!ExitIsQuiet.                                           *)
(***************************************************************************)
EXTENDS Naturals, Sequences

CONSTANTS
    Pollers,     \* the polling threads
    Main,        \* the main thread
    Capacity,    \* maxsize of a stream's output queue
    MaxStreams,  \* bound: how many streams are ever started
    MaxItems     \* bound: how many values one stream makes

ASSUME RuntimeAssumption ==
    /\ Main \notin Pollers
    /\ Capacity \in Nat \ {0}
    /\ MaxStreams \in Nat
    /\ MaxItems \in Nat

Callers == Pollers \cup {Main}
Streams == 1..MaxStreams

\* What the queue of tasks holds.
CallTask(c)   == [kind |-> "call", from |-> c, stream |-> 0]
StreamTask(s) == [kind |-> "stream", from |-> Main, stream |-> s]
StopTask      == [kind |-> "stop", from |-> Main, stream |-> 0]
Tasks == {CallTask(c) : c \in Callers} \cup {StreamTask(s) : s \in Streams} \cup {StopTask}
NoTask == [kind |-> "none", from |-> Main, stream |-> 0]

\* What a stream's output queue holds.
Value(n) == [what |-> "value", n |-> n]
Failure  == [what |-> "failed", n |-> 0]
Done     == [what |-> "done", n |-> 0]
Items == [what : {"value"}, n : 1..MaxItems] \cup {Failure, Done}

VARIABLES
    at,       \* [Callers -> where in call, stream or close a user is]
    answer,   \* [Callers -> the Future of the user's call]
    thread,   \* _thread is set
    ready,    \* the event _ready
    tasks,    \* the queue _tasks
    runtime,  \* where _run is
    client,   \* _run has a connected client (and _client_active is set)
    task,     \* the task _run works on
    offer,    \* what emit or _put_stream_marker puts next
    streams,  \* how many streams were started; the last one is the main thread's
    output,   \* [Streams -> the output queue]
    cancel,   \* [Streams -> the cancel event]
    made,     \* history: [Streams -> how many values the operation emitted]
    ended,    \* history: [Streams -> how the operation ended]
    got,      \* history: [Streams -> the last value the caller was given]
    seen      \* history: [Streams -> how the stream ended for its caller]

owner    == <<runtime, client, task, offer>>
history  == <<made, ended, got, seen>>
ends     == <<output, cancel>>
vars == <<at, answer, thread, ready, tasks, owner, streams, ends, history>>

TypeOK ==
    /\ at \in [Callers -> {"idle", "ready.call", "ready.stream", "call", "get", "body", "joining"}]
    /\ \A c \in Pollers : at[c] \in {"idle", "ready.call", "call"}
    /\ answer \in [Callers -> {"none", "value", "error"}]
    /\ {thread, ready, client} \subseteq BOOLEAN
    /\ tasks \in Seq(Tasks)
    /\ runtime \in {"off", "start", "get", "connect", "work", "check", "put", "ending"}
    /\ task \in Tasks \cup {NoTask}
    /\ offer \in Items
    /\ streams \in 0..MaxStreams
    /\ output \in [Streams -> Seq(Items)]
    /\ \A s \in Streams : Len(output[s]) <= Capacity
    /\ cancel \in [Streams -> BOOLEAN]
    /\ made \in [Streams -> 0..MaxItems] /\ got \in [Streams -> 0..MaxItems]
    /\ ended \in [Streams -> {"open", "done", "failed"}]
    /\ seen \in [Streams -> {"open", "done", "failed", "left"}]

Init ==
    /\ at = [c \in Callers |-> "idle"]
    /\ answer = [c \in Callers |-> "none"]
    /\ thread = FALSE /\ ready = FALSE
    /\ tasks = <<>>
    /\ runtime = "off" /\ client = FALSE /\ task = NoTask /\ offer = Done
    /\ streams = 0
    /\ output = [s \in Streams |-> <<>>]
    /\ cancel = [s \in Streams |-> FALSE]
    /\ made = [s \in Streams |-> 0] /\ got = [s \in Streams |-> 0]
    /\ ended = [s \in Streams |-> "open"] /\ seen = [s \in Streams |-> "open"]

Goes(c, from, to) == at[c] = from /\ at' = [at EXCEPT ![c] = to]

(***************************************************************************)
(* call and stream.                                                        *)
(***************************************************************************)
\* _ensure_started: _start_lock is held for the test and the start only.
EnsureStarted(c, waits) ==
    /\ at[Main] # "joining"
    /\ Goes(c, "idle", waits)
    /\ thread' = TRUE
    /\ runtime' = IF thread THEN runtime ELSE "start"
    /\ UNCHANGED <<answer, ready, tasks, client, task, offer, streams, ends, history>>

BeginCall(c) == EnsureStarted(c, "ready.call")
BeginStream  == streams < MaxStreams /\ EnsureStarted(Main, "ready.stream")

Submit(c) ==
    /\ ready
    /\ Goes(c, "ready.call", "call")
    /\ tasks' = Append(tasks, CallTask(c))
    /\ answer' = [answer EXCEPT ![c] = "none"]
    /\ UNCHANGED <<thread, ready, owner, streams, ends, history>>

CallReturns(c) ==
    /\ answer[c] # "none"
    /\ Goes(c, "call", "idle")
    /\ UNCHANGED <<answer, thread, ready, tasks, owner, streams, ends, history>>

SubmitStream ==
    /\ ready
    /\ Goes(Main, "ready.stream", "get")
    /\ streams' = streams + 1
    /\ tasks' = Append(tasks, StreamTask(streams + 1))
    /\ UNCHANGED <<answer, thread, ready, owner, ends, history>>

\* output.get() returns: a value is yielded, a marker ends the stream.
StreamTakes ==
    /\ at[Main] = "get" /\ output[streams] # <<>>
    /\ output' = [output EXCEPT ![streams] = Tail(@)]
    /\ LET item == Head(output[streams])
       IN  \/ /\ item.what = "value"
              /\ Goes(Main, "get", "body")
              /\ got' = [got EXCEPT ![streams] = item.n]
              /\ UNCHANGED <<cancel, seen>>
           \/ /\ item.what # "value"
              /\ Goes(Main, "get", "idle")
              /\ cancel' = [cancel EXCEPT ![streams] = TRUE]
              /\ seen' = [seen EXCEPT ![streams] = item.what]
              /\ UNCHANGED got
    /\ UNCHANGED <<answer, thread, ready, tasks, owner, streams, made, ended>>

StreamResumes ==
    /\ Goes(Main, "body", "get")
    /\ UNCHANGED <<answer, thread, ready, tasks, owner, streams, ends, history>>

\* The export has its limit, or failed to write: the generator is closed.
StreamAbandoned ==
    /\ Goes(Main, "body", "idle")
    /\ cancel' = [cancel EXCEPT ![streams] = TRUE]
    /\ seen' = [seen EXCEPT ![streams] = "left"]
    /\ UNCHANGED <<answer, thread, ready, tasks, owner, streams, output, made, ended, got>>

(***************************************************************************)
(* close, by the main thread, while no other user is inside.               *)
(***************************************************************************)
CloseBegin ==
    /\ thread
    /\ \A c \in Pollers : at[c] = "idle"
    /\ Goes(Main, "idle", "joining")
    /\ tasks' = Append(tasks, StopTask)
    /\ UNCHANGED <<answer, thread, ready, owner, streams, ends, history>>

CloseNotJoined ==  \* Mutant: the join is missing.
    /\ Goes(Main, "joining", "idle")
    /\ thread' = FALSE /\ ready' = FALSE
    /\ UNCHANGED <<answer, tasks, owner, streams, ends, history>>

CloseJoined ==
    /\ runtime = "off"
    /\ Goes(Main, "joining", "idle")
    /\ thread' = FALSE /\ ready' = FALSE
    /\ UNCHANGED <<answer, tasks, owner, streams, ends, history>>

(***************************************************************************)
(* The runtime thread.                                                     *)
(***************************************************************************)
Loop(state) == runtime' = state /\ UNCHANGED <<at, thread, streams>>

RunStarts ==
    /\ runtime = "start"
    /\ Loop("get")
    /\ ready' = TRUE
    /\ UNCHANGED <<answer, tasks, client, task, offer, ends, history>>

RunTakes ==
    /\ runtime = "get" /\ tasks # <<>>
    /\ task' = Head(tasks) /\ tasks' = Tail(tasks)
    /\ Loop(IF task'.kind = "stop" THEN "ending" ELSE IF client THEN "work" ELSE "connect")
    /\ UNCHANGED <<answer, ready, client, offer, ends, history>>

Connects ==
    /\ runtime = "connect"
    /\ Loop("work")
    /\ client' = TRUE
    /\ UNCHANGED <<answer, ready, tasks, task, offer, ends, history>>

\* The task's future gets its result, or the exception.
Answers(result) ==
    /\ task.kind = "call"
    /\ Loop("get")
    /\ answer' = [answer EXCEPT ![task.from] = result]
    /\ task' = NoTask
    /\ UNCHANGED <<ready, tasks, client, offer, ends, history>>

\* The operation returned or raised: its marker is put.
Ends(marker) ==
    /\ task.kind = "stream"
    /\ Loop("check")
    /\ offer' = marker
    /\ ended' = [ended EXCEPT ![task.stream] = marker.what]
    /\ UNCHANGED <<answer, ready, tasks, client, task, ends, made, got, seen>>

ConnectFailsUnsaid ==  \* Mutant: a stream whose client cannot connect is dropped.
    /\ runtime = "connect"
    /\ \/ Answers("error")
       \/ /\ task.kind = "stream"
          /\ Loop("get")
          /\ task' = NoTask
          /\ UNCHANGED <<answer, ready, tasks, client, offer, ends, history>>

\* _create_client raises; the client stays None and the next task tries again.
ConnectFails == runtime = "connect" /\ (Answers("error") \/ Ends(Failure))

CallEnds == runtime = "work" /\ (Answers("value") \/ Answers("error"))

StreamEmits ==
    /\ runtime = "work" /\ task.kind = "stream"
    /\ made[task.stream] < MaxItems
    /\ Loop("check")
    /\ made' = [made EXCEPT ![task.stream] = @ + 1]
    /\ offer' = Value(made'[task.stream])
    /\ UNCHANGED <<answer, ready, tasks, client, task, ends, ended, got, seen>>

StreamEnds == runtime = "work" /\ (Ends(Done) \/ Ends(Failure))

(***************************************************************************)
(* emit and _put_stream_marker: while not cancelled, put with a timeout.   *)
(* Once the event is set emit raises and the markers that would follow are *)
(* dropped by the same test: the event is never cleared.                   *)
(***************************************************************************)
CancelledUnseen == FALSE  \* Mutant: the loops do not look at the event.
Cancelled == cancel[task.stream]

PutCancelled ==
    /\ runtime = "check" /\ Cancelled
    /\ Loop("get")
    /\ task' = NoTask
    /\ UNCHANGED <<answer, ready, tasks, client, offer, ends, history>>

PutTries ==
    /\ runtime = "check" /\ ~Cancelled
    /\ Loop("put")
    /\ UNCHANGED <<answer, ready, tasks, client, task, offer, ends, history>>

AfterPut ==
    \/ /\ offer.what = "value"
       /\ Loop("work")
       /\ UNCHANGED <<task, offer>>
    \/ /\ offer.what = "failed"
       /\ Loop("check")
       /\ offer' = Done
       /\ UNCHANGED task
    \/ /\ offer.what = "done"
       /\ Loop("get")
       /\ task' = NoTask
       /\ UNCHANGED offer

HasRoomUnbounded(s) == TRUE  \* Mutant: the queue is created without maxsize.
HasRoom(s) == Len(output[s]) < Capacity

Puts ==
    /\ runtime = "put" /\ HasRoom(task.stream)
    /\ output' = [output EXCEPT ![task.stream] = Append(@, offer)]
    /\ AfterPut
    /\ UNCHANGED <<answer, ready, tasks, client, cancel, history>>

PutFullDrops ==  \* Mutant: on Full the item is given up.
    /\ runtime = "put" /\ ~HasRoom(task.stream)
    /\ AfterPut
    /\ UNCHANGED <<answer, ready, tasks, client, ends, history>>

\* Full after 0.1 s: the loop goes round.
PutFull ==
    /\ runtime = "put" /\ ~HasRoom(task.stream)
    /\ Loop("check")
    /\ UNCHANGED <<answer, ready, tasks, client, task, offer, ends, history>>

\* The stop marker: disconnect, _client_active is cleared, the thread ends.
RunEnds ==
    /\ runtime = "ending"
    /\ Loop("off")
    /\ client' = FALSE /\ task' = NoTask
    /\ UNCHANGED <<answer, ready, tasks, offer, ends, history>>
-----------------------------------------------------------------------------
Owner ==
    \/ RunStarts \/ RunTakes \/ Connects \/ ConnectFails \/ CallEnds
    \/ StreamEmits \/ StreamEnds
    \/ PutCancelled \/ PutTries \/ Puts \/ PutFull
    \/ RunEnds

GoesOn(c) == Submit(c) \/ CallReturns(c)
MainGoesOn ==
    \/ SubmitStream \/ StreamTakes \/ StreamResumes \/ StreamAbandoned
    \/ CloseJoined

Next ==
    \/ \E c \in Callers : BeginCall(c) \/ GoesOn(c)
    \/ BeginStream
    \/ MainGoesOn
    \/ CloseBegin
    \/ Owner

Spec == Init /\ [][Next]_vars

(***************************************************************************)
(* Fairness: the scheduler runs every thread, and what Telegram is asked   *)
(* returns or raises.  Nothing makes a thread call, stream or close.       *)
(***************************************************************************)
FairSpec ==
    /\ Spec
    /\ WF_vars(Owner)
    /\ WF_vars(MainGoesOn)
    /\ \A c \in Callers : WF_vars(GoesOn(c))
-----------------------------------------------------------------------------
(***************************************************************************)
(* Nobody waits for nothing: a call that waits is answered, queued or      *)
(* being run; a stream that waits has an item, or is queued or being run;  *)
(* and then there is a thread that will come to it.  It covers the failed  *)
(* connect, the end of a stream and a close next to an abandoned stream.   *)
(***************************************************************************)
Pending(t) == runtime # "off" /\ (t = task \/ \E i \in DOMAIN tasks : tasks[i] = t)

NobodyForgotten ==
    /\ \A c \in Callers : at[c] = "call" => answer[c] # "none" \/ Pending(CallTask(c))
    /\ at[Main] = "get" => output[streams] # <<>> \/ Pending(StreamTask(streams))

(***************************************************************************)
(* When close has returned, the thread has ended and disconnected its      *)
(* client, and its queue holds nothing the next thread would find: with    *)
(* one thread at a time, the client never meets a second one.              *)
(***************************************************************************)
ClosedIsClean == ~thread => runtime = "off" /\ ~client /\ ~ready /\ tasks = <<>>

(***************************************************************************)
(* The streams implement ResultStreams, through the bounded queue, its     *)
(* timeouts and the cancel event.                                          *)
(***************************************************************************)
Promise == INSTANCE ResultStreams

ImplementsStreams == Promise!Spec

(***************************************************************************)
(* Every call, stream and close comes to an end: an abandoned stream lets  *)
(* go of the only thread even if its queue is full.                        *)
(***************************************************************************)
EveryCallReturns == \A c \in Callers : at[c] # "idle" ~> at[c] = "idle"
-----------------------------------------------------------------------------
(***************************************************************************)
(* Inductive invariants.                                                   *)
(*                                                                         *)
(* OwnerInv: _thread tells whether there is a thread, and what it works on *)
(* fits where it is.                                                       *)
(* ThreadInv: users have a thread; a stop marker is the last task, and     *)
(* from its reception on there is only the main thread, joining.           *)
(* StreamInv: the stream the main thread reads is not cancelled, and a     *)
(* stream that is queued, or not started, is untouched.                    *)
(* WaitInv: a caller that waits is answered or pending; a stream that is   *)
(* read is pending or its end is in its queue.                             *)
(* OrderInv: the queue continues what the caller was given, up to what was *)
(* made but for the value that is being put, and the end comes last.       *)
(***************************************************************************)
Current(s) == task = StreamTask(s)

OwnerInv ==
    /\ ~thread => runtime = "off"
    /\ runtime \in {"off", "start", "get"} => task = NoTask
    /\ runtime \in {"connect", "work", "check", "put"} => task \in Tasks \ {StopTask}
    /\ runtime \in {"check", "put"} => task.kind = "stream"
    /\ runtime \in {"off", "start"} => ~client
    /\ runtime = "ending" => task = StopTask

ThreadInv ==
    /\ \A c \in Callers : at[c] # "idle" => thread
    /\ at[Main] = "joining" => \A c \in Pollers : at[c] = "idle"
    /\ \A i \in DOMAIN tasks : tasks[i] = StopTask => i = Len(tasks) /\ at[Main] = "joining"
    /\ runtime = "ending" \/ (runtime = "off" /\ thread) => at[Main] = "joining" /\ tasks = <<>>

Untouched(s) ==
    /\ output[s] = <<>> /\ ~cancel[s]
    /\ made[s] = 0 /\ got[s] = 0
    /\ ended[s] = "open" /\ seen[s] = "open"

StreamInv ==
    /\ at[Main] \in {"get", "body"} =>
         /\ streams > 0 /\ ~cancel[streams] /\ seen[streams] = "open"
         /\ at[Main] = "body" => got[streams] > 0
    /\ \A s \in Streams : s > streams => Untouched(s) /\ ~Current(s)
    /\ \A s \in Streams : \A i \in DOMAIN tasks : tasks[i] = StreamTask(s) =>
         /\ s <= streams /\ Untouched(s) /\ ~Current(s)
         /\ \A j \in DOMAIN tasks : tasks[j] = StreamTask(s) => j = i

EndQueued(s) == output[s] # <<>> /\ output[s][Len(output[s])] = Done

WaitInv ==
    /\ \A c \in Callers : at[c] = "call" => answer[c] # "none" \/ Pending(CallTask(c))
    /\ at[Main] \in {"get", "body"} => EndQueued(streams) \/ Pending(StreamTask(streams))

OnlyValues(s) == \A i \in DOMAIN output[s] : output[s][i].what = "value"

QueueInv(s) ==
    \A i \in DOMAIN output[s] :
        /\ output[s][i].what = "value" =>
             output[s][i].n = got[s] + i /\ got[s] + i <= made[s]
        /\ output[s][i].what = "failed" => ended[s] = "failed" /\ made[s] = got[s] + i - 1
        /\ output[s][i].what = "done" /\ seen[s] = "open" =>
             \/ ended[s] = "done" /\ made[s] = got[s] + i - 1
             \/ i > 1 /\ output[s][i - 1].what = "failed"

WorkInv(s) ==
    Current(s) =>
        /\ runtime \in {"connect", "work"} =>
             ended[s] = "open" /\ OnlyValues(s) /\ made[s] = got[s] + Len(output[s])
        /\ runtime \in {"check", "put"} =>
             \/ /\ offer.what = "value" /\ offer.n = made[s]
                /\ ended[s] = "open" /\ OnlyValues(s) /\ made[s] = got[s] + Len(output[s]) + 1
             \/ /\ offer.what # "value" /\ ended[s] = offer.what
                /\ OnlyValues(s) /\ made[s] = got[s] + Len(output[s])
             \/ /\ offer.what = "done" /\ ended[s] = "failed"
                /\ \/ seen[s] # "open"
                   \/ output[s] # <<>> /\ output[s][Len(output[s])].what = "failed"

OrderInv == \A s \in Streams : QueueInv(s) /\ WorkInv(s)
=============================================================================
