---------------------------- MODULE TelethonLive ----------------------------
(***************************************************************************)
(* The live listener of the Telethon backend (telethon_backend.py): the    *)
(* registration of at most one polling thread under _live_lock, the three  *)
(* phases of stop_listening (unregister, signal, join), and the polling    *)
(* thread itself with its high-water mark per chat.                        *)
(*                                                                         *)
(* A polling thread is named by its generation, the number start_listening *)
(* gives it.  _live_thread and _live_stop are always written together      *)
(* under the lock, so liveThread stands for both.  The callbacks on_message*)
(* and on_error belong to the server: this module says when they are       *)
(* called, LiveWorker joins them to what the server does.                  *)
(***************************************************************************)
EXTENDS Naturals, Sequences

CONSTANTS
    NumChats,    \* how many chats the listen query names
    MaxMsgs,     \* bound: newest message id a chat may reach
    MaxGen,      \* bound: how many polling threads are ever created
    FetchLimit,  \* messages one iter_messages call returns at most (100)
    OffTopic,    \* the <<chat, id>> pairs the query's topic_ids leave out
    PollFaults   \* may a runtime call of the polling thread raise?

Chats == 1..NumChats
Ids   == 0..MaxMsgs
Gens  == 1..MaxGen

ASSUME LiveAssumption ==
    /\ NumChats \in Nat \ {0}
    /\ MaxMsgs \in Nat
    /\ MaxGen \in Nat
    /\ FetchLimit \in Nat \ {0}
    /\ OffTopic \subseteq Chats \X Ids
    /\ PollFaults \in BOOLEAN

VARIABLES
    latest,          \* Telegram: newest message id of each chat
    liveLock,        \* who holds _live_lock across steps: "free" or "main"
    liveThread,      \* generation in _live_thread, 0 for None
    liveGeneration,  \* _live_generation
    call,            \* what the main thread is doing inside the backend
    joining,         \* stop_listening's local `thread`, 0 for none
    stop,            \* stop[g]: the Event given to thread g
    poller,          \* poller[g]: where thread g is in _poll_live, and how it ended
    watches,         \* watches[g][c]: last_message_id of chat c
    baseline,        \* history: the watches thread g was created with
    turn,            \* turn[g]: the chat the for loop of thread g is at
    batch,           \* batch[g]: ids fetched and not yet handed over
    failed           \* failed[g]: _poll_live caught an exception

threadVars == <<stop, poller, watches, turn, batch, failed>>
liveVars == <<latest, liveLock, liveThread, liveGeneration, call, joining,
              baseline, threadVars>>

\* A thread that may still call on_message.
Polling == {"top", "fetch", "emit"}
\* A thread that has not yet been through _clear_live_generation.
Live == Polling \cup {"clear"}
\* A thread that has ended; "late" when the flag its on_error cleared was set
\* for a later listener.
Over == {"done", "late"}

NoMarks == [c \in Chats |-> 0]

LiveTypeOK ==
    /\ latest \in [Chats -> Ids]
    /\ liveLock \in {"free", "main"}
    /\ liveThread \in 0..MaxGen
    /\ liveGeneration \in 0..MaxGen
    /\ call \in {"idle", "prepare", "set", "join"}
    /\ joining \in 0..MaxGen
    /\ stop \in [Gens -> BOOLEAN]
    /\ poller \in [Gens -> Live \cup {"unborn", "check", "report", "clearFlag"} \cup Over]
    /\ watches \in [Gens -> [Chats -> Ids]]
    /\ baseline \in [Gens -> [Chats -> Ids]]
    /\ turn \in [Gens -> Chats]
    /\ batch \in [Gens -> Seq(Ids)]
    /\ failed \in [Gens -> BOOLEAN]

LiveInit ==
    /\ latest = NoMarks
    /\ liveLock = "free"
    /\ liveThread = 0
    /\ liveGeneration = 0
    /\ call = "idle"
    /\ joining = 0
    /\ stop = [g \in Gens |-> FALSE]
    /\ poller = [g \in Gens |-> "unborn"]
    /\ watches = [g \in Gens |-> NoMarks]
    /\ baseline = [g \in Gens |-> NoMarks]
    /\ turn = [g \in Gens |-> 1]
    /\ batch = [g \in Gens |-> <<>>]
    /\ failed = [g \in Gens |-> FALSE]

(***************************************************************************)
(* Telegram (outside the worker): a chat receives its next message.        *)
(***************************************************************************)
NewMessage(c) ==
    /\ latest[c] < MaxMsgs
    /\ latest' = [latest EXCEPT ![c] = @ + 1]
    /\ UNCHANGED <<liveLock, liveThread, liveGeneration, call, joining,
                   baseline, threadVars>>

(***************************************************************************)
(* start_listening, on the main thread.  The lock is held from the check   *)
(* to thread.start(), across the runtime call of _prepare_live_watches.    *)
(***************************************************************************)
StartRefused ==  \* raises listen_already_active
    /\ call = "idle"
    /\ liveLock = "free"
    /\ liveThread # 0
    /\ UNCHANGED liveVars

StartPrepare ==
    /\ call = "idle"
    /\ liveLock = "free"
    /\ liveThread = 0
    /\ liveLock' = "main"
    /\ call' = "prepare"
    /\ UNCHANGED <<latest, liveThread, liveGeneration, joining, baseline, threadVars>>

StartFails ==    \* the runtime call raises, the with block releases the lock
    /\ call = "prepare"
    /\ liveLock' = "free"
    /\ call' = "idle"
    /\ UNCHANGED <<latest, liveThread, liveGeneration, joining, baseline, threadVars>>

StartThread ==
    /\ call = "prepare"
    /\ liveGeneration < MaxGen
    /\ LET g == liveGeneration + 1 IN
         /\ liveGeneration' = g
         /\ liveThread' = g
         /\ watches' = [watches EXCEPT ![g] = latest]
         /\ baseline' = [baseline EXCEPT ![g] = latest]
         /\ poller' = [poller EXCEPT ![g] = "top"]
    /\ liveLock' = "free"
    /\ call' = "idle"
    /\ UNCHANGED <<latest, joining, stop, turn, batch, failed>>

(***************************************************************************)
(* stop_listening, on the main thread: swap the registration out under the *)
(* lock, and only with the lock released set the event and join.           *)
(***************************************************************************)
StopNothing ==
    /\ call = "idle"
    /\ liveLock = "free"
    /\ liveThread = 0
    /\ UNCHANGED liveVars

StopSwap ==
    /\ call = "idle"
    /\ liveLock = "free"
    /\ liveThread # 0
    /\ joining' = liveThread
    /\ liveThread' = 0
    /\ call' = "set"
    /\ UNCHANGED <<latest, liveLock, liveGeneration, baseline, threadVars>>

StopSet ==
    /\ call = "set"
    /\ stop' = [stop EXCEPT ![joining] = TRUE]
    /\ call' = "join"
    /\ UNCHANGED <<latest, liveLock, liveThread, liveGeneration, joining, baseline,
                   poller, watches, turn, batch, failed>>

StopNotJoined ==  \* Mutant: thread.join() is forgotten.
    /\ call = "join"
    /\ joining' = 0
    /\ call' = "idle"
    /\ UNCHANGED <<latest, liveLock, liveThread, liveGeneration, baseline, threadVars>>

StopJoined ==
    /\ call = "join"
    /\ poller[joining] \in Over
    /\ joining' = 0
    /\ call' = "idle"
    /\ UNCHANGED <<latest, liveLock, liveThread, liveGeneration, baseline, threadVars>>

(***************************************************************************)
(* _poll_live, thread g.  The wait between two rounds is folded into the   *)
(* loop test: it ends by timeout or by the event, and changes nothing.     *)
(***************************************************************************)
Lowest(a, b) == IF a <= b THEN a ELSE b

\* Mutants: the page is assumed to be full; the newest messages come first.
NewerIdsFullPage(c, mark) == [k \in 1..FetchLimit |-> mark + k]

NewerIdsNewest(c, mark) ==
    LET n == Lowest(FetchLimit, latest[c] - mark)
    IN  [k \in 1..n |-> latest[c] - n + k]

\* What iter_messages(min_id=mark, reverse=True, limit=FetchLimit) returns:
\* the oldest messages above the mark, in ascending order.
NewerIds(c, mark) ==
    LET n == Lowest(FetchLimit, latest[c] - mark)
    IN  [k \in 1..n |-> mark + k]

\* The for loop goes to the next chat, or the round ends.
NextChat(g) ==
    IF turn[g] < NumChats
    THEN /\ turn' = [turn EXCEPT ![g] = @ + 1]
         /\ poller' = [poller EXCEPT ![g] = "fetch"]
    ELSE /\ poller' = [poller EXCEPT ![g] = "top"]
         /\ UNCHANGED turn

PollTopUnaware(g) ==  \* Mutant: the loop does not test the stop event.
    /\ poller[g] = "top"
    /\ poller' = [poller EXCEPT ![g] = "fetch"]
    /\ turn' = [turn EXCEPT ![g] = 1]
    /\ UNCHANGED <<latest, liveLock, liveThread, liveGeneration, call, joining,
                   baseline, stop, watches, batch, failed>>

PollTop(g) ==
    /\ poller[g] = "top"
    /\ poller' = [poller EXCEPT ![g] = IF stop[g] THEN "clear" ELSE "fetch"]
    /\ turn' = [turn EXCEPT ![g] = 1]
    /\ UNCHANGED <<latest, liveLock, liveThread, liveGeneration, call, joining,
                   baseline, stop, watches, batch, failed>>

PollNothingNew(g) ==
    /\ poller[g] = "fetch"
    /\ latest[turn[g]] <= watches[g][turn[g]]
    /\ NextChat(g)
    /\ UNCHANGED <<latest, liveLock, liveThread, liveGeneration, call, joining,
                   baseline, stop, watches, batch, failed>>

\* The mark moves past the whole batch before any of it is handed over.
PollFetch(g) ==
    /\ poller[g] = "fetch"
    /\ LET c   == turn[g]
           ids == NewerIds(c, watches[g][c])
       IN  /\ latest[c] > watches[g][c]
           /\ batch' = [batch EXCEPT ![g] = ids]
           /\ watches' = [watches EXCEPT ![g][c] = ids[Len(ids)]]
    /\ poller' = [poller EXCEPT ![g] = "emit"]
    /\ UNCHANGED <<latest, liveLock, liveThread, liveGeneration, call, joining,
                   baseline, stop, turn, failed>>

\* The runtime call raises: the except clause keeps the failure.
PollFault(g) ==
    /\ PollFaults
    /\ poller[g] = "fetch"
    /\ poller' = [poller EXCEPT ![g] = "clear"]
    /\ failed' = [failed EXCEPT ![g] = TRUE]
    /\ UNCHANGED <<latest, liveLock, liveThread, liveGeneration, call, joining,
                   baseline, stop, watches, turn, batch>>

\* The message at the head of the batch, as <<chat, id>>.
Offered(g) == <<turn[g], Head(batch[g])>>

\* The head of the batch is dealt with; the stop event is not looked at.
HeadDone(g) ==
    /\ poller[g] = "emit"
    /\ batch' = [batch EXCEPT ![g] = Tail(@)]
    /\ IF Len(batch[g]) > 1 THEN UNCHANGED <<poller, turn>> ELSE NextChat(g)
    /\ UNCHANGED <<latest, liveLock, liveThread, liveGeneration, call, joining,
                   baseline, stop, watches, failed>>

PollSkip(g) ==
    /\ poller[g] = "emit"
    /\ Offered(g) \in OffTopic
    /\ HeadDone(g)

\* Backend half of the on_message call that returns.
PollDeliver(g) ==
    /\ poller[g] = "emit"
    /\ Offered(g) \notin OffTopic
    /\ HeadDone(g)

\* Backend half of the on_message call that raises.
PollDeliverRaises(g) ==
    /\ poller[g] = "emit"
    /\ Offered(g) \notin OffTopic
    /\ poller' = [poller EXCEPT ![g] = "clear"]
    /\ failed' = [failed EXCEPT ![g] = TRUE]
    /\ UNCHANGED <<latest, liveLock, liveThread, liveGeneration, call, joining,
                   baseline, stop, watches, turn, batch>>

\* _clear_live_generation, in the finally clause.
PollClear(g) ==
    /\ poller[g] = "clear"
    /\ liveLock = "free"
    /\ liveThread' = IF liveGeneration = g /\ liveThread = g THEN 0 ELSE liveThread
    /\ poller' = [poller EXCEPT ![g] = IF failed[g] THEN "check" ELSE "done"]
    /\ UNCHANGED <<latest, liveLock, liveGeneration, call, joining, baseline,
                   stop, watches, turn, batch, failed>>

PollCheckInverted(g) ==  \* Mutant: the test of the stop event is inverted.
    /\ poller[g] = "check"
    /\ poller' = [poller EXCEPT ![g] = IF stop[g] THEN "report" ELSE "done"]
    /\ UNCHANGED <<latest, liveLock, liveThread, liveGeneration, call, joining,
                   baseline, stop, watches, turn, batch, failed>>

\* `if failure is not None and not stop.is_set()`, after the finally clause.
PollCheck(g) ==
    /\ poller[g] = "check"
    /\ poller' = [poller EXCEPT ![g] = IF stop[g] THEN "done" ELSE "report"]
    /\ UNCHANGED <<latest, liveLock, liveThread, liveGeneration, call, joining,
                   baseline, stop, watches, turn, batch, failed>>

\* Backend halves of on_error: the server writes the record, then clears its
\* flag; or the write raises, and the exception ends the thread.
PollMoves(g, from, to) ==
    /\ poller[g] = from
    /\ poller' = [poller EXCEPT ![g] = to]
    /\ UNCHANGED <<latest, liveLock, liveThread, liveGeneration, call, joining,
                   baseline, stop, watches, turn, batch, failed>>

PollReported(g)        == PollMoves(g, "report", "clearFlag")
PollReportRaises(g)    == PollMoves(g, "report", "done")
PollFlagCleared(g, to) == to \in Over /\ PollMoves(g, "clearFlag", to)

(***************************************************************************)
(* At most one thread ever polls: start_listening refuses while a thread   *)
(* is registered, and a thread that was unregistered by stop_listening is  *)
(* joined before the main thread can start another.                        *)
(***************************************************************************)
AtMostOnePoller == \A g, h \in Gens : poller[g] \in Live /\ poller[h] \in Live => g = h

=============================================================================
