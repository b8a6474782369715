----------------------------- MODULE LiveWorker -----------------------------
(***************************************************************************)
(* The worker process with the Telethon backend: the main thread of        *)
(* WorkerServer, the polling threads of TelethonLive, and the calls        *)
(* between them.  A call into the backend and its return are joint steps;  *)
(* so is a callback.                                                       *)
(***************************************************************************)
EXTENDS WorkerServer, TelethonLive

vars == <<serverVars, liveVars>>

Init == ServerInit /\ LiveInit

TypeOK == ServerTypeOK /\ LiveTypeOK

(***************************************************************************)
(* Steps of the main thread inside the server.                             *)
(***************************************************************************)
Reads ==
    \/ \E op \in Operations : ReadRequest(op)
    \/ ReadZeroId
    \/ ReadGarbage
    \/ ReadEof

HandlesRequest ==
    \/ AnswerHello \/ AnswerQuery \/ AnswerUnknown \/ AnswerShutdown
    \/ ExportInvalid \/ ExportStart \/ ExportMessage \/ ExportTruncate
    \/ ExportEnd \/ ExportFails
    \/ ListenInvalid \/ ListenRefused \/ ListenArm \/ ListenFailed \/ ListenFlag
    \/ ListenReply(liveGeneration)
    \/ ListenFlush \/ FlushRecord \/ FlushRaises \/ FlushDone
    \/ StopCheck \/ StopReply
    \/ Fallback
    \/ LoopEnds

(***************************************************************************)
(* The main thread inside the backend.                                     *)
(***************************************************************************)
CallStart ==
    /\ main = "listen.start"
    /\ StartPrepare
    /\ UNCHANGED serverVars

CallStartRefused == StartRefused /\ ListenAborted("refused")

CallStartFails ==
    /\ StartFails
    /\ \E kind \in {"error", "fatal"} : ListenAborted(kind)

CallStartReturns == StartThread /\ ListenStarted

InStop == main \in {"stop.call", "close.stop", "close.backend"}

CallStop ==
    /\ InStop
    /\ StopSwap
    /\ UNCHANGED serverVars

CallStopSignals ==
    /\ StopSet
    /\ UNCHANGED serverVars

CallStopReturns ==
    /\ StopNothing \/ StopJoined
    /\ StopReturned \/ CloseReturned

CallsBackend ==
    \/ CallStart \/ CallStartRefused \/ CallStartFails \/ CallStartReturns
    \/ CallStop \/ CallStopSignals \/ CallStopReturns

(***************************************************************************)
(* The polling threads; they are daemons and end with the process.         *)
(***************************************************************************)
Found(g) == LiveMessage(g, turn[g], Head(batch[g]))

OnMessage(g)        == PollDeliver(g) /\ EmitLive(Found(g))
OnMessageRaises(g)  == PollDeliverRaises(g) /\ EmitRaises(Found(g))
OnError(g)          == PollReported(g) /\ EmitLive(LiveError(g))
OnErrorRaises(g)    == PollReportRaises(g) /\ EmitRaises(LiveError(g))

\* The flag is set for the newest listener, whichever thread clears it.
OnErrorClearFlag(g) ==
    /\ PollFlagCleared(g, IF listenActive /\ g # liveGeneration THEN "late" ELSE "done")
    /\ ClearListenFlag

Polls(g) ==
    /\ PollTop(g) \/ PollNothingNew(g) \/ PollFetch(g) \/ PollFault(g)
         \/ PollSkip(g) \/ PollClear(g) \/ PollCheck(g)
    /\ UNCHANGED serverVars

LiveThread(g) ==
    /\ main # "exited"
    /\ Polls(g) \/ OnMessage(g) \/ OnMessageRaises(g) \/ OnError(g)
         \/ OnErrorRaises(g) \/ OnErrorClearFlag(g)

(***************************************************************************)
(* Telegram, the process that has ended, and the whole.                    *)
(***************************************************************************)
Telegram ==
    /\ \E c \in Chats : NewMessage(c)
    /\ UNCHANGED serverVars

Exited == main = "exited" /\ UNCHANGED vars

Next ==
    \/ (Reads \/ HandlesRequest) /\ UNCHANGED liveVars
    \/ CallsBackend
    \/ \E g \in Gens : LiveThread(g)
    \/ Telegram
    \/ Exited

Spec == Init /\ [][Next]_vars

(***************************************************************************)
(* Fairness: the scheduler runs the main thread and each polling thread,   *)
(* runtime calls return, and the host drains stdout.  Nothing is assumed   *)
(* of the host's requests nor of Telegram.                                 *)
(***************************************************************************)
Fairness ==
    /\ WF_vars(HandlesRequest /\ UNCHANGED liveVars)
    /\ WF_vars(CallsBackend)
    /\ \A g \in Gens : WF_vars(LiveThread(g))

FairSpec == Spec /\ Fairness
-----------------------------------------------------------------------------
Places == DOMAIN out

(***************************************************************************)
(* The host sees no message of a listener before the response that accepts *)
(* the listener: what the polling thread finds while messages.listen is    *)
(* being answered waits in _pending_live_records.                          *)
(***************************************************************************)
EventsAfterAccept ==
    \A k \in Places : out[k].what = "message" =>
        \E j \in 1..(k - 1) : out[j].what = "accepted" /\ out[j].gen = out[k].gen

(***************************************************************************)
(* The messages of one listener reach the host in increasing order per     *)
(* chat, each at most once and none older than the listener, although some *)
(* are written by the polling thread and some by the flush loop.           *)
(***************************************************************************)
InOrder ==
    \A k \in Places : out[k].what = "message" =>
        /\ out[k].n > baseline[out[k].gen][out[k].chat]
        /\ \A j \in 1..(k - 1) :
             out[j].what = "message" /\ out[j].gen = out[k].gen /\ out[j].chat = out[k].chat
                => out[j].n < out[k].n

(***************************************************************************)
(* Live records wait in _pending_live_records only while messages.listen   *)
(* is being answered: no other path leaves events switched off.            *)
(***************************************************************************)
NoStrandedRecords ==
    ~eventsReady \/ pending # <<>> =>
        main \in {"listen.start", "listen.flag", "listen.reply", "listen.flush"}

(***************************************************************************)
(* When run has returned no thread polls any more: _close_backend joins    *)
(* the registered one, and an unregistered one has left its loop.          *)
(***************************************************************************)
ExitStopsPolling == main = "exited" => \A g \in Gens : poller[g] \notin Live

(***************************************************************************)
(* Every request gets exactly one terminal record, before the next request *)
(* is read (a record with id 0 is not a request).                          *)
(***************************************************************************)
Terminals(id) == Cardinality({k \in Places : Terminal(out[k]) /\ out[k].id = id})
Nameless(id)  == \E k \in Places : out[k].what = "zeroId" /\ out[k].n = id

OneTerminal ==
    \A id \in 1..requestId :
        /\ Terminals(id) <= 1
        /\ id < requestId \/ main = "read" => Terminals(id) = 1 \/ Nameless(id)

(***************************************************************************)
(* The records of an export are framed: started, the messages, then the    *)
(* response, which counts exactly the messages that were written.          *)
(***************************************************************************)
ExportFramed ==
    \A k \in Places : out[k].what \in {"complete", "truncated"} =>
        LET Of(what) == {j \in Places : out[j].what = what /\ out[j].id = out[k].id}
        IN  /\ Cardinality(Of("export.message")) = out[k].n
            /\ \E s \in Of("export.started") :
                 \A j \in Of("export.message") : s < j /\ j < k

(***************************************************************************)
(* The process's exit code tells the host whether the session ended in a   *)
(* fatal error: 1 exactly when a fatal record was written.                 *)
(***************************************************************************)
ExitCodeTellsFatal ==
    status # "running" => (status = "1" <=> \E k \in Places : out[k].what = "fatal")

(***************************************************************************)
(* docs/protocol-v1.md: messages.stop "stops the active live listener".    *)
(* After its response no message reaches the host before another listen is *)
(* accepted.                                                               *)
(***************************************************************************)
StopIsFinal ==
    \A j, k \in Places : j < k /\ out[j].what = "stopped" /\ out[k].what = "message" =>
        \E i \in (j + 1)..(k - 1) : out[i].what = "accepted"

(***************************************************************************)
(* What voids the promise about live messages.  on_error of an earlier     *)
(* listener has cleared the flag of a later one: messages.stop then stops  *)
(* nothing, and a refused messages.listen discards the later one's records.*)
(* Or a kept record was too long to flush: the rest of the list is lost,   *)
(* the listener goes on, and the accepted request gets an error as well.   *)
(***************************************************************************)
Overtaken == \E g \in Gens : poller[g] = "late"

AcceptsRequest(id) == \E j \in Places : out[j].what = "accepted" /\ out[j].id = id
FlushTorn ==
    \/ main = "fallback" /\ AcceptsRequest(requestId)
    \/ \E k \in Places : out[k].what = "error" /\ AcceptsRequest(out[k].id)

(***************************************************************************)
(* The worker implements LiveFeed, also when polling fails, when every     *)
(* response fits.  The mapping reads the host's view off the wire: the     *)
(* feed is on when the last record that accepts, stops or ends it accepts  *)
(* it, and has given what was written since, on or off.  The report of a   *)
(* listener whose successor is accepted already ends nothing.              *)
(***************************************************************************)
Supersedes(j, k) == j < k /\ out[j].what = "accepted" /\ out[j].gen > out[k].gen
Controls ==
    {k \in Places :
        \/ out[k].what \in {"accepted", "stopped"}
        \/ out[k].what = "liveError" /\ ~\E j \in Places : Supersedes(j, k)}
Largest(S)  == CHOOSE n \in S : \A m \in S : m <= n
LastControl == Largest(Controls \cup {0})
FeedOn      == LastControl # 0 /\ out[LastControl].what = "accepted"
FeedStart   == IF FeedOn THEN baseline[out[LastControl].gen] ELSE NoMarks

GivenOf(c) ==
    LET last == LastControl
    IN  {out[k].n : k \in {j \in (last + 1)..Len(out) :
                       out[j].what = "message" /\ out[j].chat = c}}
Given(c) == IF GivenOf(c) = {} THEN FeedStart[c] ELSE Largest(GivenOf(c))

Feed == INSTANCE LiveFeed WITH
    posted <- latest,
    on     <- FeedOn,
    sent   <- [c \in Chats |-> Given(c)],
    void   <- Overtaken \/ FlushTorn

ImplementsFeed == Feed!Spec

(***************************************************************************)
(* Every request handler comes to an end: neither the join in              *)
(* stop_listening nor the locks can block the main thread for good.        *)
(***************************************************************************)
RequestsEnd == (main # "read") ~> (main \in {"read", "exited"})

(***************************************************************************)
(* Once shutdown is requested the process ends.                            *)
(***************************************************************************)
ShutdownExits == (status # "running" \/ shutdownRequested) ~> (main = "exited")

(***************************************************************************)
(* A listener whose polling fails is reported to the host, unless it has   *)
(* been told that its listener is stopped, or the process ends: a report   *)
(* that waits behind messages.listen is flushed after the response.  After *)
(* a late report a refused messages.listen may discard it instead.         *)
(***************************************************************************)
ToldStopped(g) ==
    \E j, k \in Places :
        /\ j < k /\ out[j].what = "accepted" /\ out[j].gen = g
        /\ out[k].what = "stopped"

FailureReported ==
    \A g \in Gens :
        failed[g] ~> \/ LiveError(g) \in {out[k] : k \in Places}
                     \/ stop[g] \/ ToldStopped(g) \/ Overtaken
                     \/ main = "exited"

(***************************************************************************)
(* Every message on topic that is newer than a listener reaches the host,  *)
(* unless the listener fails, is stopped or the process ends, or a late    *)
(* report of its predecessor lets a refused messages.listen discard it.    *)
(***************************************************************************)
Owed(g, c, n) ==
    poller[g] \in Live /\ n > baseline[g][c] /\ n <= latest[c] /\ <<c, n>> \notin OffTopic

MessagesDelivered ==
    \A g \in Gens, c \in Chats, n \in Ids :
        Owed(g, c, n) ~> \/ LiveMessage(g, c, n) \in {out[k] : k \in Places}
                         \/ stop[g] \/ failed[g] \/ Overtaken
                         \/ main = "exited"
-----------------------------------------------------------------------------
(***************************************************************************)
(* Inductive invariants.                                                   *)
(*                                                                         *)
(* RegistryInv: a thread that may still poll is the registered one or the  *)
(* one being joined, and while one is joined none is registered.           *)
(* ClosedInv: from the second call of _close_backend on nothing polls.     *)
(* AcceptInv: what waits in the two lists, and what polls, belongs to an   *)
(* accepted listener, or to the one whose acceptance is about to be        *)
(* written while events are switched off.                                  *)
(***************************************************************************)
RegistryInv ==
    /\ \A g \in Gens : poller[g] \in Live => g = liveThread \/ g = joining
    /\ call \in {"idle", "prepare"} => joining = 0
    /\ call \in {"prepare", "set", "join"} => liveThread = 0

ClosedInv ==
    /\ main \in {"close.backend", "exited"} => liveThread = 0
    /\ main = "exited" => joining = 0

IsAccepted(g) == \E j \in Places : out[j].what = "accepted" /\ out[j].gen = g

Answering == main \in {"listen.flag", "listen.reply"}

AcceptInv ==
    /\ \A g \in Gens : poller[g] \in Live => IsAccepted(g) \/ (g = liveGeneration /\ Answering)
    /\ \A k \in DOMAIN pending : pending[k].what = "message" =>
         IsAccepted(pending[k].gen) \/ (pending[k].gen = liveGeneration /\ Answering)
    /\ \A k \in DOMAIN flush : flush[k].what = "message" => IsAccepted(flush[k].gen)
    /\ main \in {"listen.start", "listen.flag", "listen.reply", "listen.flush"} => ~eventsReady
=============================================================================
