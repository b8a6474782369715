------------------------- MODULE HostSessionProofs -------------------------
(***************************************************************************)
(* Theorems about HostSession, for every number of sessions, requests,     *)
(* live messages and exported messages, and every behaviour of the worker. *)
(***************************************************************************)
EXTENDS HostSession, SequenceTheorems, TLAPS

(***************************************************************************)
(* The threads.  The user's thread and the helper are never both inside    *)
(* the client, which is what makes an unlocked client safe.                *)
(***************************************************************************)
UserPlaces   == {"idle", "read", "callback", "join", "terminate", "close"}
HelperPlaces == {"idle", "send", "read", "callback", "ok", "raised"}

ThreadInv ==
    /\ at \in [Threads -> UserPlaces \cup HelperPlaces]
    /\ at[User] \in UserPlaces
    /\ at[Helper] \in HelperPlaces
    /\ at[User] \in {"read", "callback"} => owned
    /\ owned \/ at[User] = "join" => ~closed
    /\ at[User] = "close" /\ ~abandoned => process # "running"
    /\ HelperLetsGo
    /\ NoOrphan

\* A failed session has nobody inside.
SilentInv == broken => \A t \in Threads : at[t] \notin {"read", "callback"}

(***************************************************************************)
(* Types.  The user leaves one id for the shutdown, and a start uses one.  *)
(***************************************************************************)
CountInv ==
    /\ nextId \in Nat \ {0}
    /\ at[Helper] = "send" => nextId <= MaxRequests + 1
    /\ owned /\ at[User] \in {"idle", "read", "callback"} => nextId <= MaxRequests + 1
    /\ at[User] = "join" /\ purpose = "start" =>
         nextId <= 2 /\ (at[Helper] = "send" => nextId = 1)

\* Live messages are unread in the order they were written.
IsLive(item) == item.id = 0 /\ item.kind = "event"

LiveInv ==
    /\ \A i \in DOMAIN records : IsLive(records[i]) =>
         heard + lost < records[i].n /\ records[i].n <= worker.live
    /\ \A i, j \in DOMAIN records :
         i < j /\ IsLive(records[i]) /\ IsLive(records[j]) => records[i].n < records[j].n

(***************************************************************************)
(* Requests are answered in the order of their ids, and the call that      *)
(* waits has the last id that was given out.                               *)
(***************************************************************************)
Waits(t) == at[t] \in {"read", "callback"} /\ call[t].id # 0
Serving == worker.serving # NoRequest
Terminal(item) == item.id # 0 /\ item.kind # "event"

LastInv == \A t \in Threads : Waits(t) => call[t].id + 1 = nextId

OrderInv ==
    /\ \A i, j \in DOMAIN requests : i < j => requests[i].id < requests[j].id
    /\ Serving => worker.serving.id < nextId /\
         \A i \in DOMAIN requests : worker.serving.id < requests[i].id
    /\ \A l \in DOMAIN records :
         /\ records[l].id < nextId
         /\ \A i \in DOMAIN requests : records[l].id < requests[i].id
         /\ Serving => records[l].id <= worker.serving.id
         /\ Serving /\ Terminal(records[l]) => records[l].id < worker.serving.id

\* What is unread behind an answer belongs to later requests.
FreshInv ==
    \A i, j \in DOMAIN records :
        i < j /\ Terminal(records[i]) /\ records[j].id # 0 => records[i].id < records[j].id

\* What the worker has of the call that waits is that call.
SameInv ==
    \A t \in Threads : Waits(t) =>
        /\ \A i \in DOMAIN requests : requests[i].id = call[t].id => requests[i] = call[t]
        /\ worker.serving.id = call[t].id => worker.serving = call[t]

(***************************************************************************)
(* In step: at most one request is open, the one that is waited for, and   *)
(* it is in the worker's stdin, in its hands or in its stdout, or it has    *)
(* gone with the worker.                                                   *)
(***************************************************************************)
OnlyLive == \A i \in DOMAIN records : records[i].id = 0
Nothing == requests = <<>> /\ ~Serving /\ OnlyLive

Sent(t) == requests = <<call[t]>> /\ ~Serving /\ OnlyLive

Served(t) ==
    /\ requests = <<>> /\ worker.serving = call[t]
    /\ \A i \in DOMAIN records :
         records[i].id # 0 => records[i].id = call[t].id /\ records[i].kind = "event"

Answered(t) ==
    /\ requests = <<>> /\ ~Serving
    /\ \E l \in DOMAIN records :
         /\ records[l].id = call[t].id /\ records[l].kind # "event"
         /\ \A i \in DOMAIN records : i # l /\ records[i].id # 0 =>
              i < l /\ records[i].id = call[t].id /\ records[i].kind = "event"

Gone(t) ==
    /\ process = "dead" /\ requests = <<>> /\ ~Serving
    /\ \A i \in DOMAIN records :
         records[i].id # 0 => records[i].id = call[t].id /\ records[i].kind = "event"

Open(t) == Sent(t) \/ Served(t) \/ Answered(t) \/ Gone(t)

StepInv ==
    ~broken /\ ~torn /\ ~closed =>
        /\ (\A t \in Threads : ~Waits(t)) => Nothing
        /\ \A t \in Threads : Waits(t) => Open(t)

(***************************************************************************)
(* Live messages and their callback: without one there is no listener and  *)
(* no message, and a stop that was answered leaves none behind its answer, *)
(* but for a listener that a stop has missed.                              *)
(***************************************************************************)
Listens(request) == request.operation = "messages.listen"

Quiet ==
    /\ worker.listening = "no" /\ ~Listens(worker.serving)
    /\ \A i \in DOMAIN requests : ~Listens(requests[i])
    /\ \A i \in DOMAIN records : ~IsLive(records[i])

StopInv ==
    \A t \in Threads : Waits(t) /\ call[t].operation = "messages.stop" /\ ~worker.runaway =>
        \A l \in DOMAIN records : records[l].id = call[t].id /\ records[l].kind = "response" =>
            /\ worker.listening = "no"
            /\ \A i \in DOMAIN records : l < i => ~IsLive(records[i])

HearInv == callback \/ deaf \/ broken \/ worker.runaway \/ Quiet

HostInv ==
    /\ TypeOK /\ ThreadInv /\ SilentInv /\ CountInv /\ LiveInv
    /\ LastInv /\ OrderInv /\ FreshInv /\ SameInv /\ StepInv /\ StopInv /\ HearInv
-----------------------------------------------------------------------------
(***************************************************************************)
(* What each kind of step leaves alone.                                    *)
(***************************************************************************)
LEMMA Constants ==
    /\ User # Helper /\ Threads = {User, Helper}
    /\ MaxSessions \in Nat /\ MaxRequests \in Nat \ {0} /\ MaxLive \in Nat /\ MaxMessages \in Nat
  BY HostAssumption DEF Threads

Places == UserPlaces \cup HelperPlaces

LEMMA Moves ==
    ASSUME ThreadInv, NEW t \in Threads, NEW where \in Places, Comes(t, where)
    PROVE  /\ at' \in [Threads -> Places]
           /\ at'[t] = where
           /\ \A u \in Threads : u # t => at'[u] = at[u]
  BY DEF Comes, ThreadInv, Places

\* A call into the client, from its sending to its end.
LEMMA InClient ==
    ASSUME ThreadInv, NEW t \in Threads,
           (\E operation : Sends(t, operation)) \/ Reads(t)
    PROVE  /\ at' \in [Threads -> Places]
           /\ \A u \in Threads : u # t => at'[u] = at[u]
           /\ t = User => at'[t] \in {"idle", "read", "callback"}
           /\ t = Helper => at'[t] \in {"read", "callback", "ok", "raised"}
           /\ UNCHANGED <<purpose, owned, closed, process, worker, sessions, abandoned>>
<1> DEFINE Goes == \E where \in Places :
             /\ Comes(t, where)
             /\ t = User => where \in {"idle", "read", "callback"}
             /\ t = Helper => where \in {"read", "callback", "ok", "raised"}
           Rest == UNCHANGED <<purpose, owned, closed, process, worker, sessions, abandoned>>
<1> USE Constants DEF Places, UserPlaces, HelperPlaces
<1>a. t = User \/ t = Helper
  OBVIOUS
<1>b. \A how \in {"ok", "raised"} : Ends(t, how) => Goes
  BY <1>a DEF Ends
<1>c. \A operation : Raises(t, operation) \/ Returns(t, operation) => Goes
  BY <1>b DEF Raises, Returns
<1>d. \A where \in {"read", "callback"} : Comes(t, where) => Goes
  BY <1>a
<1>e. at[t] \in Places /\ at' = at => Comes(t, at[t])
  BY DEF Comes, ThreadInv
<1>f. at[t] = "read" /\ at' = at => Goes
  BY <1>d, <1>e
<1> USE DEF pipes
<1> HIDE DEF Goes, Places, UserPlaces, HelperPlaces
<1> SUFFICES Goes /\ Rest
  BY Moves DEF Goes
<1>1. ASSUME NEW operation, Sends(t, operation)
      PROVE  Goes /\ Rest
  BY <1>1, <1>c, <1>d DEF Sends, SendRefused, SendFails, SendWrites
<1>2. CASE LiveMessage(t)
  BY <1>2, <1>c, <1>d, <1>f DEF LiveMessage, Takes
<1>3. CASE LiveFailure(t)
  BY <1>3, <1>c DEF LiveFailure, Takes
<1>4. CASE Refusal(t)
  BY <1>4, <1>c DEF Refusal, Takes
<1>5. CASE Unexpected(t)
  BY <1>5, <1>c DEF Unexpected, Takes
<1>6. CASE Answer(t)
  BY <1>6, <1>c DEF Answer, Takes
<1>7. CASE ExportEvent(t)
  BY <1>7, <1>d, <1>f DEF ExportEvent, Takes
<1>8. CASE WorkerEof(t)
  BY <1>8, <1>c DEF WorkerEof
<1>9. CASE ReadsClosed(t)
  BY <1>9, <1>c DEF ReadsClosed
<1>10. CASE CallbackThrows(t)
  BY <1>10, <1>c DEF CallbackThrows
<1>11. CASE CallbackReturns(t)
  BY <1>11, <1>c, <1>d DEF CallbackReturns
<1> QED
  BY <1>1, <1>2, <1>3, <1>4, <1>5, <1>6, <1>7, <1>8, <1>9, <1>10, <1>11 DEF Reads

LEMMA ReadsInside ==
    ASSUME NEW t \in Threads, Reads(t)
    PROVE  at[t] \in {"read", "callback"}
  BY DEF Reads, LiveMessage, LiveFailure, Answer, Refusal, ExportEvent, Unexpected, WorkerEof,
         ReadsClosed, CallbackReturns, CallbackThrows, Takes

\* Ctrl-C ends a call as an error would.
LEMMA Interrupting ==
    ASSUME ThreadInv, Interrupted
    PROVE  /\ at[User] = "read" /\ at'[User] = "idle" /\ at'[Helper] = at[Helper]
           /\ at' \in [Threads -> Places]
           /\ call' = [call EXCEPT ![User] = NoRequest]
           /\ Raises(User, call[User].operation) /\ torn' = (torn \/ ~ReadsOne(User))
           /\ UNCHANGED <<purpose, owned, nextId, broken, requests, records, closed, process,
                          worker, sessions, abandoned, heard, lost>>
<1> USE Constants DEF Interrupted, Raises, Ends, pipes
<1>1. Comes(User, "idle")
  OBVIOUS
<1>2. "idle" \in Places
  BY DEF Places, UserPlaces
<1> QED
  BY <1>1, <1>2, Moves

HostSide == <<at, call, purpose, owned, nextId, broken, callback, closed, process, sessions,
              abandoned, heard, lost, deaf, torn>>

\* The worker at work.
Serves ==
    \/ WorkerTakes \/ WorkerExports \/ WorkerAnswers \/ WorkerRefuses
    \/ WorkerLive \/ WorkerLiveFails \/ WorkerReportsLate \/ WorkerHangs

LEMMA Working ==
    ASSUME Serves
    PROVE  process = "running" /\ UNCHANGED HostSide
<1> USE DEF HostSide, HostKept, client, pipes, history
<1>1. CASE WorkerTakes
  BY <1>1 DEF WorkerTakes, Works
<1>2. CASE WorkerExports
  BY <1>2 DEF WorkerExports, Works, Writes
<1>3. CASE WorkerAnswers
  BY <1>3 DEF WorkerAnswers, Works, Writes
<1>4. CASE WorkerRefuses
  BY <1>4 DEF WorkerRefuses, Works, Writes
<1>5. CASE WorkerLive
  BY <1>5 DEF WorkerLive, Writes
<1>6. CASE WorkerLiveFails
  BY <1>6 DEF WorkerLiveFails, Writes
<1>7. CASE WorkerReportsLate
  BY <1>7 DEF WorkerReportsLate, Writes
<1>8. CASE WorkerHangs
  BY <1>8 DEF WorkerHangs, Works, Writes
<1> QED
  BY <1>1, <1>2, <1>3, <1>4, <1>5, <1>6, <1>7, <1>8 DEF Serves

\* The end of the worker leaves the host's side and what it wrote alone.
Remains == <<call, purpose, owned, nextId, broken, callback, records, closed, sessions,
             heard, lost, deaf, torn>>

Ending ==
    /\ Dies /\ UNCHANGED Remains
    /\ \A t \in Threads : at'[t] \in {"read", "callback"} <=> at[t] \in {"read", "callback"}
-----------------------------------------------------------------------------
LEMMA ThreadStep ==
    ASSUME ThreadInv, [Next]_vars
    PROVE  ThreadInv'
<1> USE Constants DEF ThreadInv, HelperLetsGo, NoOrphan, pipes
<1>a. ASSUME at' = at, owned' = owned, closed' = closed,
             UNCHANGED <<process, abandoned>> \/ process' = "dead"
      PROVE  ThreadInv'
  BY <1>a
<1>b. \A t \in Threads, where \in Places : Comes(t, where) =>
        /\ at' \in [Threads -> Places]
        /\ at'[t] = where
        /\ \A u \in Threads : u # t => at'[u] = at[u]
  BY Moves
<1>c. UserPlaces \cup HelperPlaces = Places
  BY DEF Places
<1>1. CASE UNCHANGED vars
  BY <1>1, <1>a DEF vars
<1>2. CASE Start
  <2>1. owned' \/ (at'[User] = "join" /\ owned' = owned)
    BY <1>2 DEF Start, Launch
  <2>2. CASE Launch("start") /\ owned' = owned
    BY <1>2, <2>2 DEF Start, Launch, UserPlaces, HelperPlaces
  <2>3. CASE owned' /\ Comes(Helper, "idle")
    <3>1. at'[User] = "idle" /\ at'[Helper] = "idle" /\ at' \in [Threads -> Places] /\ ~closed'
      BY <1>2, <2>3, <1>b DEF Start, Places, HelperPlaces
    <3> QED
      BY <2>3, <3>1, <1>c DEF UserPlaces, HelperPlaces
  <2> QED
    BY <1>2, <2>2, <2>3 DEF Start
<1>3. CASE Close
  BY <1>3, <1>b, <1>c DEF Close, Launch, UserPlaces, HelperPlaces
<1>4. CASE StartOrClose
  <2> USE DEF UserPlaces, HelperPlaces
  <2>1. CASE HelloArrived
    BY <2>1 DEF HelloArrived, Comes
  <2>2. CASE JoinEnds \/ JoinTimesOut
    BY <2>2 DEF JoinEnds, JoinTimesOut, Cleanup, Comes
  <2>3. CASE Exited
    BY <2>3 DEF Exited, Cleanup, Comes
  <2>4. CASE Kill
    BY <2>4 DEF Kill, Dies, Comes
  <2>5. CASE CloseStreams
    BY <2>5 DEF CloseStreams, Comes
  <2> QED
    BY <1>4, <2>1, <2>2, <2>3, <2>4, <2>5 DEF StartOrClose
<1>5. ASSUME NEW operation \in UserOperations, UserRequests(operation)
      PROVE  ThreadInv'
  BY <1>5, <1>c, InClient DEF UserRequests, UserPlaces
<1>6. CASE ReadEvent
  BY <1>6, <1>b, <1>c DEF ReadEvent, UserPlaces
<1>7. CASE Reads(User)
  BY <1>7, <1>c, InClient, ReadsInside DEF UserPlaces
<1>8. CASE HelperGoesOn
  <2>1. at[Helper] \in {"send", "read", "callback"}
    BY <1>8, ReadsInside DEF HelperGoesOn, HelperSends
  <2>2. (\E operation : Sends(Helper, operation)) \/ Reads(Helper)
    BY <1>8 DEF HelperGoesOn, HelperSends
  <2> QED
    BY <2>1, <2>2, <1>c, InClient DEF HelperPlaces
<1>9. CASE Serves
  BY <1>9, Working, <1>a DEF HostSide
<1>10. CASE WorkerExits
  BY <1>10, <1>a DEF WorkerExits, Dies
<1>11. CASE Interrupted
  <2>1. /\ at[User] = "read" /\ at'[User] = "idle" /\ at'[Helper] = at[Helper]
        /\ at' \in [Threads -> Places] /\ UNCHANGED <<owned, closed, process, abandoned>>
    BY <1>11, Interrupting
  <2> QED
    BY <2>1, <1>c DEF UserPlaces
<1>12. CASE StartInterrupted \/ CleanupInterrupted \/ CloseInterrupted
  <2> USE DEF UserPlaces, HelperPlaces
  <2>1. CASE StartInterrupted
    BY <2>1 DEF StartInterrupted, Cleanup, Comes
  <2>2. CASE CleanupInterrupted
    BY <2>2 DEF CleanupInterrupted, Comes
  <2>3. CASE CloseInterrupted
    BY <2>3 DEF CloseInterrupted, Comes
  <2> QED
    BY <1>12, <2>1, <2>2, <2>3
<1> QED
  BY <1>1, <1>2, <1>3, <1>4, <1>5, <1>6, <1>7, <1>8, <1>9, <1>10, <1>11, <1>12
  DEF Next, Interrupts, WorkerSteps, Serves
-----------------------------------------------------------------------------
(***************************************************************************)
(* A failed session is silent.                                             *)
(***************************************************************************)
LEMMA Alone ==
    ASSUME ThreadInv, NEW t \in Threads, at[t] \in {"send", "read", "callback"}
    PROVE  \A u \in Threads : u # t => at[u] \notin {"send", "read", "callback"}
  BY Constants DEF ThreadInv, HelperLetsGo, UserPlaces

\* What a call does to the session's failure.
LEMMA Breaks ==
    ASSUME ThreadInv, NEW t \in Threads,
           (\E operation : Sends(t, operation)) \/ Reads(t)
    PROVE  /\ at'[t] \in {"read", "callback"} => (broken' <=> broken)
           /\ broken => broken'
<1> USE DEF Ends, Comes, ThreadInv
<1>0. t \in DOMAIN at /\ (t = User \/ t = Helper)
  BY Constants
<1>a. \A operation : Raises(t, operation) => at'[t] \notin {"read", "callback"}
  BY <1>0 DEF Raises
<1> HIDE DEF Ends, Comes, ThreadInv
<1>1. ASSUME NEW operation, Sends(t, operation)
      PROVE  (at'[t] \in {"read", "callback"} => (broken' <=> broken)) /\ (broken => broken')
  BY <1>1 DEF Sends
<1>2. CASE LiveMessage(t)
  BY <1>2 DEF LiveMessage
<1>3. CASE LiveFailure(t)
  BY <1>3, <1>a DEF LiveFailure
<1>4. CASE Refusal(t)
  BY <1>4, <1>a DEF Refusal
<1>5. CASE Unexpected(t)
  BY <1>5, <1>a DEF Unexpected
<1>6. CASE Answer(t)
  BY <1>6 DEF Answer
<1>7. CASE ExportEvent(t)
  BY <1>7 DEF ExportEvent
<1>8. CASE WorkerEof(t)
  BY <1>8, <1>a DEF WorkerEof
<1>9. CASE ReadsClosed(t)
  BY <1>9 DEF ReadsClosed
<1>10. CASE CallbackThrows(t)
  BY <1>10, <1>a DEF CallbackThrows
<1>11. CASE CallbackReturns(t)
  BY <1>11 DEF CallbackReturns
<1> QED
  BY <1>1, <1>2, <1>3, <1>4, <1>5, <1>6, <1>7, <1>8, <1>9, <1>10, <1>11 DEF Reads

\* A request that finds the session failed does not begin to read.
LEMMA Refuses ==
    ASSUME ThreadInv, NEW t \in Threads, NEW operation, Sends(t, operation), broken
    PROVE  at'[t] \notin {"read", "callback"} /\ UNCHANGED <<requests, records>>
  BY Constants DEF Sends, SendRefused, SendFails, SendWrites, Raises, Ends, Comes, ThreadInv

LEMMA SilentStep ==
    ASSUME ThreadInv, SilentInv, [Next]_vars
    PROVE  SilentInv'
<1> USE DEF SilentInv
<1>a. ASSUME at' = at, broken' = broken
      PROVE  SilentInv'
  BY <1>a
<1>1. CASE UNCHANGED vars
  BY <1>1, <1>a DEF vars, client
<1>2. CASE Start
  BY <1>2 DEF Start
<1>3. CASE Close
  BY <1>3, Constants DEF Close, Launch, Comes, ThreadInv, client
<1>4. CASE StartOrClose
  <2>1. broken' = broken /\ \E where \in {"idle", "terminate", "close"} : Comes(User, where)
    BY <1>4 DEF StartOrClose, HelloArrived, JoinEnds, JoinTimesOut, Exited, Kill,
                CloseStreams, Cleanup, client
  <2> QED
    BY <2>1, Constants DEF Comes, ThreadInv
<1>5. ASSUME NEW t \in Threads, NEW operation, Sends(t, operation),
             at[t] = "send" \/ UserRequests(operation)
      PROVE  SilentInv'
  <2>1. broken' = broken
    BY <1>5 DEF Sends
  <2> QED
    BY <1>5, <2>1, InClient, Refuses
<1>6. CASE ReadEvent
  BY <1>6, Constants DEF ReadEvent, Usable, client
<1>7. ASSUME NEW t \in Threads, Reads(t)
      PROVE  SilentInv'
  BY <1>7, InClient, Breaks, ReadsInside, Alone
<1>8. CASE HelperGoesOn
  BY <1>8, <1>5, <1>7, Constants DEF HelperGoesOn, HelperSends
<1>9. CASE Serves \/ WorkerExits
  BY <1>9, Working, <1>a DEF HostSide, WorkerExits, client
<1>10. ASSUME NEW operation \in UserOperations, UserRequests(operation)
       PROVE  SilentInv'
  BY <1>10, <1>5, Constants DEF UserRequests
<1>11. CASE Interrupted
  BY <1>11, Interrupting, Constants
<1>12. CASE StartInterrupted \/ CleanupInterrupted \/ CloseInterrupted
  <2>1. broken' = broken /\ \E where \in {"idle", "terminate", "close"} : Comes(User, where)
    BY <1>12 DEF StartInterrupted, CleanupInterrupted, CloseInterrupted, Cleanup, client
  <2> QED
    BY <2>1, Constants DEF Comes, ThreadInv
<1> QED
  BY <1>1, <1>2, <1>3, <1>4, <1>6, <1>7, <1>8, <1>9, <1>10, <1>11, <1>12, Constants
  DEF Next, Interrupts, WorkerSteps, Serves
-----------------------------------------------------------------------------
(***************************************************************************)
(* The ids that were given out.                                            *)
(***************************************************************************)
LEMMA Counts ==
    ASSUME NEW t \in Threads, NEW operation, Sends(t, operation)
    PROVE  nextId' = nextId \/ nextId' = nextId + 1
  BY DEF Sends, SendRefused, SendFails, SendWrites, NextId

LEMMA ReadsCount ==
    ASSUME NEW t \in Threads, Reads(t)
    PROVE  nextId' = nextId
  BY DEF Reads, LiveMessage, LiveFailure, Answer, Refusal, ExportEvent, Unexpected, WorkerEof,
         ReadsClosed, CallbackReturns, CallbackThrows, Takes

LEMMA CountStep ==
    ASSUME ThreadInv, CountInv, [Next]_vars
    PROVE  CountInv'
<1> USE Constants DEF CountInv
<1>a. ASSUME UNCHANGED <<at, owned, purpose, nextId>>
      PROVE  CountInv'
  BY <1>a
<1>1. CASE UNCHANGED vars
  BY <1>1, <1>a DEF vars, client
<1>2. CASE Start
  BY <1>2 DEF Start, Launch, Comes, ThreadInv
<1>3. CASE Close
  BY <1>3 DEF Close, Launch, Comes, ThreadInv, client, HelperLetsGo
<1>4. CASE StartOrClose
  <2>1. CASE HelloArrived
    BY <2>1 DEF HelloArrived, Comes, ThreadInv, client
  <2>2. CASE ~HelloArrived
    <3>1. /\ UNCHANGED <<nextId, purpose>>
          /\ \/ \E where \in {"terminate", "close"} : Comes(User, where) /\ owned' = owned
             \/ Comes(User, "idle") /\ ~owned'
      BY <1>4, <2>2 DEF StartOrClose, JoinEnds, JoinTimesOut, Exited, Kill,
                        CloseStreams, Cleanup, client
    <3> QED
      BY <3>1 DEF Comes, ThreadInv
  <2> QED
    BY <2>1, <2>2
<1>5. ASSUME NEW operation \in UserOperations, UserRequests(operation)
      PROVE  CountInv'
  <2>1. Sends(User, operation) /\ at[User] = "idle" /\ owned /\ nextId <= MaxRequests
    BY <1>5 DEF UserRequests
  <2>2. /\ at'[Helper] = at[Helper] /\ at'[User] \in {"idle", "read", "callback"}
        /\ UNCHANGED <<owned, purpose>>
    BY <2>1, InClient
  <2>3. at[Helper] # "send"
    BY <2>1 DEF ThreadInv, HelperLetsGo
  <2> QED
    BY <2>1, <2>2, <2>3, Counts
<1>6. CASE ReadEvent
  BY <1>6 DEF ReadEvent, Comes, ThreadInv, client
<1>7. CASE Reads(User)
  BY <1>7, ReadsCount, InClient, ReadsInside DEF ThreadInv
<1>8. CASE HelperSends
  BY <1>8, Counts, InClient DEF HelperSends, ThreadInv, HelperLetsGo
<1>9. CASE Reads(Helper)
  BY <1>9, ReadsCount, InClient, ReadsInside DEF ThreadInv
<1>10. CASE Serves \/ WorkerExits
  BY <1>10, Working, <1>a DEF HostSide, WorkerExits, client
<1>11. CASE Interrupted
  BY <1>11, Interrupting DEF ThreadInv
<1>12. CASE StartInterrupted \/ CleanupInterrupted \/ CloseInterrupted
  <2>1. /\ UNCHANGED <<nextId, purpose>>
        /\ \/ \E where \in {"terminate", "close"} : Comes(User, where) /\ owned' = owned
           \/ Comes(User, "idle") /\ ~owned'
    BY <1>12 DEF StartInterrupted, CleanupInterrupted, CloseInterrupted, Cleanup, client
  <2> QED
    BY <2>1 DEF Comes, ThreadInv
<1> QED
  BY <1>1, <1>2, <1>3, <1>4, <1>5, <1>6, <1>7, <1>8, <1>9, <1>10, <1>11, <1>12
  DEF Next, HelperGoesOn, Interrupts, WorkerSteps, Serves
-----------------------------------------------------------------------------
(***************************************************************************)
(* Types.                                                                  *)
(***************************************************************************)
RecordType == [kind : Kinds, id : {0} \cup Ids, n : Nat]
CallType == Requests \cup [id : {0}, operation : {"none", "read_event"} \cup Operations]
WorkerType == [serving : Requests \cup {NoRequest}, serves : BOOLEAN,
               listening : {"no", "yes", "stray"}, late : Nat, runaway : BOOLEAN,
               live : 0..MaxLive, n : 0..(MaxMessages + 1)]

CallInv == call \in [Threads -> CallType] /\ \A t \in Threads : call[t].id < nextId
QueueInv ==
    /\ requests \in Seq(Requests) /\ records \in Seq(RecordType)
    /\ \A i \in DOMAIN requests : requests[i].id < nextId
FlagInv == {owned, broken, callback, closed, abandoned, deaf, torn} \subseteq BOOLEAN
HeardInv == {heard, lost} \subseteq 0..MaxLive /\ heard + lost <= worker.live
RestInv ==
    /\ purpose \in {"start", "close"} /\ process \in {"none", "running", "dead"}
    /\ nextId \in 1..(MaxRequests + 2) /\ sessions \in 0..MaxSessions

TypeInv == CallInv /\ QueueInv /\ FlagInv /\ HeardInv /\ RestInv /\ worker \in WorkerType

LEMMA TypeParts == TypeOK <=> TypeInv /\ at \in [Threads -> Places]
<1>1. Places = {"idle", "send", "read", "callback", "ok", "raised",
                "join", "terminate", "close"}
  BY DEF Places, UserPlaces, HelperPlaces
<1> QED
  BY <1>1 DEF TypeOK, TypeInv, CallInv, QueueInv, FlagInv, HeardInv, RestInv, CallType,
              RecordType, WorkerType

\* A call reads its records one by one; it ends with its request.
LEMMA Reading ==
    ASSUME NEW t \in Threads, Reads(t)
    PROVE  /\ call' = call \/ call' = [call EXCEPT ![t] = NoRequest]
           /\ requests' = requests /\ nextId' = nextId
           /\ \/ records' = records
              \/ at[t] = "read" /\ ~closed /\ records # <<>> /\ records' = Tail(records)
<1> USE DEF Ends, Raises, Returns, Takes, pipes
<1>1. CASE LiveMessage(t)
  BY <1>1 DEF LiveMessage
<1>2. CASE LiveFailure(t)
  BY <1>2 DEF LiveFailure
<1>3. CASE Refusal(t)
  BY <1>3 DEF Refusal
<1>4. CASE Unexpected(t)
  BY <1>4 DEF Unexpected
<1>5. CASE Answer(t)
  BY <1>5 DEF Answer
<1>6. CASE ExportEvent(t)
  BY <1>6 DEF ExportEvent
<1>7. CASE WorkerEof(t)
  BY <1>7 DEF WorkerEof
<1>8. CASE ReadsClosed(t)
  BY <1>8 DEF ReadsClosed
<1>9. CASE CallbackThrows(t)
  BY <1>9 DEF CallbackThrows
<1>10. CASE CallbackReturns(t)
  BY <1>10 DEF CallbackReturns
<1> QED
  BY <1>1, <1>2, <1>3, <1>4, <1>5, <1>6, <1>7, <1>8, <1>9, <1>10 DEF Reads

\* What the worker may do to its pipes.
LEMMA WorkingPipes ==
    ASSUME worker \in WorkerType, Serves
    PROVE  /\ requests' = requests \/ (requests # <<>> /\ requests' = Tail(requests))
           /\ records' = records \/ \E item \in RecordType : records' = Append(records, item)
<1> USE Constants DEF Writes, Record, RecordType, WorkerType, Requests, NoRequest, Kinds, Ids
<1>1. CASE WorkerTakes
  BY <1>1 DEF WorkerTakes
<1>2. CASE WorkerExports
  BY <1>2 DEF WorkerExports
<1>3. CASE WorkerAnswers
  BY <1>3 DEF WorkerAnswers
<1>4. CASE WorkerRefuses
  BY <1>4 DEF WorkerRefuses
<1>5. CASE WorkerLive
  BY <1>5 DEF WorkerLive
<1>6. CASE WorkerLiveFails
  BY <1>6 DEF WorkerLiveFails
<1>7. CASE WorkerReportsLate
  BY <1>7 DEF WorkerReportsLate
<1>8. CASE WorkerHangs
  BY <1>8 DEF WorkerHangs
<1> QED
  BY <1>1, <1>2, <1>3, <1>4, <1>5, <1>6, <1>7, <1>8 DEF Serves

Listeners == {"no", "yes", "stray"}
Worker(serving, serves, listening, late, runaway, live, n) ==
    [serving |-> serving, serves |-> serves, listening |-> listening, late |-> late,
     runaway |-> runaway, live |-> live, n |-> n]

LEMMA WorkerFields ==
    ASSUME worker \in WorkerType
    PROVE  /\ worker = Worker(worker.serving, worker.serves, worker.listening, worker.late,
                              worker.runaway, worker.live, worker.n)
           /\ worker.serving \in Requests \cup {NoRequest}
           /\ worker.serves \in BOOLEAN /\ worker.listening \in Listeners
           /\ worker.late \in Nat /\ worker.runaway \in BOOLEAN
           /\ worker.live \in 0..MaxLive /\ worker.n \in 0..(MaxMessages + 1)
  BY Zenon DEF WorkerType, Worker, Listeners

LEMMA WorkerTyped ==
    ASSUME NEW a \in Requests \cup {NoRequest}, NEW b \in BOOLEAN, NEW c \in Listeners,
           NEW l \in Nat, NEW r \in BOOLEAN,
           NEW d \in 0..MaxLive, NEW e \in 0..(MaxMessages + 1)
    PROVE  Worker(a, b, c, l, r, d, e) \in WorkerType
  BY Zenon DEF WorkerType, Worker, Listeners

\* What an operation may do to the listener.
LEMMA ListeningFields ==
    ASSUME worker \in WorkerType, NEW operation, NEW after \in Listening(operation)
    PROVE  \E c \in Listeners, l \in Nat, r \in BOOLEAN :
             /\ after = Worker(worker.serving, worker.serves, c, l, r, worker.live, worker.n)
             /\ operation # "messages.listen" /\ worker.listening = "no" => c = "no"
             /\ operation = "messages.stop" => c = "no" \/ r
             /\ worker.runaway => r
<1> DEFINE W(c, l, r) == Worker(worker.serving, worker.serves, c, l, r, worker.live, worker.n)
<1>1. /\ worker = W(worker.listening, worker.late, worker.runaway)
      /\ worker.listening \in Listeners /\ worker.late \in Nat /\ worker.runaway \in BOOLEAN
  BY WorkerFields
<1>2. worker.late + 1 \in Nat
  BY <1>1
<1>3. /\ "no" \in Listeners /\ "yes" \in Listeners
      /\ worker.listening \in {"no", "yes", "stray"}
  BY <1>1 DEF Listeners
<1> DEFINE stopped == [worker EXCEPT !.listening = "no"]
           started == [worker EXCEPT !.listening = "yes"]
<1>4. /\ stopped = W("no", worker.late, worker.runaway)
      /\ started = W("yes", worker.late, worker.runaway)
      /\ [stopped EXCEPT !.late = @ + 1] = W("no", worker.late + 1, worker.runaway)
      /\ [started EXCEPT !.late = @ + 1] = W("yes", worker.late + 1, worker.runaway)
      /\ [worker EXCEPT !.runaway = TRUE] = W(worker.listening, worker.late, TRUE)
  <2>1. stopped = W("no", worker.late, worker.runaway)
    BY <1>1 DEF Worker
  <2>2. started = W("yes", worker.late, worker.runaway)
    BY <1>1 DEF Worker
  <2>3. ASSUME NEW x
        PROVE  [worker EXCEPT !.runaway = x] = W(worker.listening, worker.late, x)
    BY <1>1 DEF Worker
  <2>4. \A c \in Listeners : [W(c, worker.late, worker.runaway) EXCEPT !.late = @ + 1] =
                             W(c, worker.late + 1, worker.runaway)
    BY DEF Worker
  <2> HIDE DEF W, stopped, started
  <2>5. [stopped EXCEPT !.late = @ + 1] = W("no", worker.late + 1, worker.runaway)
    BY <1>3, <2>1, <2>4
  <2>6. [started EXCEPT !.late = @ + 1] = W("yes", worker.late + 1, worker.runaway)
    BY <1>3, <2>2, <2>4
  <2> QED
    BY <2>1, <2>2, <2>3, <2>5, <2>6
<1> HIDE DEF W, stopped, started
<1>5. CASE operation = "messages.listen"
  <2>1. after = started \/ after = [started EXCEPT !.late = @ + 1]
    BY <1>5 DEF Listening, started
  <2> QED
    BY <1>1, <1>2, <1>3, <1>4, <1>5, <2>1 DEF W
<1>6. CASE operation = "messages.stop" /\ worker.listening = "yes"
  <2>1. after = stopped \/ after = [stopped EXCEPT !.late = @ + 1]
    BY <1>6 DEF Listening, stopped
  <2> QED
    BY <1>1, <1>2, <1>3, <1>4, <1>6, <2>1 DEF W
<1>7. CASE operation = "messages.stop" /\ worker.listening = "stray"
  <2>1. after = [worker EXCEPT !.runaway = TRUE]
    BY <1>7 DEF Listening
  <2> QED
    BY <1>1, <1>3, <1>4, <1>7, <2>1 DEF W
<1>8. CASE /\ operation # "messages.listen"
           /\ ~(operation = "messages.stop" /\ worker.listening \in {"yes", "stray"})
  <2>1. after = worker
    BY <1>8 DEF Listening
  <2> QED
    BY <1>1, <1>3, <1>8, <2>1 DEF W
<1> QED
  BY <1>5, <1>6, <1>7, <1>8

LEMMA WorkerTypeStep ==
    ASSUME worker \in WorkerType, requests \in Seq(Requests), Serves \/ Dies
    PROVE  worker' \in WorkerType /\ worker'.live >= worker.live
<1> DEFINE a == worker.serving
           b == worker.serves
           c == worker.listening
           l == worker.late
           r == worker.runaway
           d == worker.live
           e == worker.n
<1> USE Constants
<1>a. worker = Worker(a, b, c, l, r, d, e)
  BY WorkerFields
<1>b. /\ a \in Requests \cup {NoRequest} /\ b \in BOOLEAN /\ c \in Listeners
      /\ l \in Nat /\ r \in BOOLEAN /\ d \in 0..MaxLive /\ e \in 0..(MaxMessages + 1)
  BY WorkerFields
<1> SUFFICES \E a1 \in Requests \cup {NoRequest}, b1 \in BOOLEAN, c1 \in Listeners, l1 \in Nat,
                r1 \in BOOLEAN, d1 \in 0..MaxLive, e1 \in 0..(MaxMessages + 1) :
                  worker' = Worker(a1, b1, c1, l1, r1, d1, e1) /\ d1 >= d
  <2> ASSUME NEW a1 \in Requests \cup {NoRequest}, NEW b1 \in BOOLEAN, NEW c1 \in Listeners,
             NEW l1 \in Nat, NEW r1 \in BOOLEAN,
             NEW d1 \in 0..MaxLive, NEW e1 \in 0..(MaxMessages + 1),
             worker' = Worker(a1, b1, c1, l1, r1, d1, e1) /\ d1 >= d
      PROVE  worker' \in WorkerType /\ worker'.live >= worker.live
    <3>1. worker' \in WorkerType
      BY WorkerTyped
    <3>2. worker'.live = d1
      BY DEF Worker
    <3> QED
      BY <3>1, <3>2
  <2> QED
    OBVIOUS
<1>0. NoRequest \in Requests \cup {NoRequest} /\ 0 \in 0..(MaxMessages + 1) /\ d >= d
  BY <1>b
<1>1. CASE WorkerTakes
  <2>1. Head(requests) \in Requests \cup {NoRequest}
    BY <1>1 DEF WorkerTakes
  <2>2. worker' = Worker(Head(requests), b, c, l, r, d, e)
    BY <1>1, <1>a DEF WorkerTakes, Worker
  <2> QED
    BY <2>1, <2>2, <1>b, <1>0
<1>2. CASE WorkerExports
  <2>1. worker' = Worker(a, b, c, l, r, d, e + 1) /\ e <= MaxMessages
    BY <1>2, <1>a DEF WorkerExports, Worker
  <2>2. e + 1 \in 0..(MaxMessages + 1)
    BY <2>1, <1>b
  <2> QED
    BY <2>1, <2>2, <1>b, <1>0
<1>3. CASE WorkerAnswers
  <2>1. PICK after \in Listening(a.operation), b1 \in BOOLEAN :
          worker' = [after EXCEPT !.serving = NoRequest, !.n = 0, !.serves = b1]
    BY <1>3, Zenon DEF WorkerAnswers
  <2>2. PICK c1 \in Listeners, l1 \in Nat, r1 \in BOOLEAN : after = Worker(a, b, c1, l1, r1, d, e)
    BY <2>1, ListeningFields
  <2>3. worker' = Worker(NoRequest, b1, c1, l1, r1, d, 0)
    BY <2>1, <2>2 DEF Worker
  <2> QED
    BY <2>2, <2>3, <1>b, <1>0
<1>4. CASE WorkerRefuses
  <2>1. PICK b1 \in BOOLEAN : worker' = [worker EXCEPT !.serving = NoRequest, !.n = 0, !.serves = b1]
    BY <1>4, Zenon DEF WorkerRefuses
  <2>2. worker' = Worker(NoRequest, b1, c, l, r, d, 0)
    BY <2>1, <1>a DEF Worker
  <2> QED
    BY <2>2, <1>b, <1>0
<1>5. CASE WorkerLive
  <2>1. worker' = Worker(a, b, c, l, r, d + 1, e) /\ d < MaxLive
    BY <1>5, <1>a DEF WorkerLive, Worker
  <2>2. d + 1 \in 0..MaxLive /\ d + 1 >= d
    BY <2>1, <1>b
  <2> DEFINE d1 == d + 1
  <2> HIDE DEF d1
  <2>3. worker' = Worker(a, b, c, l, r, d1, e) /\ d1 \in 0..MaxLive /\ d1 >= d
    BY <2>1, <2>2 DEF d1
  <2> QED
    BY <2>3, <1>b
<1>6. CASE WorkerLiveFails
  <2>1. worker' = Worker(a, b, "no", l, r, d, e)
    BY <1>6, <1>a DEF WorkerLiveFails, Worker
  <2> QED
    BY <2>1, <1>b, <1>0 DEF Listeners
<1>7. CASE WorkerReportsLate
  <2>1. PICK c1 \in Listeners : worker' = Worker(a, b, c1, l - 1, r, d, e) /\ l > 0
    <3>1. worker' = Worker(a, b, IF c = "yes" THEN "stray" ELSE c, l - 1, r, d, e) /\ l > 0
      BY <1>7, <1>a DEF WorkerReportsLate, Worker
    <3>2. (IF c = "yes" THEN "stray" ELSE c) \in Listeners
      BY <1>b DEF Listeners
    <3> QED
      BY <3>1, <3>2
  <2>2. l - 1 \in Nat
    BY <2>1, <1>b
  <2> QED
    BY <2>1, <2>2, <1>b, <1>0
<1>8. CASE WorkerHangs
  <2>1. worker' = Worker(a, FALSE, c, l, r, d, e)
    BY <1>8, <1>a DEF WorkerHangs, Worker
  <2> QED
    BY <2>1, <1>b, <1>0
<1>9. CASE Dies
  <2>1. worker' = Worker(NoRequest, FALSE, "no", 0, r, d, 0)
    BY <1>9, <1>a DEF Dies, Worker
  <2> QED
    BY <2>1, <1>b, <1>0 DEF Listeners
<1> QED
  BY <1>1, <1>2, <1>3, <1>4, <1>5, <1>6, <1>7, <1>8, <1>9 DEF Serves

\* The steps of start and close, and those of nobody, leave calls and pipes alone.
Kept == <<call, nextId, broken, callback, requests, records, process, worker, sessions,
          heard, lost, deaf, torn>>

Controls ==
    /\ UNCHANGED Kept
    /\ purpose' \in {purpose, "start", "close"}
    /\ abandoned' \in {abandoned, TRUE, FALSE}
    /\ owned' \in {owned, TRUE, FALSE} /\ closed' \in {closed, TRUE} /\ (closed => closed')
    /\ \A t \in Threads : at'[t] \in {"read", "callback"} <=> at[t] \in {"read", "callback"}

\* How the user's thread moves through start and close, undisturbed or not.
Managing == \/ HelloArrived \/ JoinEnds \/ JoinTimesOut \/ Exited \/ CloseStreams
            \/ StartInterrupted \/ CleanupInterrupted \/ CloseInterrupted

LEMMA Manages ==
    ASSUME ThreadInv, Managing
    PROVE  Controls
<1> USE Constants DEF Kept, client, pipes, history
<1>1. /\ UNCHANGED <<Kept, purpose>>
      /\ abandoned' \in {abandoned, TRUE, FALSE}
      /\ owned' \in {owned, TRUE, FALSE} /\ closed' \in {closed, TRUE} /\ (closed => closed')
  <2>1. CASE HelloArrived
    BY <2>1 DEF HelloArrived
  <2>2. CASE JoinEnds \/ JoinTimesOut \/ Exited \/ StartInterrupted
    <3>1. \E from, to : Cleanup(from, to)
      BY <2>2 DEF JoinEnds, JoinTimesOut, Exited, StartInterrupted
    <3> QED
      BY <3>1 DEF Cleanup
  <2>3. CASE CloseStreams
    BY <2>3 DEF CloseStreams
  <2>4. CASE CleanupInterrupted
    BY <2>4 DEF CleanupInterrupted
  <2>5. CASE CloseInterrupted
    BY <2>5 DEF CloseInterrupted
  <2> QED
    BY <2>1, <2>2, <2>3, <2>4, <2>5 DEF Managing
<1>2. /\ \E where \in {"idle", "terminate", "close"} : Comes(User, where)
      /\ at[User] \notin {"read", "callback"}
  BY DEF Managing, HelloArrived, JoinEnds, JoinTimesOut, Exited, CloseStreams, Cleanup,
         StartInterrupted, CleanupInterrupted, CloseInterrupted
<1>3. \A t \in Threads : at'[t] \in {"read", "callback"} <=> at[t] \in {"read", "callback"}
  BY <1>2 DEF Comes, ThreadInv
<1> QED
  BY <1>1, <1>3 DEF Controls

LEMMA Steps ==
    ASSUME ThreadInv, CountInv, [Next]_vars
    PROVE  \/ Start
           \/ ReadEvent
           \/ Controls
           \/ \E t \in Threads, operation \in Operations :
                /\ Sends(t, operation) /\ nextId <= MaxRequests + 1
                /\ at[t] \in {"idle", "send"}
                /\ \A u \in Threads : u # t => at[u] \notin {"send", "read", "callback"}
           \/ \E t \in Threads : Reads(t)
           \/ Interrupted
           \/ Serves
           \/ Ending
<1> USE Constants DEF Kept
<1>1. CASE UNCHANGED vars
  BY <1>1 DEF vars, Controls, client, pipes, history
<1>2. CASE Close
  BY <1>2 DEF Close, Launch, Comes, Controls, client, pipes, history, ThreadInv, HelperLetsGo
<1>3. ASSUME Kill PROVE Ending
  <2>1. \A t \in Threads : at'[t] \in {"read", "callback"} <=> at[t] \in {"read", "callback"}
    BY <1>3 DEF Kill, Comes, ThreadInv
  <2> QED
    BY <1>3, <2>1 DEF Kill, Ending, Remains, client, history
<1>4. ASSUME WorkerExits PROVE Ending
  BY <1>4 DEF WorkerExits, Ending, Remains, client, history
<1>5. ASSUME NEW operation \in UserOperations, UserRequests(operation)
      PROVE  /\ Sends(User, operation) /\ operation \in Operations /\ nextId <= MaxRequests + 1
             /\ at[User] = "idle"
             /\ \A u \in Threads : u # User => at[u] \notin {"send", "read", "callback"}
  BY <1>5 DEF UserRequests, Operations, CountInv, ThreadInv, HelperLetsGo
<1>6. ASSUME HelperSends
      PROVE  /\ \E operation \in {"hello", "shutdown"} : Sends(Helper, operation)
             /\ nextId <= MaxRequests + 1 /\ at[Helper] = "send"
             /\ \A u \in Threads : u # Helper => at[u] \notin {"send", "read", "callback"}
  BY <1>6, Alone DEF HelperSends, CountInv
<1>7. {"hello", "shutdown"} \subseteq Operations
  BY DEF Operations
<1>8. StartOrClose \/ Interrupts => Kill \/ Managing \/ Interrupted
  BY DEF StartOrClose, Interrupts, Managing
<1>9. WorkerSteps => Serves \/ WorkerExits
  BY DEF WorkerSteps, Serves
<1> QED
  BY <1>1, <1>2, <1>3, <1>4, <1>5, <1>6, <1>7, <1>8, <1>9, Manages DEF Next, HelperGoesOn

\* A request is refused, or written with the next id.
Asks(operation) == [id |-> nextId, operation |-> operation]

LEMMA Sending ==
    ASSUME ThreadInv, NEW t \in Threads, NEW operation, Sends(t, operation)
    PROVE  /\ records' = records
           /\ \/ /\ call' = [call EXCEPT ![t] = NoRequest] /\ requests' = requests
                 /\ nextId' \in {nextId, nextId + 1} /\ at'[t] \notin {"read", "callback"}
              \/ /\ call' = [call EXCEPT ![t] = Asks(operation)]
                 /\ requests' = Append(requests, call'[t])
                 /\ nextId' = nextId + 1 /\ at'[t] = "read" /\ ~broken /\ ~closed
<1> USE Constants DEF Sends, Ends, Comes, ThreadInv
<1>1. CASE SendRefused(t, operation)
  BY <1>1 DEF SendRefused, Raises
<1>2. CASE SendFails(t, operation)
  BY <1>2 DEF SendFails, Raises
<1>3. CASE SendWrites(t, operation)
  BY <1>3 DEF SendWrites, NextId, Asks
<1> QED
  BY <1>1, <1>2, <1>3

LEMMA AsksType ==
    ASSUME CountInv, nextId <= MaxRequests + 1, NEW operation \in Operations
    PROVE  Asks(operation) \in Requests /\ Asks(operation).id = nextId
  BY Constants DEF CountInv, Asks, Requests, Ids

LEMMA NoRequestType == NoRequest \in CallType /\ NoRequest.id = 0 /\ NoRequest.operation = "none"
  BY DEF NoRequest, CallType

LEMMA CallStep ==
    ASSUME ThreadInv, CountInv, CallInv, [Next]_vars
    PROVE  CallInv'
<1> USE Constants, NoRequestType DEF CallInv
<1>0. nextId \in Nat \ {0} /\ \A t \in Threads : call[t].id \in Nat
  BY DEF CallType, Requests, Ids, CountInv
<1>1. CASE Start
  BY <1>1 DEF Start
<1>2. CASE ReadEvent
  <2>1. [id |-> 0, operation |-> "read_event"] \in CallType
    BY DEF CallType
  <2> QED
    BY <1>2, <1>0, <2>1 DEF ReadEvent, client
<1>3. CASE Controls
  BY <1>3 DEF Controls, Kept
<1>4. ASSUME NEW t \in Threads, NEW operation \in Operations, Sends(t, operation),
             nextId <= MaxRequests + 1
      PROVE  CallInv'
  <2>1. Asks(operation) \in CallType /\ Asks(operation).id = nextId
    BY <1>4, AsksType DEF CallType
  <2> QED
    BY <1>4, <1>0, <2>1, Sending
<1>5. ASSUME NEW t \in Threads, Reads(t)
      PROVE  CallInv'
  BY <1>5, <1>0, Reading
<1>6. CASE Serves \/ Ending
  BY <1>6, Working DEF HostSide, Ending, Remains
<1>7. CASE Interrupted
  BY <1>7, <1>0, Interrupting
<1> QED
  BY <1>1, <1>2, <1>3, <1>4, <1>5, <1>6, <1>7, Steps

LEMMA Tails ==
    ASSUME NEW S, NEW s \in Seq(S), s # <<>>
    PROVE  /\ Tail(s) \in Seq(S) /\ Head(s) \in S /\ Head(s) = s[1] /\ 1 \in DOMAIN s
           /\ Len(Tail(s)) = Len(s) - 1
           /\ \A i \in DOMAIN Tail(s) : i \in Nat \ {0} /\ i + 1 \in DOMAIN s /\ Tail(s)[i] = s[i + 1]
  BY HeadTailProperties, EmptySeq, LenProperties

LEMMA Appends ==
    ASSUME NEW S, NEW s \in Seq(S), NEW e \in S
    PROVE  /\ Append(s, e) \in Seq(S) /\ DOMAIN s \subseteq Nat \ {0}
           /\ \A i \in DOMAIN Append(s, e) : i \in Nat \ {0} /\
                \/ i \in DOMAIN s /\ Append(s, e)[i] = s[i]
                \/ i = Len(s) + 1 /\ Append(s, e)[i] = e /\ \A j \in DOMAIN s : j < i
           /\ Len(s) + 1 \in DOMAIN Append(s, e) /\ Append(s, e)[Len(s) + 1] = e
           /\ \A i \in DOMAIN s : i \in DOMAIN Append(s, e)
  BY AppendProperties, LenProperties

LEMMA QueueStep ==
    ASSUME ThreadInv, CountInv, CallInv, QueueInv, worker \in WorkerType, [Next]_vars
    PROVE  QueueInv'
<1> USE Constants DEF QueueInv
<1>0. /\ nextId \in Nat \ {0} /\ \A r \in Requests : r.id \in Nat \ {0}
      /\ \A i \in DOMAIN requests : requests[i] \in Requests
  <2>1. nextId \in Nat \ {0}
    BY DEF CountInv
  <2>2. \A r \in Requests : r.id \in Nat \ {0}
    BY DEF Requests, Ids
  <2>3. \A i \in DOMAIN requests : requests[i] \in Requests
    BY ElementOfSeq, LenProperties
  <2> QED
    BY <2>1, <2>2, <2>3
<1>1. CASE Start
  BY <1>1, EmptySeq DEF Start
<1>2. CASE ReadEvent
  BY <1>2 DEF ReadEvent, client, pipes
<1>3. CASE Controls
  BY <1>3 DEF Controls, Kept
<1>4. ASSUME NEW t \in Threads, NEW operation \in Operations, Sends(t, operation),
             nextId <= MaxRequests + 1
      PROVE  QueueInv'
  <2>1. Asks(operation) \in Requests /\ Asks(operation).id = nextId
    BY <1>4, AsksType
  <2>2. records' = records
    BY <1>4, Sending
  <2>3. CASE requests' = requests /\ nextId' \in {nextId, nextId + 1}
    BY <1>0, <2>2, <2>3
  <2>4. CASE call' = [call EXCEPT ![t] = Asks(operation)] /\ requests' = Append(requests, call'[t]) /\ nextId' = nextId + 1
    <3>1. requests' = Append(requests, Asks(operation))
      BY <2>4, <1>4 DEF CallInv
    <3>2. /\ requests' \in Seq(Requests)
          /\ \A i \in DOMAIN requests' : \/ i \in DOMAIN requests /\ requests'[i] = requests[i]
                                         \/ requests'[i] = Asks(operation)
      BY <3>1, <2>1, Appends
    <3> QED
      BY <3>2, <2>1, <2>2, <2>4, <1>0
  <2> QED
    BY <1>4, <2>3, <2>4, Sending
<1>5. ASSUME NEW t \in Threads, Reads(t)
      PROVE  QueueInv'
  <2>1. records # <<>> => Tail(records) \in Seq(RecordType)
    BY Tails
  <2>2. requests' = requests /\ nextId' = nextId
    BY <1>5, Reading
  <2>3. records' = records \/ (records # <<>> /\ records' = Tail(records))
    BY <1>5, Reading
  <2> QED
    BY <2>1, <2>2, <2>3
<1>6. CASE Serves
  <2>1. nextId' = nextId
    BY <1>6, Working DEF HostSide
  <2>2. requests # <<>> =>
          /\ Tail(requests) \in Seq(Requests)
          /\ \A i \in DOMAIN Tail(requests) : i + 1 \in DOMAIN requests /\ Tail(requests)[i] = requests[i + 1]
    BY Tails
  <2>3. requests' = requests \/ (requests # <<>> /\ requests' = Tail(requests))
    BY <1>6, WorkingPipes
  <2>4. \A item \in RecordType : Append(records, item) \in Seq(RecordType)
    BY Appends
  <2>5. records' = records \/ \E item \in RecordType : records' = Append(records, item)
    BY <1>6, WorkingPipes
  <2> QED
    BY <2>1, <2>2, <2>3, <2>4, <2>5
<1>7. CASE Interrupted
  BY <1>7, Interrupting
<1>8. CASE Ending
  <2>1. requests' = <<>> /\ UNCHANGED <<records, nextId>>
    BY <1>8 DEF Ending, Dies, Remains
  <2> QED
    BY <2>1, EmptySeq
<1> QED
  BY <1>1, <1>2, <1>3, <1>4, <1>5, <1>6, <1>7, <1>8, Steps

\* What is true or false is so after every step.
LEMMA FlagStep ==
    ASSUME ThreadInv, CountInv, FlagInv, [Next]_vars
    PROVE  FlagInv'
<1> DEFINE Flag == /\ owned' \in BOOLEAN /\ broken' \in BOOLEAN /\ callback' \in BOOLEAN
                   /\ closed' \in BOOLEAN /\ abandoned' \in BOOLEAN
                   /\ deaf' \in BOOLEAN /\ torn' \in BOOLEAN
<1>0. /\ owned \in BOOLEAN /\ broken \in BOOLEAN /\ callback \in BOOLEAN
      /\ closed \in BOOLEAN /\ abandoned \in BOOLEAN /\ deaf \in BOOLEAN /\ torn \in BOOLEAN
  BY DEF FlagInv
<1> SUFFICES Flag
  BY DEF FlagInv
<1>a. \A t, operation : Raises(t, operation) \/ Returns(t, operation) =>
        callback' \in BOOLEAN /\ deaf' \in BOOLEAN
  BY <1>0, Zenon DEF Raises, Returns
<1>1. CASE Start
  BY <1>1, <1>0 DEF Start
<1>2. CASE ReadEvent
  BY <1>2, <1>0 DEF ReadEvent, client, pipes, history
<1>3. CASE Controls
  BY <1>3, <1>0 DEF Controls, Kept
<1>4. CASE Interrupted
  <2>1. callback' \in BOOLEAN /\ deaf' \in BOOLEAN /\ torn' \in BOOLEAN
    BY <1>4, <1>0, <1>a, Interrupting, Zenon DEF ReadsOne
  <2> QED
    BY <1>4, <1>0, <2>1, Interrupting
<1>5. ASSUME NEW t, NEW operation, Sends(t, operation)
      PROVE  Flag
  <2>1. callback' \in BOOLEAN /\ deaf' \in BOOLEAN
    BY <1>5, <1>0, <1>a, Zenon DEF Sends, SendRefused, SendFails, SendWrites, CallbackAtCall
  <2> QED
    BY <1>5, <2>1, <1>0 DEF Sends
<1>6. CASE Ending
  BY <1>6, <1>0 DEF Ending, Dies, Remains
<1>7. ASSUME NEW t, Reads(t)
      PROVE  Flag
  <2> USE <1>0, <1>a DEF Takes, pipes
  <2>1. CASE LiveMessage(t)
    BY <2>1, Zenon DEF LiveMessage
  <2>2. CASE LiveFailure(t)
    BY <2>2, Zenon DEF LiveFailure
  <2>3. CASE Answer(t)
    BY <2>3, Zenon DEF Answer
  <2>4. CASE Refusal(t)
    BY <2>4, Zenon DEF Refusal
  <2>5. CASE ExportEvent(t)
    BY <2>5 DEF ExportEvent, history
  <2>6. CASE Unexpected(t)
    BY <2>6 DEF Unexpected
  <2>7. CASE WorkerEof(t)
    BY <2>7 DEF WorkerEof
  <2>8. CASE ReadsClosed(t)
    BY <2>8 DEF ReadsClosed
  <2>9. CASE CallbackReturns(t)
    BY <2>9 DEF CallbackReturns
  <2>10. CASE CallbackThrows(t)
    BY <2>10 DEF CallbackThrows
  <2> QED
    BY <1>7, <2>1, <2>2, <2>3, <2>4, <2>5, <2>6, <2>7, <2>8, <2>9, <2>10 DEF Reads
<1>8. CASE Serves
  BY <1>8, <1>0, Working DEF HostSide
<1> QED
  BY <1>1, <1>2, <1>3, <1>4, <1>5, <1>6, <1>7, <1>8, Steps

LEMMA RestStep ==
    ASSUME ThreadInv, CountInv, RestInv, [Next]_vars
    PROVE  RestInv'
<1> USE Constants DEF RestInv
<1>1. CASE Start
  BY <1>1 DEF Start, Launch
<1>2. CASE ReadEvent
  BY <1>2 DEF ReadEvent, client
<1>3. CASE Controls
  BY <1>3 DEF Controls, Kept
<1>4. ASSUME NEW t \in Threads, NEW operation, Sends(t, operation), nextId <= MaxRequests + 1
      PROVE  RestInv'
  BY <1>4, Counts DEF Sends
<1>5. ASSUME NEW t \in Threads, Reads(t)
      PROVE  RestInv'
  BY <1>5, InClient, Reading
<1>6. CASE Serves \/ Interrupted
  BY <1>6, Working, Interrupting DEF HostSide
<1>7. CASE Ending
  BY <1>7 DEF Ending, Dies, Remains
<1> QED
  BY <1>1, <1>2, <1>3, <1>4, <1>5, <1>6, <1>7, Steps
-----------------------------------------------------------------------------
(***************************************************************************)
(* Live messages are read once each, in the order they were written.       *)
(***************************************************************************)
LEMMA Hears ==
    ASSUME NEW t \in Threads, Reads(t)
    PROVE  \/ UNCHANGED <<heard, lost>>
           \/ /\ records # <<>> /\ IsLive(Head(records)) /\ records' = Tail(records)
              /\ \/ heard' = heard + 1 /\ lost' = lost
                 \/ heard' = heard /\ lost' = lost + 1
<1>1. CASE LiveMessage(t)
  BY <1>1 DEF LiveMessage, Takes, IsEvent, Item, IsLive
<1>2. CASE LiveFailure(t)
  BY <1>2 DEF LiveFailure
<1>3. CASE Refusal(t)
  BY <1>3 DEF Refusal
<1>4. CASE Unexpected(t)
  BY <1>4 DEF Unexpected, Takes, IsEvent, Item, IsLive
<1>5. CASE Answer(t)
  BY <1>5 DEF Answer
<1>6. CASE ExportEvent(t)
  BY <1>6 DEF ExportEvent, history
<1>7. CASE WorkerEof(t)
  BY <1>7 DEF WorkerEof
<1>8. CASE ReadsClosed(t)
  BY <1>8 DEF ReadsClosed
<1>9. CASE CallbackThrows(t)
  BY <1>9 DEF CallbackThrows
<1>10. CASE CallbackReturns(t)
  BY <1>10 DEF CallbackReturns
<1> QED
  BY <1>1, <1>2, <1>3, <1>4, <1>5, <1>6, <1>7, <1>8, <1>9, <1>10 DEF Reads

\* What the worker writes; a live message has the next number.
LEMMA Writing ==
    ASSUME worker \in WorkerType, Serves
    PROVE  \/ records' = records /\ worker'.live = worker.live
           \/ \E item \in RecordType :
                /\ records' = Append(records, item)
                /\ IsLive(item) => item.n = worker.live + 1 /\ worker'.live = worker.live + 1
                /\ ~IsLive(item) => worker'.live = worker.live
<1> USE Constants DEF Writes, Record, RecordType, WorkerType, Requests, NoRequest, Kinds, Ids, IsLive
<1>1. CASE WorkerTakes
  BY <1>1 DEF WorkerTakes
<1>2. CASE WorkerExports
  BY <1>2 DEF WorkerExports
<1>3. CASE WorkerAnswers
  <2>1. worker'.live = worker.live
    <3>1. PICK after \in Listening(worker.serving.operation), b1 \in BOOLEAN :
            worker' = [after EXCEPT !.serving = NoRequest, !.n = 0, !.serves = b1]
      BY <1>3, Zenon DEF WorkerAnswers
    <3>2. PICK c1 \in Listeners, l1 \in Nat, r1 \in BOOLEAN :
            after = Worker(worker.serving, worker.serves, c1, l1, r1, worker.live, worker.n)
      BY <3>1, ListeningFields
    <3> QED
      BY <3>1, <3>2 DEF Worker
  <2>2. Record("response", worker.serving.id, 0) \in RecordType
    BY <1>3 DEF WorkerAnswers
  <2>3. /\ records' = Append(records, Record("response", worker.serving.id, 0))
        /\ ~IsLive(Record("response", worker.serving.id, 0))
    BY <1>3 DEF WorkerAnswers
  <2> QED
    BY <2>1, <2>2, <2>3
<1>4. CASE WorkerRefuses
  BY <1>4 DEF WorkerRefuses
<1>5. CASE WorkerLive
  BY <1>5 DEF WorkerLive
<1>6. CASE WorkerLiveFails
  BY <1>6 DEF WorkerLiveFails
<1>7. CASE WorkerReportsLate
  BY <1>7 DEF WorkerReportsLate
<1>8. CASE WorkerHangs
  BY <1>8 DEF WorkerHangs
<1> QED
  BY <1>1, <1>2, <1>3, <1>4, <1>5, <1>6, <1>7, <1>8 DEF Serves

LEMMA Later ==
    ASSUME NEW a \in Nat, NEW b \in Nat, NEW c \in Nat, NEW d \in Nat, NEW m \in Nat, NEW n \in Nat,
           c + d = a + b + 1, a + b < m, m < n
    PROVE  c + d < n
  OBVIOUS

LEMMA LiveStep ==
    ASSUME ThreadInv, CountInv, QueueInv, HeardInv, worker \in WorkerType, LiveInv, [Next]_vars
    PROVE  LiveInv' /\ HeardInv'
<1> USE Constants DEF LiveInv
<1>0. /\ heard \in Nat /\ lost \in Nat /\ worker.live \in Nat /\ worker.live <= MaxLive
      /\ \A l \in DOMAIN records : records[l].n \in Nat
  <2>1. heard \in Nat /\ lost \in Nat
    BY DEF HeardInv
  <2>2. worker.live \in 0..MaxLive
    BY WorkerFields
  <2>3. \A l \in DOMAIN records : records[l] \in RecordType
    BY ElementOfSeq, LenProperties DEF QueueInv
  <2>4. \A r \in RecordType : r.n \in Nat
    BY DEF RecordType
  <2>5. \A l \in DOMAIN records : records[l].n \in Nat
    BY <2>3, <2>4
  <2> QED
    BY <2>1, <2>2, <2>5
<1>a. ASSUME UNCHANGED <<records, heard, lost, worker>>
      PROVE  LiveInv' /\ HeardInv'
  BY <1>a DEF HeardInv
<1>1. CASE Start
  <2>1. records' = <<>> /\ heard' = 0 /\ lost' = 0 /\ worker'.live = 0
    BY <1>1 DEF Start, Idle
  <2> QED
    BY <2>1, EmptySeq DEF HeardInv
<1>2. CASE ReadEvent
  BY <1>2, <1>a DEF ReadEvent, pipes, history
<1>3. CASE Controls
  BY <1>3, <1>a DEF Controls, Kept
<1>4. ASSUME NEW t \in Threads, NEW operation, Sends(t, operation)
      PROVE  LiveInv' /\ HeardInv'
  BY <1>4, <1>a DEF Sends
<1>5. ASSUME NEW t \in Threads, Reads(t)
      PROVE  LiveInv' /\ HeardInv'
  <2>1. worker' = worker
    BY <1>5, InClient
  <2>2. CASE records' = records
    <3>1. records # <<>> => Tail(records) # records
      BY Tails, LenProperties DEF QueueInv
    <3> QED
      BY <1>5, <1>a, <2>1, <2>2, <3>1, Hears
  <2>3. CASE records # <<>> /\ records' = Tail(records)
    <3>1. /\ Head(records) = records[1] /\ 1 \in DOMAIN records
          /\ \A i \in DOMAIN records' : i \in Nat \ {0} /\ i + 1 \in DOMAIN records /\ records'[i] = records[i + 1]
      BY <2>3, Tails DEF QueueInv
    <3>2. CASE UNCHANGED <<heard, lost>>
      BY <3>1, <3>2, <2>1, <1>0 DEF HeardInv
    <3>3. CASE /\ IsLive(Head(records))
               /\ \/ heard' = heard + 1 /\ lost' = lost
                  \/ heard' = heard /\ lost' = lost + 1
      <4>1. heard + lost + 1 <= records[1].n /\ records[1].n <= worker.live /\ records[1].n \in Nat
        BY <3>1, <3>3, <1>0
      <4>2. heard' + lost' = heard + lost + 1 /\ heard' \in Nat /\ lost' \in Nat
        BY <3>3, <1>0
      <4>0. worker'.live = worker.live
        BY <2>1
      <4>3. HeardInv'
        <5> HIDE DEF LiveInv
        <5>1. heard' + lost' <= worker.live
          BY <4>1, <4>2, <1>0
        <5>2. heard' <= MaxLive /\ lost' <= MaxLive
          BY <5>1, <4>2, <1>0
        <5> QED
          BY <5>1, <5>2, <4>0, <4>2 DEF HeardInv
      <4>4. \A i \in DOMAIN records' : IsLive(records'[i]) =>
              records[1].n < records'[i].n /\ records'[i].n <= worker.live
        BY <3>1, <3>3
      <4>5. ASSUME NEW i \in DOMAIN records', IsLive(records'[i])
            PROVE  heard' + lost' < records'[i].n /\ records'[i].n <= worker'.live
        <5> HIDE DEF LiveInv
        <5>1. records[1].n < records'[i].n /\ records'[i].n <= worker.live
          BY <4>4, <4>5
        <5>2. records'[i].n \in Nat
          BY <3>1, <1>0
        <5>3. heard + lost < records[1].n /\ records[1].n \in Nat
          BY <3>1, <3>3, <1>0 DEF LiveInv
        <5>4. heard' + lost' < records'[i].n
          BY <5>1, <5>2, <5>3, <4>2, <1>0, Later
        <5> QED
          BY <5>1, <5>4, <4>0
      <4>6. \A i, j \in DOMAIN records' :
              i < j /\ IsLive(records'[i]) /\ IsLive(records'[j]) => records'[i].n < records'[j].n
        BY <3>1
      <4> QED
        BY <4>3, <4>5, <4>6 DEF IsLive
    <3> QED
      BY <1>5, <3>2, <3>3, Hears
  <2> QED
    BY <1>5, <2>2, <2>3, Reading
<1>6. CASE Serves
  <2>1. UNCHANGED <<heard, lost>>
    BY <1>6, Working DEF HostSide
  <2>2. worker' \in WorkerType /\ worker'.live \in 0..MaxLive /\ worker'.live >= worker.live
    <3>1. worker' \in WorkerType /\ worker'.live >= worker.live
      BY <1>6, WorkerTypeStep DEF QueueInv
    <3> QED
      BY <3>1 DEF WorkerType
  <2>3. HeardInv'
    BY <2>1, <2>2, <1>0 DEF HeardInv
  <2>4. CASE records' = records /\ worker'.live = worker.live
    BY <2>1, <2>3, <2>4
  <2>5. ASSUME NEW item \in RecordType, records' = Append(records, item),
               IsLive(item) => item.n = worker.live + 1 /\ worker'.live = worker.live + 1,
               ~IsLive(item) => worker'.live = worker.live
        PROVE  LiveInv'
    <3>1. /\ DOMAIN records \subseteq Nat \ {0}
          /\ \A i \in DOMAIN records' : i \in Nat \ {0} /\
               \/ i \in DOMAIN records /\ records'[i] = records[i]
               \/ i = Len(records) + 1 /\ records'[i] = item /\ \A j \in DOMAIN records : j < i
      BY <2>5, Appends DEF QueueInv
    <3>2. \A i \in DOMAIN records' : IsLive(records'[i]) =>
            heard' + lost' < records'[i].n /\ records'[i].n <= worker'.live
      BY <3>1, <2>1, <2>2, <2>5, <1>0 DEF HeardInv
    <3>3. \A i, j \in DOMAIN records' :
            i < j /\ IsLive(records'[i]) /\ IsLive(records'[j]) => records'[i].n < records'[j].n
      BY <3>1, <2>5, <1>0
    <3> QED
      BY <3>2, <3>3 DEF IsLive
  <2> QED
    BY <1>6, <2>3, <2>4, <2>5, Writing
<1>7. CASE Interrupted
  BY <1>7, <1>a, Interrupting
<1>8. CASE Ending
  <2>1. UNCHANGED <<records, heard, lost>> /\ worker'.live = worker.live
    <3>1. worker' = [worker EXCEPT !.serving = NoRequest, !.n = 0, !.serves = FALSE,
                                   !.listening = "no", !.late = 0]
      BY <1>8 DEF Ending, Dies
    <3> QED
      BY <1>8, <3>1 DEF Ending, Remains
  <2> QED
    BY <2>1 DEF HeardInv
<1> QED
  BY <1>1, <1>2, <1>3, <1>4, <1>5, <1>6, <1>7, <1>8, Steps

LEMMA TypeStep ==
    ASSUME ThreadInv, CountInv, LiveInv, TypeInv, [Next]_vars
    PROVE  TypeInv' /\ LiveInv'
<1> USE DEF TypeInv
<1>1. worker' \in WorkerType
  <2>1. CASE Start
    <3>1. /\ worker' = Worker(NoRequest, TRUE, "no", 0, FALSE, 0, 0)
          /\ 0 \in 0..MaxLive /\ 0 \in 0..(MaxMessages + 1)
      BY <2>1, Constants DEF Start, Idle, Worker
    <3> QED
      BY <3>1, WorkerTyped DEF Listeners
  <2>2. CASE Serves \/ Ending
    BY <2>2, WorkerTypeStep DEF QueueInv, Ending
  <2>3. ASSUME NEW t \in Threads, NEW operation, Sends(t, operation)
        PROVE  worker' = worker
    BY <2>3 DEF Sends
  <2> QED
    BY <2>1, <2>2, <2>3, Steps, InClient, Interrupting DEF ReadEvent, Controls, Kept
<1> QED
  BY <1>1, CallStep, QueueStep, FlagStep, RestStep, LiveStep
-----------------------------------------------------------------------------
(***************************************************************************)
(* Requests and answers keep their order.                                  *)
(***************************************************************************)
\* The worker takes a request, or writes a record.
SameListener == worker'.listening = worker.listening /\ worker'.runaway = worker.runaway

TakesRequest ==
    /\ ~Serving /\ requests # <<>> /\ requests' = Tail(requests) /\ records' = records
    /\ worker'.serving = Head(requests) /\ SameListener

GoesOn(item) ==
    /\ Serving /\ item.id = worker.serving.id /\ item.kind = "event"
    /\ worker'.serving = worker.serving /\ SameListener

\* Only a listen starts a listener, and a stop ends it or has missed it.
Settles(operation) ==
    /\ operation # "messages.listen" /\ worker.listening = "no" => worker'.listening = "no"
    /\ operation = "messages.stop" => worker'.listening = "no" \/ worker'.runaway
    /\ worker.runaway => worker'.runaway

Finishes(item) ==
    /\ Serving /\ item.id = worker.serving.id /\ item.kind # "event"
    /\ worker'.serving = NoRequest
    /\ IF item.kind = "response" THEN Settles(worker.serving.operation) ELSE SameListener

Reports(item) ==
    /\ item.id = 0 /\ worker'.serving = worker.serving
    /\ IsLive(item) => worker.listening # "no"
    /\ worker.listening = "no" => worker'.listening = "no"
    /\ worker'.runaway = worker.runaway

LEMMA Work ==
    ASSUME worker \in WorkerType, Serves
    PROVE  \/ TakesRequest
           \/ \E item \in RecordType :
                /\ records' = Append(records, item) /\ requests' = requests
                /\ GoesOn(item) \/ Finishes(item) \/ Reports(item)
<1> USE Constants DEF Writes, Record, RecordType, WorkerType, Requests, NoRequest, Kinds, Ids,
                      IsLive, Serving, SameListener
<1>1. CASE WorkerTakes
  BY <1>1 DEF WorkerTakes, TakesRequest
<1>2. CASE WorkerExports
  BY <1>2 DEF WorkerExports, GoesOn
<1>3. CASE WorkerAnswers
  <2>1. PICK after \in Listening(worker.serving.operation), serves \in BOOLEAN :
          worker' = [after EXCEPT !.serving = NoRequest, !.n = 0, !.serves = serves]
    BY <1>3, Zenon DEF WorkerAnswers
  <2>2. worker'.serving = NoRequest /\ Settles(worker.serving.operation)
    <3>1. PICK c \in Listeners, l \in Nat, r \in BOOLEAN :
            /\ after = Worker(worker.serving, worker.serves, c, l, r, worker.live, worker.n)
            /\ worker.serving.operation # "messages.listen" /\ worker.listening = "no" => c = "no"
            /\ worker.serving.operation = "messages.stop" => c = "no" \/ r
            /\ worker.runaway => r
      BY <2>1, ListeningFields
    <3>2. worker' = Worker(NoRequest, serves, c, l, r, worker.live, 0)
      BY <2>1, <3>1 DEF Worker
    <3>3. worker'.serving = NoRequest /\ worker'.listening = c /\ worker'.runaway = r
      BY <3>2 DEF Worker
    <3> QED
      BY <3>1, <3>3 DEF Settles
  <2>3. Serving /\ records' = Append(records, Record("response", worker.serving.id, 0)) /\ requests' = requests
    BY <1>3 DEF WorkerAnswers
  <2>4. Record("response", worker.serving.id, 0) \in RecordType
    BY <2>3
  <2>5. Finishes(Record("response", worker.serving.id, 0))
    BY <2>2, <2>3 DEF Finishes
  <2> QED
    BY <2>3, <2>4, <2>5
<1>4. CASE WorkerRefuses
  <2>1. PICK kind \in {"error", "fatal"} :
          /\ worker' = [worker EXCEPT !.serving = NoRequest, !.n = 0, !.serves = kind = "error"]
          /\ records' = Append(records, Record(kind, worker.serving.id, 0)) /\ requests' = requests
    BY <1>4 DEF WorkerRefuses
  <2>2. worker'.serving = NoRequest /\ SameListener
    BY <2>1
  <2>3. Serving
    BY <1>4 DEF WorkerRefuses
  <2>4. Record(kind, worker.serving.id, 0) \in RecordType
    BY <2>1
  <2>5. Finishes(Record(kind, worker.serving.id, 0))
    BY <2>2, <2>3 DEF Finishes
  <2> QED
    BY <2>1, <2>4, <2>5
<1>5. CASE WorkerLive
  <2>1. /\ worker' = [worker EXCEPT !.live = @ + 1] /\ worker.listening # "no"
        /\ records' = Append(records, Record("event", 0, worker.live + 1)) /\ requests' = requests
    BY <1>5 DEF WorkerLive
  <2>2. worker'.serving = worker.serving /\ SameListener
    BY <2>1
  <2>3. Record("event", 0, worker.live + 1) \in RecordType
    OBVIOUS
  <2>4. Reports(Record("event", 0, worker.live + 1))
    BY <2>1, <2>2 DEF Reports
  <2> QED
    BY <2>1, <2>3, <2>4
<1>6. CASE WorkerLiveFails
  BY <1>6 DEF WorkerLiveFails, Reports
<1>7. CASE WorkerReportsLate
  <2>1. /\ worker' = [worker EXCEPT !.late = @ - 1,
                                    !.listening = IF @ = "yes" THEN "stray" ELSE @]
        /\ records' = Append(records, Record("error", 0, 0)) /\ requests' = requests
    BY <1>7 DEF WorkerReportsLate
  <2>2. /\ worker'.serving = worker.serving /\ worker'.runaway = worker.runaway
        /\ worker'.listening = IF worker.listening = "yes" THEN "stray" ELSE worker.listening
    BY <2>1
  <2>3. Record("error", 0, 0) \in RecordType /\ Reports(Record("error", 0, 0))
    BY <2>2 DEF Reports
  <2> QED
    BY <2>1, <2>3
<1>8. CASE WorkerHangs
  <2>1. worker'.serving = worker.serving /\ SameListener
    BY <1>8 DEF WorkerHangs
  <2>2. PICK kind \in {"garbage", "fatal"} : Writes(Record(kind, 0, 0))
    BY <1>8 DEF WorkerHangs
  <2>3. Record(kind, 0, 0) \in RecordType /\ Reports(Record(kind, 0, 0))
    BY <2>1, <2>2 DEF Reports
  <2> QED
    BY <2>2, <2>3
<1> QED
  BY <1>1, <1>2, <1>3, <1>4, <1>5, <1>6, <1>7, <1>8 DEF Serves

\* Who waits after a step waited before it, or has just written its request.
Wrote(t) ==
    /\ ~broken /\ ~closed /\ UNCHANGED <<records, worker, broken, torn, closed>>
    /\ call'[t] \in Requests /\ call'[t].id = nextId /\ nextId' = nextId + 1
    /\ requests' = Append(requests, call'[t])
    /\ \A u \in Threads : u # t => ~Waits(u)'
    /\ \A u \in Threads : ~Waits(u)

LEMMA Waiting ==
    ASSUME ThreadInv, CountInv, CallInv, [Next]_vars, NEW t \in Threads, Waits(t)'
    PROVE  \/ /\ Waits(t) /\ call'[t] = call[t] /\ nextId' = nextId
              /\ Controls \/ Reads(t) \/ Serves \/ Ending
           \/ Wrote(t)
<1> USE Constants
<1>1. CASE Start
  BY <1>1, NoRequestType DEF Start, Waits
<1>2. CASE ReadEvent
  <2>1. at[Helper] \notin {"read", "callback"}
    BY <1>2 DEF ReadEvent, ThreadInv, HelperLetsGo
  <2>2. at'[Helper] = at[Helper] /\ call'[User].id = 0
    BY <1>2 DEF ReadEvent, Comes, ThreadInv, CallInv
  <2> QED
    BY <2>1, <2>2 DEF Waits
<1>3. CASE Controls
  BY <1>3 DEF Controls, Kept, Waits
<1>4. ASSUME NEW u \in Threads, NEW operation \in Operations, Sends(u, operation),
             nextId <= MaxRequests + 1, at[u] \in {"idle", "send"},
             \A v \in Threads : v # u => at[v] \notin {"send", "read", "callback"}
      PROVE  Wrote(t)
  <2>1. \A v \in Threads : v # u => ~Waits(v)'
    BY <1>4, InClient DEF Waits
  <2>2. t = u /\ \A v \in Threads : ~Waits(v)
    BY <2>1, <1>4 DEF Waits
  <2>3. /\ call' = [call EXCEPT ![u] = Asks(operation)] /\ requests' = Append(requests, call'[u])
        /\ nextId' = nextId + 1 /\ ~broken /\ ~closed /\ records' = records
    BY <1>4, <2>2, Sending DEF Waits
  <2>4. Asks(operation) \in Requests /\ Asks(operation).id = nextId
    BY <1>4, AsksType
  <2>5. UNCHANGED <<worker, broken, torn, closed>>
    BY <1>4 DEF Sends
  <2> QED
    BY <2>1, <2>2, <2>3, <2>4, <2>5 DEF Wrote, CallInv
<1>5. ASSUME NEW u \in Threads, Reads(u)
      PROVE  Waits(t) /\ call'[t] = call[t] /\ nextId' = nextId /\ Reads(t)
  <2>1. at[u] \in {"read", "callback"} /\ nextId' = nextId
    BY <1>5, ReadsInside, Reading
  <2>2. CASE t = u
    BY <1>5, <2>1, <2>2, Reading, NoRequestType DEF Waits, CallInv
  <2>3. CASE t # u
    BY <1>5, <2>1, <2>3, Alone, InClient DEF Waits
  <2> QED
    BY <2>2, <2>3
<1>6. CASE Serves
  BY <1>6, Working DEF HostSide, Waits
<1>7. CASE Ending
  BY <1>7 DEF Ending, Remains, Waits
<1>8. ~Interrupted
  <2>1. Interrupted => at[User] = "read" /\ at'[User] = "idle" /\ at'[Helper] = at[Helper]
    BY Interrupting
  <2> QED
    BY <2>1, Alone DEF Waits
<1> QED
  BY <1>1, <1>2, <1>3, <1>4, <1>5, <1>6, <1>7, <1>8, Steps

LEMMA LastStep ==
    ASSUME ThreadInv, CountInv, CallInv, LastInv, [Next]_vars
    PROVE  LastInv'
  BY Waiting DEF LastInv, Wrote

LEMMA Ranges ==
    ASSUME QueueInv, worker \in WorkerType
    PROVE  /\ \A i \in DOMAIN requests : requests[i] \in Requests /\ requests[i].id \in Nat \ {0}
           /\ \A i \in DOMAIN records : records[i].id \in Nat
           /\ worker.serving \in Requests \cup {NoRequest} /\ worker.serving.id \in Nat
           /\ Serving => worker.serving.id \in Nat \ {0}
           /\ NoRequest.id = 0
<1>1. \A r \in Requests : r.id \in Nat \ {0}
  BY DEF Requests, Ids
<1>2. \A r \in RecordType : r.id \in Nat
  BY DEF RecordType, Ids
<1>3. /\ \A i \in DOMAIN requests : requests[i] \in Requests
      /\ \A i \in DOMAIN records : records[i] \in RecordType
  BY ElementOfSeq, LenProperties DEF QueueInv
<1>4. worker.serving \in Requests \cup {NoRequest}
  BY WorkerFields
<1> QED
  BY <1>1, <1>2, <1>3, <1>4, NoRequestType DEF Serving

\* A worker that died serves nothing and listens to nothing.
LEMMA DeadServes ==
    ASSUME worker \in WorkerType, Dies
    PROVE  /\ worker'.serving = NoRequest /\ worker'.listening = "no"
           /\ worker'.runaway = worker.runaway
  BY DEF Dies, WorkerType

LEMMA OrderStep ==
    ASSUME ThreadInv, CountInv, CallInv, QueueInv, worker \in WorkerType, OrderInv, [Next]_vars
    PROVE  OrderInv'
<1> USE DEF OrderInv
<1>0. nextId \in Nat \ {0} /\ \A i \in DOMAIN requests : requests[i].id < nextId
  BY DEF CountInv, QueueInv
<1>a. ASSUME UNCHANGED <<requests, records, worker>>, nextId' \in {nextId, nextId + 1}
      PROVE  OrderInv'
  BY <1>a, <1>0, Ranges DEF Serving, Terminal
<1>1. CASE Start
  BY <1>1, EmptySeq DEF Start, Idle, Serving
<1>2. CASE ReadEvent
  BY <1>2, <1>a DEF ReadEvent, client, pipes
<1>3. CASE Controls
  BY <1>3, <1>a DEF Controls, Kept
<1>4. ASSUME NEW t \in Threads, NEW operation \in Operations, Sends(t, operation),
             nextId <= MaxRequests + 1
      PROVE  OrderInv'
  <2>1. worker' = worker /\ records' = records
    BY <1>4 DEF Sends
  <2>2. CASE requests' = requests /\ nextId' \in {nextId, nextId + 1}
    BY <2>1, <2>2, <1>a
  <2>3. CASE call' = [call EXCEPT ![t] = Asks(operation)] /\ requests' = Append(requests, call'[t]) /\ nextId' = nextId + 1
    <3>1. Asks(operation) \in Requests /\ Asks(operation).id = nextId /\ call'[t] = Asks(operation)
      BY <1>4, <2>3, AsksType DEF CallInv
    <3>2. /\ DOMAIN requests \subseteq Nat \ {0}
          /\ \A i \in DOMAIN requests' : i \in Nat \ {0} /\
               \/ i \in DOMAIN requests /\ requests'[i] = requests[i]
               \/ /\ i = Len(requests) + 1 /\ requests'[i].id = nextId
                  /\ \A j \in DOMAIN requests : j < i
      BY <2>3, <3>1, Appends DEF QueueInv
    <3>3. \A i, j \in DOMAIN requests' : i < j => requests'[i].id < requests'[j].id
      BY <3>2, <1>0
    <3>4. \A l \in DOMAIN records : records[l].id < nextId' /\ \A i \in DOMAIN requests' : records[l].id < requests'[i].id
      BY <3>2, <2>3, <1>0, Ranges
    <3>5. Serving => worker.serving.id < nextId' /\ \A i \in DOMAIN requests' : worker.serving.id < requests'[i].id
      BY <3>2, <2>3, <1>0, Ranges
    <3> QED
      BY <2>1, <3>3, <3>4, <3>5 DEF Serving, Terminal
  <2> QED
    BY <1>4, <2>2, <2>3, Sending
<1>5. ASSUME NEW t \in Threads, Reads(t)
      PROVE  OrderInv'
  <2>1. UNCHANGED <<requests, worker, nextId>>
    BY <1>5, Reading, InClient
  <2>2. CASE records' = records
    BY <2>1, <2>2, <1>a
  <2>3. CASE records # <<>> /\ records' = Tail(records)
    <3>1. \A i \in DOMAIN records' : i + 1 \in DOMAIN records /\ records'[i] = records[i + 1]
      BY <2>3, Tails DEF QueueInv
    <3> QED
      BY <2>1, <3>1 DEF Serving, Terminal
  <2> QED
    BY <1>5, <2>2, <2>3, Reading
<1>6. CASE Serves
  <2>1. nextId' = nextId
    BY <1>6, Working DEF HostSide
  <2>2. CASE TakesRequest
    <3>1. /\ Head(requests) = requests[1] /\ 1 \in DOMAIN requests
          /\ \A i \in DOMAIN requests' : i \in Nat \ {0} /\ i + 1 \in DOMAIN requests /\ requests'[i] = requests[i + 1]
      BY <2>2, Tails DEF QueueInv, TakesRequest
    <3>2. worker'.serving = requests[1] /\ records' = records
      BY <2>2, <3>1 DEF TakesRequest
    <3>3. \A i, j \in DOMAIN requests' : i < j => requests'[i].id < requests'[j].id
      BY <3>1
    <3>4. requests[1].id < nextId /\ \A i \in DOMAIN requests' : requests[1].id < requests'[i].id
      BY <3>1, <1>0
    <3>5. \A l \in DOMAIN records :
            /\ records[l].id < nextId
            /\ \A i \in DOMAIN requests' : records[l].id < requests'[i].id
            /\ records[l].id < requests[1].id /\ records[l].id <= requests[1].id
      BY <3>1, Ranges
    <3> QED
      BY <2>1, <3>2, <3>3, <3>4, <3>5 DEF Serving, Terminal
  <2>3. ASSUME NEW item \in RecordType, records' = Append(records, item), requests' = requests,
               GoesOn(item) \/ Finishes(item) \/ Reports(item)
        PROVE  OrderInv'
    <3>1. \A i \in DOMAIN records' : \/ i \in DOMAIN records /\ records'[i] = records[i]
                                     \/ records'[i] = item
      BY <2>3, Appends DEF QueueInv
    <3>2. Serving' => Serving /\ worker'.serving = worker.serving
      BY <2>3 DEF Serving, GoesOn, Finishes, Reports
    <3>3. /\ item.id < nextId /\ \A i \in DOMAIN requests : item.id < requests[i].id
          /\ Serving' => item.id <= worker.serving.id
          /\ Serving' /\ Terminal(item) => item.id < worker.serving.id
      <4>1. CASE GoesOn(item)
        BY <4>1, Ranges DEF GoesOn, Terminal
      <4>2. CASE Finishes(item)
        BY <4>2, Ranges DEF Finishes, Serving
      <4>3. CASE Reports(item)
        BY <4>3, <3>2, <1>0, Ranges DEF Reports, Terminal
      <4> QED
        BY <2>3, <4>1, <4>2, <4>3
    <3> QED
      BY <2>1, <2>3, <3>1, <3>2, <3>3 DEF Terminal, Serving
  <2> QED
    BY <1>6, <2>2, <2>3, Work
<1>7. CASE Interrupted
  BY <1>7, <1>a, Interrupting
<1>8. CASE Ending
  <2>1. requests' = <<>> /\ worker'.serving = NoRequest /\ UNCHANGED <<records, nextId>>
    BY <1>8, DeadServes DEF Ending, Dies, Remains
  <2> QED
    BY <2>1, EmptySeq DEF Serving, Terminal
<1> QED
  BY <1>1, <1>2, <1>3, <1>4, <1>5, <1>6, <1>7, <1>8, Steps

LEMMA FreshStep ==
    ASSUME ThreadInv, CountInv, QueueInv, worker \in WorkerType, OrderInv, FreshInv, [Next]_vars
    PROVE  FreshInv'
<1> USE DEF FreshInv
<1>a. ASSUME UNCHANGED records PROVE FreshInv'
  BY <1>a DEF Terminal
<1>1. CASE Start
  BY <1>1, EmptySeq DEF Start
<1>2. CASE ReadEvent \/ Controls
  BY <1>2, <1>a DEF ReadEvent, Controls, Kept, pipes
<1>3. ASSUME NEW t \in Threads, NEW operation, Sends(t, operation)
      PROVE  FreshInv'
  BY <1>3, <1>a DEF Sends
<1>4. ASSUME NEW t \in Threads, Reads(t)
      PROVE  FreshInv'
  <2>1. CASE records # <<>> /\ records' = Tail(records)
    <3>1. \A i \in DOMAIN records' :
            i \in Nat /\ i + 1 \in DOMAIN records /\ records'[i] = records[i + 1]
      BY <2>1, Tails DEF QueueInv
    <3>2. \A i, j \in DOMAIN records' : i < j => i + 1 < j + 1
      BY <3>1
    <3> QED
      BY <3>1, <3>2 DEF Terminal
  <2> QED
    BY <1>4, <1>a, <2>1, Reading
<1>5. CASE Serves
  <2>1. ASSUME NEW item \in RecordType, records' = Append(records, item),
               GoesOn(item) \/ Finishes(item) \/ Reports(item)
        PROVE  FreshInv'
    <3>1. \A i \in DOMAIN records' : i \in Nat \ {0} /\
            \/ i \in DOMAIN records /\ records'[i] = records[i]
            \/ i = Len(records) + 1 /\ records'[i] = item /\ \A j \in DOMAIN records : j < i
      BY <2>1, Appends DEF QueueInv
    <3>2. ASSUME NEW l \in DOMAIN records, Terminal(records[l]), item.id # 0
          PROVE  records[l].id < item.id
      BY <2>1, <3>2, Ranges DEF OrderInv, GoesOn, Finishes, Reports
    <3> SUFFICES ASSUME NEW i \in DOMAIN records', NEW j \in DOMAIN records', i < j,
                        Terminal(records'[i]), records'[j].id # 0
                 PROVE  records'[i].id < records'[j].id
      BY DEF Terminal
    <3>3. i \in DOMAIN records /\ records'[i] = records[i]
      <4>1. j \in DOMAIN records \/ j = Len(records) + 1
        BY <3>1
      <4>2. i # Len(records) + 1
        BY <3>1, LenProperties DEF QueueInv
      <4> QED
        BY <3>1, <4>2
    <3>4. Terminal(records[i])
      BY <3>3
    <3> QED
      BY <3>1, <3>2, <3>3, <3>4
  <2> QED
    BY <1>5, <1>a, <2>1, Work DEF TakesRequest
<1>6. CASE Interrupted \/ Ending
  BY <1>6, <1>a, Interrupting DEF Ending, Remains
<1> QED
  BY <1>1, <1>2, <1>3, <1>4, <1>5, <1>6, Steps

LEMMA SameStep ==
    ASSUME ThreadInv, CountInv, CallInv, QueueInv, worker \in WorkerType, OrderInv, SameInv, [Next]_vars
    PROVE  SameInv'
<1> USE DEF SameInv
<1>0. nextId \in Nat \ {0} /\ (\A i \in DOMAIN requests : requests[i].id < nextId) /\ NoRequest.id = 0
  BY NoRequestType DEF CountInv, QueueInv
<1> SUFFICES ASSUME NEW t \in Threads, Waits(t)'
             PROVE  /\ \A i \in DOMAIN requests' : requests'[i].id = call'[t].id => requests'[i] = call'[t]
                    /\ worker'.serving.id = call'[t].id => worker'.serving = call'[t]
  OBVIOUS
<1>a. call'[t].id # 0
  BY DEF Waits
<1>1. CASE Wrote(t)
  <2>1. \A i \in DOMAIN requests' : \/ i \in DOMAIN requests /\ requests'[i] = requests[i]
                                    \/ requests'[i] = call'[t]
    BY <1>1, Appends DEF QueueInv, Wrote
  <2>2. \A i \in DOMAIN requests : requests[i].id # nextId
    BY <1>0, Ranges
  <2>3. worker.serving.id # nextId
    BY <1>0, Ranges DEF OrderInv, Serving
  <2> QED
    BY <1>1, <2>1, <2>2, <2>3 DEF Wrote
<1>2. CASE Waits(t) /\ call'[t] = call[t] /\ (Controls \/ Reads(t) \/ Serves \/ Ending)
  <2>1. CASE requests' = requests /\ worker'.serving \in {worker.serving, NoRequest}
    BY <1>0, <1>2, <1>a, <2>1
  <2>2. CASE TakesRequest
    <3>1. /\ Head(requests) = requests[1] /\ 1 \in DOMAIN requests
          /\ \A i \in DOMAIN requests' : i + 1 \in DOMAIN requests /\ requests'[i] = requests[i + 1]
      BY <2>2, Tails DEF QueueInv, TakesRequest
    <3> QED
      BY <1>2, <2>2, <3>1 DEF TakesRequest
  <2>3. CASE Controls
    BY <2>1, <2>3 DEF Controls, Kept
  <2>4. CASE Reads(t)
    BY <2>1, <2>4, Reading, InClient
  <2>5. CASE Serves
    BY <2>1, <2>2, <2>5, Work DEF GoesOn, Finishes, Reports
  <2>6. CASE Ending
    <3>1. requests' = <<>> /\ worker'.serving = NoRequest
      BY <2>6, DeadServes DEF Ending, Dies
    <3> QED
      BY <3>1, <1>0, <1>a, EmptySeq
  <2> QED
    BY <1>2, <2>3, <2>4, <2>5, <2>6
<1> QED
  BY <1>1, <1>2, Waiting
-----------------------------------------------------------------------------
(***************************************************************************)
(* Nothing is heard after the stop that was answered, and nothing is lost  *)
(* while there is a callback or there should be one.                       *)
(***************************************************************************)
LEMMA StopStep ==
    ASSUME ThreadInv, CountInv, CallInv, QueueInv, worker \in WorkerType,
           LastInv, OrderInv, SameInv, StopInv, [Next]_vars
    PROVE  StopInv'
<1> SUFFICES ASSUME NEW t \in Threads, Waits(t)', call'[t].operation = "messages.stop",
                    ~worker'.runaway,
                    NEW l \in DOMAIN records', records'[l].id = call'[t].id,
                    records'[l].kind = "response"
             PROVE  /\ worker'.listening = "no"
                    /\ \A i \in DOMAIN records' : l < i => ~IsLive(records'[i])
  BY DEF StopInv, IsLive
<1>0. nextId \in Nat \ {0} /\ NoRequest.id = 0
  BY NoRequestType DEF CountInv
<1>1. ~Wrote(t)
  BY <1>0, Ranges DEF Wrote, OrderInv
<1>2. /\ Waits(t) /\ call'[t] = call[t] /\ nextId' = nextId
      /\ Controls \/ Reads(t) \/ Serves \/ Ending
  BY <1>1, Waiting
<1>3. ~worker.runaway => \A k \in DOMAIN records : records[k].id = call[t].id /\ records[k].kind = "response" =>
        worker.listening = "no" /\ \A i \in DOMAIN records : k < i => ~IsLive(records[i])
  BY <1>2 DEF StopInv
<1>a. CASE records' = records /\ SameListener
  BY <1>2, <1>3, <1>a DEF SameListener
<1>4. CASE Controls
  BY <1>4, <1>a DEF Controls, Kept, SameListener
<1>5. CASE Reads(t)
  <2>1. worker' = worker
    BY <1>5, InClient
  <2>2. CASE records # <<>> /\ records' = Tail(records)
    <3>1. \A i \in DOMAIN records' : i \in Nat \ {0} /\ i + 1 \in DOMAIN records /\ records'[i] = records[i + 1]
      BY <2>2, Tails DEF QueueInv
    <3> QED
      BY <1>2, <1>3, <2>1, <3>1
  <2> QED
    BY <1>5, <1>a, <2>1, <2>2, Reading DEF SameListener
<1>6. CASE Serves
  <2>1. CASE TakesRequest
    BY <1>a, <2>1 DEF TakesRequest
  <2>2. ASSUME NEW item \in RecordType, records' = Append(records, item), requests' = requests,
               GoesOn(item) \/ Finishes(item) \/ Reports(item)
        PROVE  /\ worker'.listening = "no"
               /\ \A i \in DOMAIN records' : l < i => ~IsLive(records'[i])
    <3>1. /\ DOMAIN records \subseteq Nat \ {0}
          /\ \A i \in DOMAIN records' : i \in Nat \ {0} /\
               \/ i \in DOMAIN records /\ records'[i] = records[i]
               \/ i = Len(records) + 1 /\ records'[i] = item /\ \A j \in DOMAIN records : j < i
      BY <2>2, Appends DEF QueueInv
    <3>2. call[t].id + 1 = nextId /\ call[t].id # 0
      BY <1>2 DEF LastInv, Waits
    <3>3. CASE l \in DOMAIN records /\ records'[l] = records[l]
      <4>0. ~worker.runaway
        BY <2>2 DEF GoesOn, Finishes, Reports, SameListener, Settles
      <4>1. worker.listening = "no" /\ \A i \in DOMAIN records : l < i => ~IsLive(records[i])
        BY <1>2, <1>3, <3>3, <4>0
      <4>2. ~Serving
        <5>1. Terminal(records[l]) /\ records[l].id = call[t].id
          BY <1>2, <3>2, <3>3 DEF Terminal
        <5>2. Serving => call[t].id < worker.serving.id /\ worker.serving.id < nextId
          BY <3>3, <5>1 DEF OrderInv
        <5>3. call[t].id \in Nat /\ worker.serving.id \in Nat
          BY <3>3, <5>1, Ranges
        <5> QED
          BY <5>2, <5>3, <3>2, <1>0
      <4>3. Reports(item)
        BY <2>2, <4>2 DEF GoesOn, Finishes
      <4>4. worker'.listening = "no" /\ ~IsLive(item)
        BY <4>1, <4>3 DEF Reports
      <4> QED
        BY <3>1, <4>1, <4>4
    <3>4. CASE l = Len(records) + 1 /\ records'[l] = item /\ \A j \in DOMAIN records : j < l
      <4>1. item.id = call[t].id /\ item.kind = "response"
        BY <1>2, <3>4
      <4>2. Finishes(item)
        BY <2>2, <3>2, <4>1 DEF GoesOn, Reports
      <4>3. worker.serving = call[t]
        BY <1>2, <4>1, <4>2 DEF Finishes, SameInv
      <4>4. worker'.listening = "no"
        BY <1>2, <4>1, <4>2, <4>3 DEF Finishes, Settles
      <4>5. \A i \in DOMAIN records' : ~(l < i)
        BY <3>1, <3>4
      <4> QED
        BY <4>4, <4>5
    <3> QED
      BY <3>1, <3>3, <3>4
  <2> QED
    BY <1>6, <2>1, <2>2, Work
<1>7. CASE Ending
  <2>1. records' = records /\ worker'.listening = "no" /\ worker'.runaway = worker.runaway
    BY <1>7, DeadServes DEF Ending, Remains
  <2> QED
    BY <1>2, <1>3, <2>1
<1> QED
  BY <1>2, <1>4, <1>5, <1>6, <1>7

\* Taking the first record.
QuietButFirst ==
    /\ worker.listening = "no" /\ ~Listens(worker.serving)
    /\ \A i \in DOMAIN requests : ~Listens(requests[i])
    /\ \A i \in DOMAIN records : i # 1 => ~IsLive(records[i])

LEMMA QuietTail ==
    ASSUME QueueInv, QuietButFirst, UNCHANGED <<requests, worker>>,
           records # <<>>, records' = Tail(records)
    PROVE  Quiet'
<1>1. \A i \in DOMAIN records' : i \in Nat \ {0} /\ i + 1 \in DOMAIN records /\ records'[i] = records[i + 1]
  BY Tails DEF QueueInv
<1>2. \A i \in DOMAIN records' : ~IsLive(records'[i])
  BY <1>1 DEF QuietButFirst
<1> QED
  BY <1>2 DEF QuietButFirst, Quiet, IsLive, Listens

LEMMA AnsweredStop ==
    ASSUME CountInv, QueueInv, worker \in WorkerType, LastInv, OrderInv, StopInv,
           NEW t \in Threads, Answer(t), call[t].operation = "messages.stop", ~worker.runaway
    PROVE  QuietButFirst
<1>1. /\ Head(records) = records[1] /\ 1 \in DOMAIN records
  BY Tails DEF Answer, Takes, QueueInv
<1>2. /\ records[1].id = call[t].id /\ records[1].kind = "response" /\ Waits(t)
  BY <1>1 DEF Answer, Takes, Mine, Item, Waits
<1>3. worker.listening = "no" /\ \A i \in DOMAIN records : 1 < i => ~IsLive(records[i])
  BY <1>1, <1>2 DEF StopInv
<1>4. records[1].id \in Nat /\ records[1].id + 1 = nextId /\ nextId \in Nat /\ Terminal(records[1])
  BY <1>1, <1>2, Ranges DEF LastInv, CountInv, Terminal, Waits
<1>5. ~Serving
  <2>1. Serving => records[1].id < worker.serving.id /\ worker.serving.id < nextId
    BY <1>1, <1>4 DEF OrderInv
  <2> QED
    BY <1>4, <2>1, Ranges
<1>6. \A i \in DOMAIN requests : FALSE
  <2>1. \A i \in DOMAIN requests : records[1].id < requests[i].id /\ requests[i].id < nextId
    BY <1>1 DEF OrderInv, QueueInv
  <2> QED
    BY <1>4, <2>1, Ranges
<1>7. DOMAIN records \subseteq Nat \ {0}
  BY LenProperties DEF QueueInv
<1> QED
  BY <1>3, <1>5, <1>6, <1>7, NoRequestType DEF QuietButFirst, Serving, Listens

LEMMA HearStep ==
    ASSUME ThreadInv, CountInv, SilentInv, CallInv, QueueInv, worker \in WorkerType,
           LastInv, OrderInv, StopInv, HearInv, [Next]_vars
    PROVE  HearInv'
<1> DEFINE Goal == callback' \/ deaf' \/ broken' \/ worker'.runaway \/ Quiet'
<1> SUFFICES Goal
  BY DEF HearInv
<1>q. ASSUME Quiet, UNCHANGED <<requests, records, worker>>
      PROVE  Quiet'
  BY <1>q DEF Quiet, Listens, IsLive
<1>r. ASSUME NEW t, NEW operation, Raises(t, operation), UNCHANGED worker,
             broken => broken', Quiet => Quiet'
      PROVE  Goal
  BY <1>r DEF Raises, HearInv
<1>1. CASE Start
  <2>1. Quiet'
    BY <1>1, EmptySeq DEF Start, Idle, Quiet, NoRequest, Listens
  <2> QED
    BY <2>1
<1>2. CASE ReadEvent
  BY <1>2, <1>q DEF ReadEvent, HearInv, client, pipes, history
<1>3. CASE Controls
  BY <1>3, <1>q DEF Controls, Kept, HearInv
<1>4. ASSUME NEW t \in Threads, NEW operation \in Operations, Sends(t, operation),
             nextId <= MaxRequests + 1
      PROVE  Goal
  <2>1. UNCHANGED <<broken, worker, records>>
    BY <1>4 DEF Sends
  <2>2. CASE Raises(t, operation) /\ requests' = requests
    BY <2>1, <2>2, <1>q, <1>r
  <2>3. CASE SendWrites(t, operation)
    <3>1. /\ operation = "messages.listen" => callback' \in BOOLEAN /\ deaf' = ~callback'
          /\ operation # "messages.listen" => UNCHANGED <<callback, deaf>>
      BY <2>3 DEF SendWrites, CallbackAtCall
    <3>2. call'[t] = Asks(operation) /\ requests' = Append(requests, call'[t])
      BY <2>3 DEF SendWrites, Asks, CallInv
    <3>3. Asks(operation) \in Requests /\ Asks(operation).operation = operation
      BY <1>4, AsksType DEF Asks
    <3>4. \A i \in DOMAIN requests' : \/ i \in DOMAIN requests /\ requests'[i] = requests[i]
                                      \/ requests'[i] = Asks(operation)
      BY <3>2, <3>3, Appends DEF QueueInv
    <3>5. Quiet /\ operation # "messages.listen" => Quiet'
      BY <2>1, <3>3, <3>4 DEF Quiet, Listens, IsLive
    <3>6. CASE operation = "messages.listen"
      BY <3>1, <3>6
    <3>7. CASE operation # "messages.listen"
      BY <2>1, <3>1, <3>5, <3>7 DEF HearInv
    <3> QED
      BY <3>6, <3>7
  <2> QED
    BY <1>4, <2>2, <2>3 DEF Sends, SendRefused, SendFails
<1>5. ASSUME NEW t \in Threads, Reads(t)
      PROVE  Goal
  <2>1. worker' = worker /\ requests' = requests
    BY <1>5, InClient, Reading
  <2>2. broken => broken'
    BY <1>5, Breaks
  <2>3. Quiet => Quiet'
    <3>1. Quiet => QuietButFirst
      BY DEF Quiet, QuietButFirst
    <3> QED
      BY <1>5, <1>q, <2>1, <3>1, Reading, QuietTail
  <2>4. CASE UNCHANGED <<callback, deaf>>
    BY <2>1, <2>2, <2>3, <2>4 DEF HearInv
  <2>5. CASE Raises(t, call[t].operation)
    BY <2>1, <2>2, <2>3, <2>5, <1>r
  <2>6. CASE Returns(t, "read_event")
    <3>1. (callback => callback') /\ (deaf => deaf')
      BY <2>6 DEF Returns
    <3> QED
      BY <2>1, <2>2, <2>3, <3>1 DEF HearInv
  <2>7. CASE Answer(t)
    <3>1. Returns(t, call[t].operation)
      BY <2>7 DEF Answer
    <3>2. CASE call[t].operation = "messages.stop" /\ ~worker.runaway
      BY <2>1, <2>7, <3>2, AnsweredStop, QuietTail DEF Answer, Takes
    <3>3. CASE worker.runaway
      BY <2>1, <3>3
    <3>4. CASE call[t].operation # "messages.stop"
      <4>1. (callback => callback') /\ (deaf => deaf')
        BY <3>1, <3>4 DEF Returns
      <4> QED
        BY <2>1, <2>2, <2>3, <4>1 DEF HearInv
    <3> QED
      BY <3>2, <3>3, <3>4
  <2>8. CASE LiveMessage(t) \/ ExportEvent(t) \/ CallbackReturns(t)
    <3>1. UNCHANGED <<callback, deaf>> \/ Returns(t, "read_event")
      <4>1. CASE LiveMessage(t)
        BY <4>1 DEF LiveMessage
      <4>2. CASE ExportEvent(t)
        BY <4>2 DEF ExportEvent, history
      <4>3. CASE CallbackReturns(t)
        BY <4>3 DEF CallbackReturns
      <4> QED
        BY <2>8, <4>1, <4>2, <4>3
    <3> QED
      BY <2>4, <2>6, <3>1
  <2>9. CASE LiveFailure(t) \/ Refusal(t) \/ Unexpected(t) \/ WorkerEof(t) \/ ReadsClosed(t) \/ CallbackThrows(t)
    <3>1. Raises(t, call[t].operation)
      BY <2>9 DEF LiveFailure, Refusal, Unexpected, WorkerEof, ReadsClosed, CallbackThrows
    <3> QED
      BY <3>1, <2>5
  <2> QED
    BY <1>5, <2>7, <2>8, <2>9 DEF Reads
<1>6. CASE Serves
  <2>1. UNCHANGED <<callback, broken, deaf>>
    BY <1>6, Working DEF HostSide
  <2>2. ASSUME Quiet, TakesRequest
        PROVE  Quiet'
    <3>1. /\ Head(requests) = requests[1] /\ 1 \in DOMAIN requests
          /\ \A i \in DOMAIN requests' : i + 1 \in DOMAIN requests /\ requests'[i] = requests[i + 1]
      BY <2>2, Tails DEF QueueInv, TakesRequest
    <3> QED
      BY <2>2, <3>1 DEF TakesRequest, SameListener, Quiet, Listens, IsLive
  <2>3. ASSUME NEW item \in RecordType, records' = Append(records, item), requests' = requests,
               GoesOn(item) \/ Finishes(item) \/ Reports(item), Quiet
        PROVE  Quiet'
    <3>1. \A i \in DOMAIN records' : \/ i \in DOMAIN records /\ records'[i] = records[i]
                                     \/ records'[i] = item
      BY <2>3, Appends DEF QueueInv
    <3>2. CASE GoesOn(item)
      <4>1. item.id # 0
        BY <3>2, Ranges DEF GoesOn
      <4> QED
        BY <2>3, <3>1, <3>2, <4>1 DEF GoesOn, SameListener, Quiet, Listens, IsLive
    <3>3. CASE Finishes(item)
      <4>1. worker'.listening = "no"
        BY <2>3, <3>3 DEF Finishes, Settles, SameListener, Quiet, Listens
      <4> QED
        BY <2>3, <3>1, <3>3, <4>1, NoRequestType DEF Finishes, Quiet, Listens, IsLive
    <3>4. CASE Reports(item)
      BY <2>3, <3>1, <3>4 DEF Reports, Quiet, Listens, IsLive
    <3> QED
      BY <2>3, <3>2, <3>3, <3>4
  <2>4. Quiet => Quiet'
    BY <1>6, <2>2, <2>3, Work
  <2>5. worker.runaway => worker'.runaway
    BY <1>6, Work DEF TakesRequest, GoesOn, Finishes, Reports, SameListener, Settles
  <2> QED
    BY <2>1, <2>4, <2>5 DEF HearInv
<1>7. CASE Interrupted
  BY <1>7, <1>q, <1>r, Interrupting
<1>8. CASE Ending
  <2>1. /\ UNCHANGED <<callback, deaf, broken, records>> /\ requests' = <<>>
        /\ worker'.serving = NoRequest /\ worker'.listening = "no" /\ worker'.runaway = worker.runaway
    BY <1>8, DeadServes DEF Ending, Dies, Remains
  <2>2. Quiet => Quiet'
    BY <2>1, EmptySeq, NoRequestType DEF Quiet, Listens, IsLive
  <2> QED
    BY <2>1, <2>2 DEF HearInv
<1> QED
  BY <1>1, <1>2, <1>3, <1>4, <1>5, <1>6, <1>7, <1>8, Steps
-----------------------------------------------------------------------------
(***************************************************************************)
(* In step.                                                                *)
(***************************************************************************)
\* A record that is not the call's answer leaves it open.
LEMMA OpenTail ==
    ASSUME QueueInv, NEW t \in Threads, Open(t), call[t].id # 0,
           records # <<>>, records' = Tail(records),
           records[1].id = 0 \/ records[1].kind = "event",
           UNCHANGED <<requests, worker, process>>, call'[t] = call[t]
    PROVE  Open(t)'
<1>1. /\ 1 \in DOMAIN records /\ DOMAIN records \subseteq Nat \ {0}
      /\ \A i \in DOMAIN records' : i \in Nat \ {0} /\ i + 1 \in DOMAIN records /\ records'[i] = records[i + 1]
      /\ \A l \in DOMAIN records : l # 1 => l - 1 \in DOMAIN records'
  BY Tails, LenProperties DEF QueueInv
<1>2. CASE Sent(t)
  BY <1>1, <1>2 DEF Sent, Open, OnlyLive, Serving
<1>3. CASE Served(t)
  BY <1>1, <1>3 DEF Served, Open
<1>5. CASE Gone(t)
  BY <1>1, <1>5 DEF Gone, Open, Serving
<1>4. CASE Answered(t)
  <2>1. PICK l \in DOMAIN records :
          /\ records[l].id = call[t].id /\ records[l].kind # "event"
          /\ \A i \in DOMAIN records : i # l /\ records[i].id # 0 =>
               i < l /\ records[i].id = call[t].id /\ records[i].kind = "event"
    BY <1>4 DEF Answered
  <2>2. l # 1 /\ l - 1 \in DOMAIN records' /\ records'[l - 1] = records[l]
    BY <1>1, <2>1
  <2>3. \A i \in DOMAIN records' : i # l - 1 /\ records'[i].id # 0 =>
               i < l - 1 /\ records'[i].id = call[t].id /\ records'[i].kind = "event"
    BY <1>1, <2>1
  <2>4. requests' = <<>> /\ ~Serving'
    BY <1>4 DEF Answered, Serving
  <2> QED
    BY <2>1, <2>2, <2>3, <2>4 DEF Open, Answered
<1> QED
  BY <1>2, <1>3, <1>4, <1>5 DEF Open

\* The call's answer is the last thing that is open.
LEMMA OpenAnswered ==
    ASSUME QueueInv, NEW t \in Threads, Open(t), call[t].id # 0,
           records # <<>>, records' = Tail(records),
           records[1].id = call[t].id, records[1].kind # "event",
           UNCHANGED <<requests, worker>>
    PROVE  Nothing'
<1>1. /\ 1 \in DOMAIN records /\ DOMAIN records \subseteq Nat \ {0}
      /\ \A i \in DOMAIN records' : i \in Nat \ {0} /\ i + 1 \in DOMAIN records /\ records'[i] = records[i + 1]
  BY Tails, LenProperties DEF QueueInv
<1>2. Answered(t)
  BY <1>1 DEF Open, Sent, Served, Gone, OnlyLive
<1>3. PICK l \in DOMAIN records :
        \A i \in DOMAIN records : i # l /\ records[i].id # 0 => i < l /\ records[i].kind = "event"
  BY <1>2 DEF Answered
<1>4. l = 1
  BY <1>1, <1>3
<1>5. \A i \in DOMAIN records' : records'[i].id = 0
  BY <1>1, <1>3, <1>4
<1> QED
  BY <1>2, <1>5 DEF Answered, Nothing, OnlyLive, Serving

LEMMA NothingTail ==
    ASSUME QueueInv, Nothing, UNCHANGED <<requests, worker>>,
           records' = records \/ (records # <<>> /\ records' = Tail(records))
    PROVE  Nothing'
<1>1. CASE records' = records
  BY <1>1 DEF Nothing, OnlyLive, Serving
<1>2. CASE records # <<>> /\ records' = Tail(records)
  <2>1. \A i \in DOMAIN records' : i + 1 \in DOMAIN records /\ records'[i] = records[i + 1]
    BY <1>2, Tails DEF QueueInv
  <2> QED
    BY <2>1 DEF Nothing, OnlyLive, Serving
<1> QED
  BY <1>1, <1>2

\* One record of a call that waits, in a session that stays in step.
LEMMA ReadsInStep ==
    ASSUME ThreadInv, CallInv, QueueInv, NEW t \in Threads, Reads(t), Waits(t), Open(t),
           ~broken', ~torn', ~closed'
    PROVE  IF Waits(t)' THEN call'[t] = call[t] => Open(t)' ELSE Nothing'
<1>0. call[t].id # 0 /\ ~ReadsOne(t) /\ UNCHANGED <<requests, worker, process>>
  BY Reading, InClient DEF Waits, ReadsOne, CallInv, CallType, Requests, Operations, UserOperations
<1>a. ASSUME Takes(t)
      PROVE  /\ records # <<>> /\ records' = Tail(records)
             /\ Head(records) = records[1] /\ 1 \in DOMAIN records
  BY <1>a, Tails DEF Takes, QueueInv
<1>b. \A how \in {"ok", "raised"} : Ends(t, how) => ~Waits(t)'
  BY Constants DEF Ends, Comes, Waits, ThreadInv
<1>c. \A operation : Raises(t, operation) \/ Returns(t, operation) => ~Waits(t)'
  BY <1>b DEF Raises, Returns
<1>d. ASSUME records' = records, call' = call
      PROVE  Open(t)'
  BY <1>0, <1>d DEF Open, Sent, Served, Answered, Gone, OnlyLive, Serving
<1>1. CASE LiveMessage(t)
  <2>1. records[1].id = 0 /\ Takes(t) /\ (callback => call' = call) /\ (~callback => call' = call /\ at' = at)
    BY <1>1, <1>a, <1>0 DEF LiveMessage, IsEvent, Item
  <2>2. Waits(t)'
    <3>1. at'[t] \in {"read", "callback"}
      BY <1>1, <1>0 DEF LiveMessage, Comes, ThreadInv, Waits, Takes
    <3> QED
      BY <2>1, <3>1 DEF Waits
  <2> QED
    BY <2>1, <2>2, <1>a, <1>0, OpenTail
<1>2. CASE Answer(t) \/ Refusal(t)
  <2>1. /\ Takes(t) /\ Mine(t) /\ Item.kind # "event" /\ ~Waits(t)'
    BY <1>2, <1>c DEF Answer, Refusal, IsFailure
  <2> QED
    BY <2>1, <1>a, <1>0, OpenAnswered DEF Mine, Item
<1>3. CASE ExportEvent(t)
  <2>1. Takes(t) /\ Item.kind = "event" /\ call' = call
    BY <1>3 DEF ExportEvent
  <2>2. Waits(t)'
    <3>1. at'[t] \in {"read", "callback"}
      BY <1>3 DEF ExportEvent, Comes, ThreadInv, Takes
    <3> QED
      BY <2>1, <3>1, <1>0 DEF Waits
  <2> QED
    BY <2>1, <2>2, <1>a, <1>0, OpenTail DEF Item
<1>4. CASE CallbackReturns(t)
  <2>1. call' = call /\ records' = records /\ Comes(t, "read")
    BY <1>4, <1>0 DEF CallbackReturns, pipes
  <2>2. Waits(t)'
    BY <2>1, <1>0 DEF Comes, ThreadInv, Waits
  <2> QED
    BY <2>1, <2>2, <1>d
<1>5. ~(LiveFailure(t) \/ Unexpected(t) \/ WorkerEof(t) \/ ReadsClosed(t) \/ CallbackThrows(t))
  <2>1. ~LiveFailure(t)
    BY <1>0 DEF LiveFailure
  <2>2. ~ReadsClosed(t)
    BY DEF ReadsClosed, pipes
  <2> QED
    BY <2>1, <2>2 DEF Unexpected, WorkerEof, CallbackThrows
<1> QED
  BY <1>1, <1>2, <1>3, <1>4, <1>5 DEF Reads

\* The worker takes the request and answers it.
LEMMA WorksInStep ==
    ASSUME QueueInv, worker \in WorkerType, Serves, NEW t \in Threads, Open(t),
           call[t] \in Requests, call'[t] = call[t]
    PROVE  Open(t)'
<1>0. call[t] # NoRequest /\ call[t].id # 0
  BY NoRequestType DEF Requests, Ids
<1>g. ~Gone(t)
  BY Working DEF Gone
<1>1. CASE TakesRequest
  <2>1. Sent(t)
    BY <1>1, <1>g DEF TakesRequest, Open, Served, Answered
  <2>2. requests' = <<>> /\ worker'.serving = call[t] /\ records' = records
    BY <1>1, <2>1 DEF TakesRequest, Sent
  <2> QED
    BY <2>1, <2>2 DEF Sent, Open, Served, OnlyLive
<1>2. ASSUME NEW item \in RecordType, records' = Append(records, item), requests' = requests,
             GoesOn(item) \/ Finishes(item) \/ Reports(item)
      PROVE  Open(t)'
  <2>1. /\ DOMAIN records \subseteq Nat \ {0}
        /\ \A i \in DOMAIN records' : i \in Nat \ {0} /\
             \/ i \in DOMAIN records /\ records'[i] = records[i]
             \/ i = Len(records) + 1 /\ records'[i] = item /\ \A j \in DOMAIN records : j < i
        /\ Len(records) + 1 \in DOMAIN records' /\ records'[Len(records) + 1] = item
        /\ \A i \in DOMAIN records : i \in DOMAIN records' /\ records'[i] = records[i]
    BY <1>2, Appends, AppendProperties DEF QueueInv
  <2>2. CASE GoesOn(item)
    <3>1. Served(t)
      BY <1>g, <2>2 DEF GoesOn, Open, Sent, Answered
    <3> QED
      BY <1>2, <2>1, <2>2, <3>1 DEF GoesOn, Served, Open
  <2>3. CASE Finishes(item)
    <3>1. Served(t)
      BY <1>g, <2>3 DEF Finishes, Open, Sent, Answered
    <3>2. item.id = call[t].id /\ item.kind # "event" /\ ~Serving'
      BY <2>3, <3>1 DEF Finishes, Served, Serving
    <3>0. \A i \in DOMAIN records : i < Len(records) + 1
      BY LenProperties DEF QueueInv
    <3>3. \A i \in DOMAIN records' : i # Len(records) + 1 /\ records'[i].id # 0 =>
            i < Len(records) + 1 /\ records'[i].id = call[t].id /\ records'[i].kind = "event"
      BY <2>1, <3>0, <3>1 DEF Served
    <3>4. requests' = <<>>
      BY <1>2, <3>1 DEF Served
    <3> QED
      BY <2>1, <3>2, <3>3, <3>4 DEF Answered, Open
  <2>4. CASE Reports(item)
    <3>1. item.id = 0 /\ worker'.serving = worker.serving
      BY <2>4 DEF Reports
    <3>2. CASE Sent(t)
      BY <1>2, <2>1, <3>1, <3>2 DEF Sent, Open, OnlyLive, Serving
    <3>3. CASE Served(t)
      BY <1>2, <2>1, <3>1, <3>3 DEF Served, Open
    <3>4. CASE Answered(t)
      <4>1. PICK l \in DOMAIN records :
              /\ records[l].id = call[t].id /\ records[l].kind # "event"
              /\ \A i \in DOMAIN records : i # l /\ records[i].id # 0 =>
                   i < l /\ records[i].id = call[t].id /\ records[i].kind = "event"
        BY <3>4 DEF Answered
      <4>2. \A i \in DOMAIN records' : i # l /\ records'[i].id # 0 =>
              i < l /\ records'[i].id = call[t].id /\ records'[i].kind = "event"
        BY <2>1, <3>1, <4>1
      <4>3. l \in DOMAIN records' /\ records'[l] = records[l]
        BY <2>1
      <4>4. requests' = <<>> /\ ~Serving'
        BY <1>2, <3>1, <3>4 DEF Answered, Serving
      <4> QED
        BY <4>1, <4>2, <4>3, <4>4 DEF Open, Answered
    <3> QED
      BY <1>g, <3>2, <3>3, <3>4 DEF Open
  <2> QED
    BY <1>2, <2>2, <2>3, <2>4
<1> QED
  BY <1>1, <1>2, Work

LEMMA WorksOnNothing ==
    ASSUME QueueInv, worker \in WorkerType, Serves, Nothing
    PROVE  Nothing'
<1>1. ASSUME NEW item \in RecordType, records' = Append(records, item), requests' = requests,
             Reports(item)
      PROVE  Nothing'
  <2>1. \A i \in DOMAIN records' : \/ i \in DOMAIN records /\ records'[i] = records[i]
                                   \/ records'[i] = item
    BY <1>1, Appends DEF QueueInv
  <2> QED
    BY <1>1, <2>1 DEF Reports, Nothing, Serving, OnlyLive
<1> QED
  BY <1>1, Work DEF TakesRequest, GoesOn, Finishes, Nothing

LEMMA StepStep ==
    ASSUME ThreadInv, CountInv, CallInv, QueueInv, worker \in WorkerType, StepInv, [Next]_vars
    PROVE  StepInv'
<1> SUFFICES ASSUME ~broken', ~torn', ~closed'
             PROVE  /\ (\A t \in Threads : ~Waits(t)') => Nothing'
                    /\ \A t \in Threads : Waits(t)' => Open(t)'
  BY DEF StepInv
<1> DEFINE Goal == /\ (\A t \in Threads : ~Waits(t)') => Nothing'
                   /\ \A t \in Threads : Waits(t)' => Open(t)'
<1>a. ASSUME Nothing, UNCHANGED <<requests, records, worker>>
      PROVE  Nothing'
  BY <1>a DEF Nothing, OnlyLive, Serving
<1>1. CASE Start
  <2>1. requests' = <<>> /\ records' = <<>> /\ worker'.serving = NoRequest
    BY <1>1 DEF Start, Idle
  <2>2. Nothing'
    BY <2>1, EmptySeq DEF Nothing, OnlyLive, Serving
  <2>3. \A t \in Threads : ~Waits(t)'
    BY <1>1, NoRequestType DEF Start, Waits
  <2> QED
    BY <2>2, <2>3
<1>2. CASE ReadEvent
  <2>1. \A t \in Threads : ~Waits(t)
    BY <1>2, Constants DEF ReadEvent, Waits, ThreadInv, HelperLetsGo
  <2>2. \A t \in Threads : ~Waits(t)'
    <3>1. at'[Helper] = at[Helper] /\ call'[Helper] = call[Helper] /\ call'[User].id = 0
      BY <1>2, Constants DEF ReadEvent, Comes, ThreadInv, CallInv
    <3> QED
      BY <2>1, <3>1, Constants DEF Waits
  <2>3. ~broken /\ ~torn /\ ~closed /\ UNCHANGED <<requests, records, worker>>
    BY <1>2 DEF ReadEvent, client, pipes, history
  <2> QED
    BY <1>a, <2>1, <2>2, <2>3 DEF StepInv
<1>3. CASE Controls
  <2>1. /\ ~broken /\ ~torn /\ ~closed /\ UNCHANGED <<call, requests, records, process, worker>>
        /\ \A t \in Threads : Waits(t)' <=> Waits(t)
    BY <1>3 DEF Controls, Kept, Waits
  <2> QED
    BY <2>1 DEF StepInv, Nothing, Open, Sent, Served, Answered, Gone, OnlyLive, Serving
<1>4. ASSUME NEW t \in Threads, NEW operation \in Operations, Sends(t, operation),
             nextId <= MaxRequests + 1, at[t] \in {"idle", "send"},
             \A u \in Threads : u # t => at[u] \notin {"send", "read", "callback"}
      PROVE  Goal
  <2>1. \A u \in Threads : ~Waits(u)
    BY <1>4 DEF Waits
  <2>2. ~broken /\ ~torn /\ ~closed /\ UNCHANGED <<records, worker>>
    BY <1>4 DEF Sends
  <2>3. Nothing
    BY <2>1, <2>2 DEF StepInv
  <2>4. \A u \in Threads : u # t => ~Waits(u)'
    BY <1>4, InClient DEF Waits
  <2>5. CASE requests' = requests /\ at'[t] \notin {"read", "callback"}
    BY <1>a, <2>2, <2>3, <2>4, <2>5 DEF Waits
  <2>6. CASE /\ call' = [call EXCEPT ![t] = Asks(operation)] /\ requests' = Append(requests, call'[t])
             /\ at'[t] = "read"
    <3>1. call'[t].id # 0
      BY <1>4, <2>6, AsksType DEF CallInv, CountInv
    <3>2. Waits(t)'
      BY <2>6, <3>1 DEF Waits
    <3>3. Sent(t)'
      <4>1. requests' = <<call'[t]>>
        BY <2>3, <2>6 DEF Nothing
      <4> QED
        BY <4>1, <2>2, <2>3 DEF Sent, Nothing, OnlyLive, Serving
    <3> QED
      BY <2>4, <3>2, <3>3 DEF Open
  <2> QED
    BY <1>4, <2>5, <2>6, Sending
<1>5. ASSUME NEW t \in Threads, Reads(t)
      PROVE  Goal
  <2>1. at[t] \in {"read", "callback"} /\ \A u \in Threads : u # t => ~Waits(u)
    BY <1>5, ReadsInside, Alone DEF Waits
  <2>2. \A u \in Threads : u # t => ~Waits(u)'
    BY <1>5, <2>1, Alone, InClient DEF Waits
  <2>3. ~broken /\ ~torn /\ ~closed /\ UNCHANGED <<requests, worker>>
    <3>1. ~broken /\ ~closed /\ UNCHANGED <<requests, worker>>
      BY <1>5, Breaks, Reading, InClient
    <3>2. ~torn
      BY <1>5 DEF Reads, LiveMessage, LiveFailure, Answer, Refusal, ExportEvent, Unexpected,
                  WorkerEof, ReadsClosed, CallbackReturns, CallbackThrows, history
    <3> QED
      BY <3>1, <3>2
  <2>4. CASE Waits(t)
    <3>1. Open(t)
      BY <2>3, <2>4 DEF StepInv
    <3>2. IF Waits(t)' THEN call'[t] = call[t] => Open(t)' ELSE Nothing'
      BY <1>5, <2>4, <3>1, ReadsInStep
    <3>3. Waits(t)' => call'[t] = call[t]
      BY <1>5, Reading, NoRequestType DEF Waits, CallInv
    <3> QED
      BY <2>2, <3>2, <3>3
  <2>5. CASE ~Waits(t)
    <3>1. Nothing
      BY <2>1, <2>3, <2>5 DEF StepInv
    <3>2. Nothing'
      BY <1>5, <2>3, <3>1, Reading, NothingTail
    <3>3. ~Waits(t)'
      BY <1>5, <2>1, <2>5, Reading, NoRequestType DEF Waits, CallInv
    <3> QED
      BY <2>2, <3>2, <3>3
  <2> QED
    BY <2>4, <2>5
<1>6. CASE Serves
  <2>1. /\ ~broken /\ ~torn /\ ~closed /\ call' = call
        /\ \A t \in Threads : Waits(t)' <=> Waits(t)
    BY <1>6, Working DEF HostSide, Waits
  <2>2. \A t \in Threads : Waits(t) => call[t] \in Requests
    BY DEF Waits, CallInv, CallType
  <2> QED
    BY <1>6, <2>1, <2>2, WorksInStep, WorksOnNothing DEF StepInv
<1>7. CASE Interrupted
  <2>1. /\ ~broken /\ ~torn /\ ~closed /\ ReadsOne(User) /\ UNCHANGED <<requests, records, worker>>
        /\ at[User] = "read" /\ at'[User] = "idle" /\ at'[Helper] = at[Helper]
    <3>1. torn' = (torn \/ ~ReadsOne(User)) /\ broken' = broken /\ closed' = closed
      BY <1>7, Interrupting
    <3>2. ~broken /\ ~torn /\ ~closed /\ ReadsOne(User)
      BY <3>1, Zenon
    <3> QED
      BY <1>7, <3>2, Interrupting
  <2>2. call[User].id = 0
    BY <2>1, Constants DEF ReadsOne, CallInv, CallType, Requests, Operations, UserOperations
  <2>3. at[Helper] \notin {"read", "callback"}
    BY <2>1, Alone, Constants
  <2> QED
    BY <1>a, <2>1, <2>2, <2>3, Constants DEF StepInv, Waits
<1>8. CASE Ending
  <2>1. /\ ~broken /\ ~torn /\ ~closed /\ UNCHANGED <<call, records>>
        /\ \A t \in Threads : Waits(t)' <=> Waits(t)
    BY <1>8 DEF Ending, Remains, Waits
  <2>2. process' = "dead" /\ requests' = <<>> /\ ~Serving'
    BY <1>8, DeadServes DEF Ending, Dies, Serving
  <2>3. Nothing => Nothing'
    BY <2>1, <2>2 DEF Nothing, OnlyLive
  <2>4. ASSUME NEW t \in Threads, Open(t)
        PROVE  Open(t)'
    <3>1. CASE Answered(t)
      BY <2>1, <2>2, <3>1 DEF Open, Answered
    <3>2. CASE ~Answered(t)
      BY <2>1, <2>2, <2>4, <3>2 DEF Open, Sent, Served, Gone, OnlyLive
    <3> QED
      BY <3>1, <3>2
  <2> QED
    BY <2>1, <2>3, <2>4 DEF StepInv
<1> QED
  BY <1>1, <1>2, <1>3, <1>4, <1>5, <1>6, <1>7, <1>8, Steps
-----------------------------------------------------------------------------
LEMMA HostInit == Init => HostInv
<1> SUFFICES ASSUME Init PROVE HostInv
  OBVIOUS
<1>1. /\ at = [t \in Threads |-> "idle"] /\ call = [t \in Threads |-> NoRequest]
      /\ requests = <<>> /\ records = <<>> /\ nextId = 1 /\ heard = 0 /\ lost = 0
      /\ ~broken /\ ~owned /\ ~closed /\ process = "none" /\ sessions = 0 /\ purpose = "start"
      /\ worker = Worker(NoRequest, TRUE, "no", 0, FALSE, 0, 0)
  BY DEF Init, Idle, Worker
<1>2. \A t \in Threads : ~Waits(t)
  BY <1>1 DEF Waits
<1>3. ThreadInv /\ CountInv /\ SilentInv
  BY <1>1, Constants DEF ThreadInv, CountInv, SilentInv, HelperLetsGo, NoOrphan, UserPlaces, HelperPlaces
<1>4. TypeInv
  <2>1. 0 \in 0..MaxLive /\ 0 \in 0..(MaxMessages + 1) /\ 0 \in 0..MaxSessions /\ 1 \in 1..(MaxRequests + 2)
    BY Constants
  <2>2. worker \in WorkerType /\ worker.live = 0
    BY <1>1, <2>1, WorkerTyped DEF Listeners, Worker
  <2>3. CallInv /\ HeardInv /\ RestInv
    <3>1. CallInv
      <4>1. \A t \in Threads : call[t] = NoRequest
        BY <1>1
      <4>2. \A t \in Threads : call[t].id < nextId
        BY <1>1, <4>1, NoRequestType
      <4> QED
        BY <1>1, <4>2, NoRequestType DEF CallInv
    <3>2. HeardInv
      <4>1. heard \in 0..MaxLive /\ lost \in 0..MaxLive
        BY <1>1, <2>1
      <4>2. heard + lost <= worker.live
        <5>1. heard = 0 /\ lost = 0 /\ worker.live = 0
          BY <1>1, <2>2
        <5> QED
          BY <5>1
      <4> QED
        BY <4>1, <4>2 DEF HeardInv
    <3>3. RestInv
      BY <1>1, <2>1 DEF RestInv
    <3> QED
      BY <3>1, <3>2, <3>3
  <2>4. QueueInv
    BY <1>1, EmptySeq DEF QueueInv
  <2>5. FlagInv
    BY DEF Init, FlagInv
  <2> QED
    BY <2>2, <2>3, <2>4, <2>5 DEF TypeInv
<1>5. TypeOK
  BY <1>3, <1>4, TypeParts DEF ThreadInv, Places
<1>6. LiveInv /\ OrderInv /\ FreshInv
  BY <1>1, EmptySeq DEF LiveInv, OrderInv, FreshInv, Serving, Worker
<1>7. LastInv /\ SameInv /\ StopInv
  BY <1>2 DEF LastInv, SameInv, StopInv
<1>8. Nothing /\ Quiet
  BY <1>1, EmptySeq DEF Nothing, Quiet, OnlyLive, Serving, Worker, NoRequest, Listens
<1>9. StepInv /\ HearInv
  BY <1>1, <1>2, <1>8 DEF StepInv, HearInv
<1> QED
  BY <1>3, <1>5, <1>6, <1>7, <1>9 DEF HostInv

LEMMA HostStep == HostInv /\ [Next]_vars => HostInv'
<1> SUFFICES ASSUME HostInv, [Next]_vars PROVE HostInv'
  OBVIOUS
<1>1. /\ TypeInv /\ CallInv /\ QueueInv /\ worker \in WorkerType /\ ThreadInv /\ SilentInv
      /\ CountInv /\ LiveInv /\ LastInv /\ OrderInv /\ FreshInv /\ SameInv /\ StepInv /\ StopInv /\ HearInv
  BY TypeParts DEF HostInv, TypeInv
<1>2. ThreadInv' /\ SilentInv' /\ CountInv'
  BY <1>1, ThreadStep, SilentStep, CountStep
<1>3. TypeInv' /\ LiveInv'
  BY <1>1, TypeStep
<1>4. TypeOK'
  BY <1>2, <1>3, TypeParts DEF ThreadInv, Places, TypeOK, TypeInv, CallInv, QueueInv, FlagInv,
     HeardInv, RestInv, CallType, RecordType, WorkerType, UserPlaces, HelperPlaces
<1>5. LastInv' /\ OrderInv' /\ FreshInv' /\ SameInv' /\ StopInv'
  BY <1>1, LastStep, OrderStep, FreshStep, SameStep, StopStep
<1>6. StepInv' /\ HearInv'
  BY <1>1, StepStep, HearStep
<1> QED
  BY <1>2, <1>3, <1>4, <1>5, <1>6 DEF HostInv

(***************************************************************************)
(* Ids, queues and counts stay in their ranges, live messages are counted  *)
(* once.                                                                   *)
(***************************************************************************)
THEOREM HostTypeCorrect == Spec => []TypeOK
<1>1. HostInv => TypeOK
  BY DEF HostInv
<1> QED
  BY <1>1, HostInit, HostStep, PTL DEF Spec

(***************************************************************************)
(* However start and close end, also when their helper is late and when    *)
(* the worker does not listen to terminate, no worker is left once the     *)
(* host has let go of it (process.py 98-156).                              *)
(***************************************************************************)
THEOREM NobodyIsOrphaned == Spec => []NoOrphan
<1>1. HostInv => NoOrphan
  BY DEF HostInv, ThreadInv
<1> QED
  BY <1>1, HostInit, HostStep, PTL DEF Spec

(***************************************************************************)
(* The client has no lock and needs none: the helper of start and close    *)
(* never runs in it while the user does.                                   *)
(***************************************************************************)
THEOREM OneThreadInside == Spec => []HelperLetsGo
<1>1. HostInv => HelperLetsGo
  BY DEF HostInv, ThreadInv
<1> QED
  BY <1>1, HostInit, HostStep, PTL DEF Spec

(***************************************************************************)
(* Between two calls a usable session has no request open and no answer    *)
(* unread, whatever the worker wrote: either every call took the answer to *)
(* it, or the session is broken, or a live error took an answer's place.   *)
(***************************************************************************)
THEOREM InStep == Spec => []InStepOrBroken
<1>1. HostInv => InStepOrBroken
  <2> SUFFICES ASSUME HostInv, at[User] = "idle", owned, ~broken, ~torn
               PROVE  Nothing
    BY DEF InStepOrBroken, Nothing, OnlyLive, Serving
  <2>1. \A t \in Threads : ~Waits(t)
    BY Constants DEF HostInv, ThreadInv, HelperLetsGo, Waits
  <2> QED
    BY <2>1 DEF HostInv, ThreadInv, StepInv
<1> QED
  BY <1>1, HostInit, HostStep, PTL DEF Spec

(***************************************************************************)
(* A live message that the client reads is dropped only when the session   *)
(* fails with it (an export reads it, client.py 109), when the last        *)
(* start_listening failed or was given no callback (client.py 171, 178),   *)
(* or when a stop was answered that had missed the listener                *)
(* (telethon_backend.py 529).                                              *)
(***************************************************************************)
LEMMA DroppedOnly ==
    ASSUME HostInv, [Next]_vars, lost' # lost, sessions' = sessions
    PROVE  broken' \/ deaf \/ worker.runaway
<1>1. /\ ThreadInv /\ SilentInv /\ CountInv /\ HearInv /\ QueueInv /\ sessions \in Nat
  BY TypeParts, Constants DEF HostInv, TypeInv, RestInv
<1>2. ~Start
  BY <1>1 DEF Start
<1>3. ~ReadEvent /\ ~Controls
  BY DEF ReadEvent, Controls, Kept, history
<1>4. \A t, operation : ~Sends(t, operation)
  BY DEF Sends
<1>5. ~Serves /\ ~Ending /\ ~Interrupted
  BY <1>1, Working, Interrupting DEF HostSide, Ending, Remains
<1>6. PICK t \in Threads : Reads(t)
  BY <1>1, <1>2, <1>3, <1>4, <1>5, Steps
<1>7. CASE LiveMessage(t)
  <2>1. ~callback
    BY <1>7 DEF LiveMessage
  <2>2. ~broken
    BY <1>1, <1>6, ReadsInside DEF SilentInv
  <2>3. ~Quiet
    <3>1. IsLive(records[1]) /\ 1 \in DOMAIN records
      BY <1>1, <1>7, Tails DEF LiveMessage, Takes, IsEvent, Item, IsLive, QueueInv
    <3> QED
      BY <3>1 DEF Quiet
  <2> QED
    BY <1>1, <2>1, <2>2, <2>3 DEF HearInv
<1>8. CASE Unexpected(t)
  BY <1>8 DEF Unexpected
<1>9. ~(LiveFailure(t) \/ Answer(t) \/ Refusal(t) \/ ExportEvent(t) \/ WorkerEof(t)
        \/ ReadsClosed(t) \/ CallbackReturns(t) \/ CallbackThrows(t))
  BY DEF LiveFailure, Answer, Refusal, ExportEvent, WorkerEof, ReadsClosed, CallbackReturns,
         CallbackThrows, history
<1> QED
  BY <1>6, <1>7, <1>8, <1>9 DEF Reads

THEOREM NothingIsLost == Spec => ListenerHears
<1>1. HostInv /\ [Next]_vars =>
        [lost' # lost /\ sessions' = sessions => broken' \/ deaf \/ worker.runaway]_vars
  BY DroppedOnly
<1> QED
  BY <1>1, HostInit, HostStep, PTL DEF Spec, ListenerHears

(***************************************************************************)
(* A call that returns has taken the only answer to its id: no request and *)
(* no record of that id is left, however many answers live errors have     *)
(* left unread before (client.py 58-83).                                   *)
(***************************************************************************)
THEOREM OwnAnswer == Spec => AnswersItsRequest
<1>1. HostInv /\ [Next]_vars =>
        [\A t \in Threads, id \in Ids : Answer(t) /\ call[t].id = id => ~Due(id)']_vars
  <2> SUFFICES ASSUME HostInv, NEW t \in Threads, NEW id \in Ids, Answer(t), call[t].id = id
               PROVE  ~Due(id)'
    OBVIOUS
  <2>1. QueueInv /\ worker \in WorkerType /\ OrderInv /\ FreshInv
    BY TypeParts DEF HostInv, TypeInv
  <2>2. /\ records # <<>> /\ records' = Tail(records) /\ UNCHANGED <<requests, worker>>
        /\ Head(records).id = id /\ Head(records).kind = "response" /\ id # 0
    BY DEF Answer, Takes, Mine, Item
  <2>3. /\ Head(records) = records[1] /\ 1 \in DOMAIN records
        /\ \A i \in DOMAIN records' :
             i \in Nat \ {0} /\ i + 1 \in DOMAIN records /\ records'[i] = records[i + 1]
    BY <2>1, <2>2, Tails DEF QueueInv
  <2>4. Terminal(records[1]) /\ records[1].id = id
    BY <2>2, <2>3 DEF Terminal
  <2>5. \A i \in DOMAIN requests' : requests'[i].id # id
    BY <2>1, <2>2, <2>3, <2>4, Ranges DEF OrderInv
  <2>6. worker'.serving.id # id
    BY <2>1, <2>2, <2>3, <2>4, Ranges DEF OrderInv, Serving
  <2>7. ASSUME NEW i \in DOMAIN records' PROVE records'[i].id # id
    <3>1. 1 < i + 1 /\ i + 1 \in DOMAIN records /\ records'[i] = records[i + 1]
      BY <2>3
    <3>2. records[i + 1].id \in Nat
      BY <2>1, <3>1, Ranges
    <3>3. records[i + 1].id # 0 => id < records[i + 1].id
      BY <2>1, <2>3, <2>4, <3>1 DEF FreshInv
    <3> QED
      BY <2>2, <3>1, <3>2, <3>3
  <2> QED
    BY <2>5, <2>6, <2>7 DEF Due
<1> QED
  BY <1>1, HostInit, HostStep, PTL DEF Spec, AnswersItsRequest

(***************************************************************************)
(* A session that failed sends nothing and reads nothing.                  *)
(***************************************************************************)
LEMMA SilentAction ==
    ASSUME HostInv, [Next]_vars, broken, sessions' = sessions
    PROVE  broken' /\ Len(requests') <= Len(requests) /\ Len(records') >= Len(records)
<1>1. /\ ThreadInv /\ SilentInv /\ CountInv /\ QueueInv /\ worker \in WorkerType /\ sessions \in Nat
  BY TypeParts, Constants DEF HostInv, TypeInv, RestInv
<1>2. Len(requests) \in Nat /\ Len(records) \in Nat
  BY <1>1, LenProperties DEF QueueInv
<1>a. ASSUME UNCHANGED <<broken, requests, records>>
      PROVE  broken' /\ Len(requests') <= Len(requests) /\ Len(records') >= Len(records)
  BY <1>a, <1>2
<1>3. ~Start
  BY <1>1 DEF Start
<1>4. CASE ReadEvent \/ Controls
  BY <1>4, <1>a DEF ReadEvent, Controls, Kept, client, pipes
<1>5. ASSUME NEW t \in Threads, NEW operation, Sends(t, operation)
      PROVE  UNCHANGED <<broken, requests, records>>
  BY <1>1, <1>5, Refuses DEF Sends
<1>6. \A t \in Threads : ~Reads(t)
  BY <1>1, ReadsInside DEF SilentInv
<1>7. CASE Serves
  <2>1. broken' = broken
    BY <1>7, Working DEF HostSide
  <2>2. requests # <<>> => Len(Tail(requests)) = Len(requests) - 1
    BY <1>1, Tails DEF QueueInv
  <2>3. \A item \in RecordType : Len(Append(records, item)) = Len(records) + 1
    BY <1>1, AppendProperties DEF QueueInv
  <2> QED
    BY <1>1, <1>2, <1>7, <2>1, <2>2, <2>3, WorkingPipes
<1>8. ~Interrupted
  BY <1>1, Interrupting, Constants DEF SilentInv
<1>9. CASE Ending
  <2>1. requests' = <<>> /\ UNCHANGED <<broken, records>>
    BY <1>9 DEF Ending, Dies, Remains
  <2>2. Len(requests') = 0
    BY <2>1
  <2> QED
    BY <1>2, <2>1, <2>2
<1> QED
  BY <1>1, <1>3, <1>4, <1>5, <1>6, <1>7, <1>8, <1>9, <1>a, Steps

THEOREM BrokenStaysSilent == Spec => BrokenIsSilent
<1>1. HostInv /\ [Next]_vars =>
        [broken /\ sessions' = sessions =>
           /\ broken'
           /\ Len(requests') <= Len(requests) /\ Len(records') >= Len(records)]_vars
  BY SilentAction
<1> QED
  BY <1>1, HostInit, HostStep, PTL DEF Spec, BrokenIsSilent
=============================================================================
