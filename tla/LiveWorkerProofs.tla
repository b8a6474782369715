-------------------------- MODULE LiveWorkerProofs --------------------------
(***************************************************************************)
(* Theorems about LiveWorker, for every number of chats, messages,         *)
(* generations and requests.                                               *)
(***************************************************************************)
EXTENDS LiveWorker, SequenceTheorems, TLAPS

(***************************************************************************)
(* Type correctness.                                                       *)
(***************************************************************************)
\* The records the server makes are records.
LEMMA ServerRecords ==
    ASSUME ServerTypeOK
    PROVE  /\ \A what \in Whats : /\ Response(what) \in Records
                                  /\ Exported(what) \in Records
                                  /\ Error(what) \in Records
                                  /\ ExportEvent(what) \in Records
           /\ \A g \in Nat : Accepted(g) \in Records /\ LiveError(g) \in Records
           /\ \A g, c, n \in Nat : LiveMessage(g, c, n) \in Records
           /\ SessionError \in Records
           /\ Record("error", 0, "zeroId", 0, 0, requestId + 1) \in Records
  <1>1. requestId \in Nat /\ count \in Nat
    BY ServerAssumption DEF ServerTypeOK
  <1> QED
    BY <1>1 DEF Response, Exported, Error, ExportEvent, Accepted, LiveError,
       LiveMessage, SessionError, Record, Records, Whats

LEMMA AppendType ==
    ASSUME NEW s \in Seq(Records), NEW r \in Records
    PROVE  Append(s, r) \in Seq(Records)
  BY AppendProperties

\* Reading keeps the types.
LEMMA ReadsType ==
    ASSUME ServerTypeOK, Reads
    PROVE  ServerTypeOK'
  <1> USE DEF ServerTypeOK, flags, fate, local, Goto, Return, Write, LoopTop
  <1>1. ASSUME NEW op \in Operations, ReadRequest(op) PROVE ServerTypeOK'
    BY <1>1, ServerAssumption DEF ReadRequest, Requests
  <1>2. CASE ReadZeroId
    <2>1. requestId' \in 0..MaxRequests
      BY <1>2, ServerAssumption DEF ReadZeroId
    <2>2. out' \in Seq(Records)
      BY <1>2, ServerAssumption, ServerRecords, AppendType DEF ReadZeroId
    <2> QED
      BY <1>2, <2>1, <2>2 DEF ReadZeroId
  <1>3. CASE ReadGarbage
    BY <1>3, ServerRecords, AppendType DEF ReadGarbage
  <1>4. CASE ReadEof
    BY <1>4 DEF ReadEof
  <1> QED
    BY <1>1, <1>2, <1>3, <1>4 DEF Reads

\* The ways a handler ends keep the types.
LEMMA AnswerType ==
    ASSUME ServerTypeOK, NEW r \in Records, Answer(r)
    PROVE  ServerTypeOK'
  BY AppendType DEF ServerTypeOK, Answer, Write, Goto, flags, fate

LEMMA ReportType ==
    ASSUME ServerTypeOK, NEW kind \in {"error", "fatal", "refused"},
           AnswerBackendError(kind)
    PROVE  ServerTypeOK'
  <1>1. Error(kind) \in Records
    BY ServerRecords DEF Whats
  <1> QED
    BY <1>1, AppendType DEF ServerTypeOK, AnswerBackendError, Write, Goto, flags

LEMMA TooLongType ==
    ASSUME ServerTypeOK, TooLong
    PROVE  ServerTypeOK'
  BY DEF ServerTypeOK, TooLong, Goto, local, flags, fate

\* A listen that fails reports a BackendError, so exc is never "none" there.
ExcKnown == main = "listen.failed" => exc # "none"

\* Every step of the main thread inside the server keeps the types.
LEMMA HandlesType ==
    ASSUME ServerTypeOK, ExcKnown, LiveTypeOK, HandlesRequest
    PROVE  ServerTypeOK'
  <1> USE DEF Goto, Write, Return, local, flags, fate
  <1>1. CASE AnswerHello \/ StopReply \/ Fallback \/ ExportInvalid \/ ListenInvalid
               \/ ListenRefused \/ ExportTruncate \/ ExportEnd
    BY <1>1, AnswerType, ServerRecords DEF AnswerHello, StopReply, Fallback,
       ExportInvalid, ListenInvalid, ListenRefused, ExportTruncate, ExportEnd, Whats
  <1>2. CASE AnswerQuery
    BY <1>2, AnswerType, ReportType, TooLongType, ServerRecords DEF AnswerQuery, Whats
  <1>3. CASE AnswerUnknown
    <2>1. CASE Answer(Error("error"))
      BY <2>1, AnswerType, ServerRecords DEF Whats
    <2> QED
      BY <1>3, <2>1 DEF AnswerUnknown, ServerTypeOK
  <1>4. CASE AnswerShutdown
    BY <1>4, ServerRecords, AppendType DEF AnswerShutdown, ServerTypeOK, Whats
  <1>5. CASE ExportStart \/ ExportMessage
    <2>1. /\ ExportEvent("export.started") \in Records
          /\ ExportEvent("export.message") \in Records
      BY ServerRecords DEF Whats
    <2>2. CASE ExportStart
      <3>1. limit' \in Nat
        BY <2>2, ServerAssumption DEF ExportStart
      <3> QED
        BY <2>1, <2>2, <3>1, AppendType DEF ExportStart, ServerTypeOK
    <2>3. CASE ExportMessage
      BY <2>1, <2>3, AppendType DEF ExportMessage, ServerTypeOK
    <2> QED
      BY <1>5, <2>2, <2>3
  <1>6. CASE ExportFails
    <2>1. CASE AnswerCrash
      BY <2>1, ServerRecords, AppendType DEF AnswerCrash, ServerTypeOK, Whats
    <2> QED
      BY <1>6, <2>1, ReportType, TooLongType DEF ExportFails
  <1>7. CASE ListenArm \/ ListenFlag \/ StopCheck \/ FlushDone \/ LoopEnds
    BY <1>7 DEF ListenArm, ListenFlag, StopCheck, FlushDone, LoopEnds, ServerTypeOK
  <1>8. CASE ListenFailed
    <2>1. CASE AnswerBackendError(exc)
      BY <1>8, <2>1, ReportType DEF ListenFailed, ExcKnown, ServerTypeOK
    <2> QED
      BY <1>8, <2>1, TooLongType DEF ListenFailed
  <1>9. CASE ListenReply(liveGeneration)
    <2>1. liveGeneration \in Nat
      BY LiveAssumption DEF LiveTypeOK
    <2>2. CASE Write(Accepted(liveGeneration)) /\ Goto("listen.flush")
                 /\ UNCHANGED <<requestId, local, flags, fate>>
      BY <2>1, <2>2, ServerRecords, AppendType DEF ServerTypeOK
    <2> QED
      BY <1>9, <2>2, TooLongType DEF ListenReply
  <1>10. CASE ListenFlush
    BY <1>10 DEF ListenFlush, ServerTypeOK
  <1>11. CASE FlushRecord
    <2>1. Head(flush) \in Records /\ Tail(flush) \in Seq(Records)
      BY <1>11, HeadTailProperties DEF FlushRecord, ServerTypeOK
    <2> QED
      BY <1>11, <2>1, AppendType DEF FlushRecord, ServerTypeOK
  <1>12. CASE FlushRaises
    BY <1>12, EmptySeq DEF FlushRaises, ServerTypeOK
  <1> QED
    BY <1>1, <1>2, <1>3, <1>4, <1>5, <1>6, <1>7, <1>8, <1>9, <1>10, <1>11, <1>12
       DEF HandlesRequest

(***************************************************************************)
(* The backend.  Two facts the types rest on: a thread that is handing     *)
(* messages over has one to hand over, and stop_listening joins a thread.  *)
(***************************************************************************)
BatchFilled == \A g \in Gens : poller[g] = "emit" => batch[g] # <<>>
JoinsThread == call \in {"set", "join"} => joining \in Gens

BackendInv == LiveTypeOK /\ BatchFilled /\ JoinsThread

LEMMA LiveSets ==
    /\ Gens \subseteq Nat /\ Chats \subseteq Nat /\ Ids \subseteq Nat
    /\ 1 \in Chats /\ 0 \in Ids
  BY LiveAssumption DEF Gens, Chats, Ids

\* What PollFetch reads is a non-empty sequence of ids.
LEMMA NewerIdsType ==
    ASSUME LiveTypeOK, NEW c \in Chats, NEW mark \in Ids, latest[c] > mark
    PROVE  /\ NewerIds(c, mark) \in Seq(Ids)
           /\ NewerIds(c, mark) # <<>>
           /\ NewerIds(c, mark)[Len(NewerIds(c, mark))] \in Ids
  <1> DEFINE n == Lowest(FetchLimit, latest[c] - mark)
  <1>1. latest[c] \in Ids /\ latest[c] \in Nat /\ mark \in Nat /\ MaxMsgs \in Nat
        /\ latest[c] <= MaxMsgs /\ FetchLimit \in Nat \ {0}
    BY LiveAssumption DEF LiveTypeOK, Ids
  <1>2. n \in Nat /\ n >= 1 /\ n <= latest[c] - mark
    BY <1>1 DEF Lowest
  <1>3. \A k \in 1..n : mark + k \in Ids
    BY <1>1, <1>2 DEF Ids
  <1> HIDE DEF n
  <1>4. [k \in 1..n |-> mark + k] \in Seq(Ids) /\ Len([k \in 1..n |-> mark + k]) = n
    BY <1>2, <1>3
  <1>5. NewerIds(c, mark) = [k \in 1..n |-> mark + k]
    BY DEF NewerIds, n
  <1>6. NewerIds(c, mark)[n] = mark + n /\ mark + n \in Ids
    BY <1>2, <1>3, <1>5
  <1> QED
    BY <1>2, <1>4, <1>5, <1>6

\* A step of the main thread inside the backend.
BackendStep ==
    \/ StartRefused \/ StartPrepare \/ StartFails \/ StartThread
    \/ StopNothing \/ StopSwap \/ StopSet \/ StopJoined

\* A step of polling thread g.
PollerStep(g) ==
    \/ PollTop(g) \/ PollNothingNew(g) \/ PollFetch(g) \/ PollFault(g)
    \/ PollSkip(g) \/ PollDeliver(g) \/ PollDeliverRaises(g)
    \/ PollClear(g) \/ PollCheck(g)
    \/ PollReported(g) \/ PollReportRaises(g) \/ \E to : PollFlagCleared(g, to)

LEMMA BackendStepInv ==
    ASSUME BackendInv, BackendStep
    PROVE  BackendInv'
  <1> USE LiveAssumption DEF BackendInv, LiveTypeOK, BatchFilled, JoinsThread, Gens,
      Live, Over, Polling, threadVars
  <1>1. CASE StartRefused \/ StopNothing
    BY <1>1 DEF StartRefused, StopNothing, liveVars
  <1>2. CASE StartPrepare \/ StartFails
    BY <1>2 DEF StartPrepare, StartFails
  <1>3. CASE StartThread
    BY <1>3 DEF StartThread
  <1>4. CASE StopSwap
    BY <1>4 DEF StopSwap
  <1>5. CASE StopSet
    BY <1>5 DEF StopSet
  <1>6. CASE StopJoined
    BY <1>6 DEF StopJoined
  <1> QED
    BY <1>1, <1>2, <1>3, <1>4, <1>5, <1>6 DEF BackendStep

LEMMA NextChatType ==
    ASSUME BackendInv, NEW g \in Gens, NextChat(g)
    PROVE  /\ turn' \in [Gens -> Chats]
           /\ poller' = [poller EXCEPT ![g] = "fetch"] \/ poller' = [poller EXCEPT ![g] = "top"]
  BY LiveAssumption DEF BackendInv, LiveTypeOK, NextChat, Chats

LEMMA HeadDoneInv ==
    ASSUME BackendInv, NEW g \in Gens, HeadDone(g)
    PROVE  BackendInv'
  <1>1. /\ batch[g] \in Seq(Ids) /\ batch[g] # <<>>
        /\ batch' = [batch EXCEPT ![g] = Tail(batch[g])]
    BY DEF BackendInv, LiveTypeOK, BatchFilled, HeadDone
  <1>2. Tail(batch[g]) \in Seq(Ids) /\ Len(Tail(batch[g])) = Len(batch[g]) - 1
    BY <1>1, HeadTailProperties
  <1>3. Len(batch[g]) > 1 => Tail(batch[g]) # <<>>
    <2>1. Len(<<>>) = 0 /\ Len(batch[g]) \in Nat
      BY <1>1, EmptySeq, LenProperties
    <2>2. ASSUME Len(batch[g]) > 1, Tail(batch[g]) = <<>> PROVE FALSE
      <3>1. Len(batch[g]) - 1 = 0
        BY <1>2, <2>1, <2>2
      <3> QED
        BY <2>1, <2>2, <3>1
    <2> QED
      BY <2>2
  <1>4. CASE Len(batch[g]) > 1
    BY <1>1, <1>2, <1>3, <1>4 DEF BackendInv, LiveTypeOK, BatchFilled, JoinsThread, HeadDone
  <1>5. CASE ~(Len(batch[g]) > 1)
    <2>1. NextChat(g)
      BY <1>5 DEF HeadDone
    <2>2. /\ turn' \in [Gens -> Chats]
          /\ poller'[g] # "emit"
          /\ \A h \in Gens \ {g} : poller'[h] = poller[h]
          /\ poller' \in [Gens -> Live \cup {"unborn", "check", "report", "clearFlag"} \cup Over]
      BY <2>1, NextChatType DEF BackendInv, LiveTypeOK, Live, Over, Polling
    <2>3. /\ batch' \in [Gens -> Seq(Ids)]
          /\ \A h \in Gens \ {g} : batch'[h] = batch[h]
      BY <1>1, <1>2 DEF BackendInv, LiveTypeOK
    <2>4. BatchFilled'
      BY <2>2, <2>3 DEF BackendInv, BatchFilled
    <2> QED
      BY <2>2, <2>3, <2>4 DEF BackendInv, LiveTypeOK, JoinsThread, HeadDone
  <1> QED
    BY <1>4, <1>5

LEMMA PollerStepInv ==
    ASSUME BackendInv, NEW g \in Gens, PollerStep(g)
    PROVE  BackendInv'
  <1> USE DEF BackendInv, LiveTypeOK, BatchFilled, JoinsThread, Live, Over, Polling
  <1>1. CASE PollTop(g)
    BY <1>1, LiveSets DEF PollTop
  <1>2. CASE PollNothingNew(g)
    BY <1>2, NextChatType DEF PollNothingNew
  <1>3. CASE PollFetch(g)
    <2> DEFINE c   == turn[g]
               ids == NewerIds(c, watches[g][c])
    <2>1. /\ ids \in Seq(Ids) /\ ids # <<>> /\ ids[Len(ids)] \in Ids
      BY <1>3, NewerIdsType DEF PollFetch
    <2>2. /\ batch' = [batch EXCEPT ![g] = ids]
          /\ watches' = [watches EXCEPT ![g][c] = ids[Len(ids)]]
          /\ poller' = [poller EXCEPT ![g] = "emit"]
      BY <1>3 DEF PollFetch
    <2> HIDE DEF ids
    <2>3. batch' \in [Gens -> Seq(Ids)] /\ watches' \in [Gens -> [Chats -> Ids]]
      BY <2>1, <2>2
    <2> QED
      BY <1>3, <2>1, <2>2, <2>3 DEF PollFetch
  <1>4. CASE PollFault(g) \/ PollDeliverRaises(g)
    BY <1>4 DEF PollFault, PollDeliverRaises
  <1>5. CASE PollSkip(g) \/ PollDeliver(g)
    BY <1>5, HeadDoneInv DEF PollSkip, PollDeliver
  <1>6. CASE PollClear(g)
    BY <1>6, LiveAssumption DEF PollClear
  <1>7. CASE PollCheck(g)
    BY <1>7 DEF PollCheck
  <1>8. CASE PollReported(g) \/ PollReportRaises(g) \/ \E to : PollFlagCleared(g, to)
    BY <1>8 DEF PollReported, PollReportRaises, PollFlagCleared, PollMoves
  <1> QED
    BY <1>1, <1>2, <1>3, <1>4, <1>5, <1>6, <1>7, <1>8 DEF PollerStep

(***************************************************************************)
(* The callbacks and the joint steps.                                      *)
(***************************************************************************)
LEMMA EmitType ==
    ASSUME ServerTypeOK, NEW r \in Records, EmitLive(r)
    PROVE  ServerTypeOK' /\ main' = main /\ exc' = exc
  BY AppendType DEF ServerTypeOK, EmitLive, Write, local, fate

\* Every step of the worker is one of five kinds, seen from the backend.
LEMMA StepKinds ==
    ASSUME Next
    PROVE  \/ (Reads \/ HandlesRequest) /\ UNCHANGED liveVars
           \/ CallsBackend /\ BackendStep
           \/ \E g \in Gens : LiveThread(g) /\ PollerStep(g)
           \/ Telegram
           \/ UNCHANGED vars
  <1>1. CASE CallsBackend
    BY <1>1 DEF CallsBackend, BackendStep, CallStart, CallStartRefused, CallStartFails,
       CallStartReturns, CallStop, CallStopSignals, CallStopReturns
  <1>2. ASSUME NEW g \in Gens, LiveThread(g) PROVE PollerStep(g)
    BY <1>2 DEF LiveThread, PollerStep, Polls, OnMessage, OnMessageRaises, OnError,
       OnErrorRaises, OnErrorClearFlag
  <1> QED
    BY <1>1, <1>2 DEF Next, Exited

\* The strengthening of TypeOK that every step preserves.
TypeInv == ServerTypeOK /\ ExcKnown /\ BackendInv

LEMMA TypeInit == Init => TypeInv
  <1> SUFFICES ASSUME Init PROVE TypeInv
    OBVIOUS
  <1>1. ServerTypeOK /\ ExcKnown
    <2>1. <<>> \in Seq(Records) /\ 0 \in 0..MaxRequests
      BY ServerAssumption, EmptySeq
    <2> QED
      BY <2>1 DEF Init, ServerInit, ServerTypeOK, ExcKnown
  <1>2. BackendInv
    BY LiveSets, LiveAssumption, EmptySeq
       DEF Init, LiveInit, BackendInv, LiveTypeOK, BatchFilled, JoinsThread, NoMarks, Live, Over, Polling
  <1> QED
    BY <1>1, <1>2 DEF TypeInv

LEMMA ExcStep ==
    ASSUME TypeInv, Reads \/ HandlesRequest
    PROVE  ExcKnown'
  <1> USE DEF TypeInv, ServerTypeOK, ExcKnown, Goto, Return, Answer, AnswerBackendError,
      AnswerCrash, TooLong, local
  <1>1. CASE Reads
    BY <1>1 DEF Reads, ReadRequest, ReadZeroId, ReadGarbage, ReadEof, Requests, LoopTop
  <1>2. CASE HandlesRequest
    <2>1. main' # "listen.failed"
      BY <1>2 DEF HandlesRequest, AnswerHello, AnswerQuery, AnswerUnknown, AnswerShutdown,
         ExportInvalid, ExportStart, ExportMessage, ExportTruncate, ExportEnd, ExportFails,
         ListenInvalid, ListenRefused, ListenArm, ListenFailed, ListenFlag, ListenReply,
         ListenFlush, FlushRecord, FlushRaises, FlushDone, StopCheck, StopReply, Fallback,
         LoopEnds
    <2> QED
      BY <2>1
  <1> QED
    BY <1>1, <1>2

LEMMA CallsType ==
    ASSUME TypeInv, CallsBackend
    PROVE  ServerTypeOK' /\ ExcKnown'
  <1> USE DEF TypeInv, ServerTypeOK, ExcKnown, Goto, local, flags, fate, serverVars
  <1>1. CASE CallStart \/ CallStop \/ CallStopSignals
    BY <1>1 DEF CallStart, CallStop, CallStopSignals
  <1>2. ASSUME NEW kind \in {"error", "fatal", "refused"}, ListenAborted(kind)
        PROVE  ServerTypeOK' /\ ExcKnown'
    BY <1>2, EmptySeq DEF ListenAborted
  <1>3. CASE CallStartRefused \/ CallStartFails
    BY <1>2, <1>3 DEF CallStartRefused, CallStartFails
  <1>4. CASE CallStartReturns
    BY <1>4 DEF CallStartReturns, ListenStarted
  <1>5. CASE CallStopReturns
    BY <1>5 DEF CallStopReturns, StopReturned, CloseReturned
  <1> QED
    BY <1>1, <1>3, <1>4, <1>5 DEF CallsBackend

LEMMA ThreadType ==
    ASSUME TypeInv, NEW g \in Gens, LiveThread(g)
    PROVE  ServerTypeOK' /\ ExcKnown'
  <1>1. CASE Polls(g) \/ OnMessageRaises(g) \/ OnErrorRaises(g)
    BY <1>1 DEF Polls, OnMessageRaises, OnErrorRaises, EmitRaises, TypeInv, ServerTypeOK,
       ExcKnown, serverVars, local, flags, fate
  <1>2. CASE OnMessage(g)
    <2>1. batch[g] \in Seq(Ids) /\ batch[g] # <<>> /\ turn[g] \in Nat
      BY <1>2, LiveSets
         DEF OnMessage, PollDeliver, TypeInv, BackendInv, BatchFilled, LiveTypeOK
    <2>2. Head(batch[g]) \in Nat
      BY <2>1, HeadTailProperties, LiveSets
    <2>3. Found(g) \in Records
      BY <2>1, <2>2, ServerRecords, LiveSets DEF Found, TypeInv
    <2> QED
      BY <1>2, <2>3, EmitType DEF OnMessage, TypeInv, ExcKnown
  <1>3. CASE OnError(g)
    <2>1. LiveError(g) \in Records
      BY ServerRecords, LiveSets DEF TypeInv
    <2> QED
      BY <1>3, <2>1, EmitType DEF OnError, TypeInv, ExcKnown
  <1>4. CASE OnErrorClearFlag(g)
    BY <1>4 DEF OnErrorClearFlag, ClearListenFlag, TypeInv, ServerTypeOK, ExcKnown, local, fate
  <1> QED
    BY <1>1, <1>2, <1>3, <1>4 DEF LiveThread

LEMMA TypeStep == TypeInv /\ [Next]_vars => TypeInv'
  <1> SUFFICES ASSUME TypeInv, [Next]_vars PROVE TypeInv'
    OBVIOUS
  <1>1. CASE (Reads \/ HandlesRequest) /\ UNCHANGED liveVars
    <2>1. ServerTypeOK' /\ ExcKnown'
      BY <1>1, ReadsType, HandlesType, ExcStep DEF TypeInv, BackendInv
    <2>2. BackendInv'
      BY <1>1 DEF TypeInv, BackendInv, LiveTypeOK, BatchFilled, JoinsThread, liveVars, threadVars
    <2> QED
      BY <2>1, <2>2 DEF TypeInv
  <1>2. CASE CallsBackend /\ BackendStep
    BY <1>2, CallsType, BackendStepInv DEF TypeInv
  <1>3. CASE \E g \in Gens : LiveThread(g) /\ PollerStep(g)
    BY <1>3, ThreadType, PollerStepInv DEF TypeInv
  <1>4. CASE Telegram
    BY <1>4, LiveAssumption
       DEF Telegram, NewMessage, TypeInv, ServerTypeOK, ExcKnown, BackendInv, LiveTypeOK,
           BatchFilled, JoinsThread, Ids, serverVars, local, flags, fate, threadVars
  <1>5. CASE UNCHANGED vars
    BY <1>5 DEF vars, TypeInv, ServerTypeOK, ExcKnown, BackendInv, LiveTypeOK, BatchFilled,
       JoinsThread, serverVars, local, flags, fate, liveVars, threadVars
  <1> QED
    BY <1>1, <1>2, <1>3, <1>4, <1>5, StepKinds

(***************************************************************************)
(* The variables of the worker always have their types: no counter leaves  *)
(* its range, and no step hands over a message it does not have.           *)
(***************************************************************************)
THEOREM TypeCorrect == Spec => []TypeOK
  <1>1. TypeInv => TypeOK
    BY DEF TypeInv, BackendInv, TypeOK
  <1> QED
    BY <1>1, TypeInit, TypeStep, PTL DEF Spec

(***************************************************************************)
(* At most one thread polls.                                               *)
(***************************************************************************)
LEMMA RegistryBackend ==
    ASSUME BackendInv, RegistryInv, BackendStep
    PROVE  RegistryInv'
  <1> USE LiveSets DEF BackendInv, LiveTypeOK, JoinsThread, RegistryInv, Live, Over, Polling, threadVars
  <1>1. CASE StartRefused \/ StopNothing
    BY <1>1 DEF StartRefused, StopNothing, liveVars
  <1>2. CASE StartPrepare \/ StartFails
    BY <1>2 DEF StartPrepare, StartFails
  <1>3. CASE StartThread
    BY <1>3 DEF StartThread
  <1>4. CASE StopSwap
    BY <1>4 DEF StopSwap
  <1>5. CASE StopSet
    BY <1>5 DEF StopSet
  <1>6. CASE StopJoined
    BY <1>6 DEF StopJoined
  <1> QED
    BY <1>1, <1>2, <1>3, <1>4, <1>5, <1>6 DEF BackendStep

\* A polling thread moves only itself, is live after only if it was before,
\* and touches the registration only to withdraw from it.
LEMMA PollerLocal ==
    ASSUME BackendInv, NEW g \in Gens, PollerStep(g)
    PROVE  /\ \A h \in Gens \ {g} : poller'[h] = poller[h]
           /\ poller'[g] \in Live => poller[g] \in Live
           /\ liveThread' = liveThread
                \/ (liveThread = g /\ liveThread' = 0 /\ poller'[g] \notin Live)
           /\ UNCHANGED <<call, joining, liveGeneration>>
  <1> USE DEF BackendInv, LiveTypeOK, Live, Over, Polling
  <1>1. CASE PollTop(g) \/ PollFetch(g)
    BY <1>1 DEF PollTop, PollFetch
  <1>2. CASE PollNothingNew(g) \/ PollSkip(g) \/ PollDeliver(g)
    <2>1. poller[g] \in {"fetch", "emit"}
          /\ UNCHANGED <<liveThread, call, joining, liveGeneration>>
          /\ (UNCHANGED poller \/ NextChat(g))
      BY <1>2 DEF PollNothingNew, PollSkip, PollDeliver, HeadDone
    <2> QED
      BY <2>1, NextChatType
  <1>3. CASE PollFault(g) \/ PollDeliverRaises(g)
    BY <1>3 DEF PollFault, PollDeliverRaises
  <1>4. CASE PollClear(g)
    BY <1>4 DEF PollClear
  <1>5. CASE PollCheck(g)
    BY <1>5 DEF PollCheck
  <1>6. CASE PollReported(g) \/ PollReportRaises(g) \/ \E to : PollFlagCleared(g, to)
    BY <1>6 DEF PollReported, PollReportRaises, PollFlagCleared, PollMoves
  <1> QED
    BY <1>1, <1>2, <1>3, <1>4, <1>5, <1>6 DEF PollerStep

LEMMA RegistryPoller ==
    ASSUME BackendInv, RegistryInv, NEW g \in Gens, PollerStep(g)
    PROVE  RegistryInv'
  BY PollerLocal DEF RegistryInv

LEMMA RegistryStep == TypeInv /\ RegistryInv /\ [Next]_vars => RegistryInv'
  <1> SUFFICES ASSUME TypeInv, RegistryInv, [Next]_vars PROVE RegistryInv'
    OBVIOUS
  <1>1. CASE UNCHANGED liveVars
    BY <1>1 DEF RegistryInv, liveVars, threadVars
  <1>2. CASE CallsBackend /\ BackendStep
    BY <1>2, RegistryBackend DEF TypeInv
  <1>3. CASE \E g \in Gens : LiveThread(g) /\ PollerStep(g)
    BY <1>3, RegistryPoller DEF TypeInv
  <1>4. CASE Telegram
    BY <1>4 DEF Telegram, NewMessage, RegistryInv, threadVars
  <1> QED
    BY <1>1, <1>2, <1>3, <1>4, StepKinds DEF vars

LEMMA RegistryInit == Init => RegistryInv
  BY DEF Init, LiveInit, RegistryInv, Live, Over, Polling

LEMMA RegistryImplies == TypeInv /\ RegistryInv => AtMostOnePoller
  <1> SUFFICES ASSUME TypeInv, RegistryInv, NEW g \in Gens, NEW h \in Gens,
                      poller[g] \in Live, poller[h] \in Live
               PROVE  g = h
    BY DEF AtMostOnePoller
  <1>1. g # 0 /\ h # 0
    BY LiveAssumption DEF Gens
  <1>2. CASE call \in {"idle", "prepare"}
    BY <1>1, <1>2 DEF RegistryInv
  <1>3. CASE call \in {"set", "join"}
    BY <1>1, <1>3 DEF RegistryInv
  <1> QED
    BY <1>2, <1>3 DEF TypeInv, BackendInv, LiveTypeOK

(***************************************************************************)
(* However listens, stops, poll failures and late errors interleave, the   *)
(* backend never has two threads polling the same session.                 *)
(***************************************************************************)
THEOREM OnePoller == Spec => []AtMostOnePoller
  <1>1. Init => TypeInv /\ RegistryInv
    BY TypeInit, RegistryInit
  <1>2. (TypeInv /\ RegistryInv) /\ [Next]_vars => (TypeInv /\ RegistryInv)'
    BY TypeStep, RegistryStep
  <1> QED
    BY <1>1, <1>2, RegistryImplies, PTL DEF Spec

(***************************************************************************)
(* Nothing polls after run has returned.                                   *)
(***************************************************************************)
LEMMA ServerKeepsClosed ==
    ASSUME Reads \/ HandlesRequest
    PROVE  main' \notin {"close.backend", "exited"}
  <1> USE DEF Goto, Return, Answer, AnswerBackendError, AnswerCrash, TooLong, LoopTop
  <1>1. CASE Reads
    BY <1>1 DEF Reads, ReadRequest, ReadZeroId, ReadGarbage, ReadEof, Requests
  <1>2. CASE HandlesRequest
    BY <1>2 DEF HandlesRequest, AnswerHello, AnswerQuery, AnswerUnknown, AnswerShutdown,
       ExportInvalid, ExportStart, ExportMessage, ExportTruncate, ExportEnd, ExportFails,
       ListenInvalid, ListenRefused, ListenArm, ListenFailed, ListenFlag, ListenReply,
       ListenFlush, FlushRecord, FlushRaises, FlushDone, StopCheck, StopReply, Fallback,
       LoopEnds
  <1> QED
    BY <1>1, <1>2

LEMMA ThreadKeepsMain ==
    ASSUME NEW g \in Gens, LiveThread(g)
    PROVE  main' = main
  BY DEF LiveThread, Polls, OnMessage, OnMessageRaises, OnError, OnErrorRaises,
     OnErrorClearFlag, EmitLive, EmitRaises, ClearListenFlag, serverVars

LEMMA ClosedStep == TypeInv /\ RegistryInv /\ ClosedInv /\ [Next]_vars => ClosedInv'
  <1> SUFFICES ASSUME TypeInv, RegistryInv, ClosedInv, [Next]_vars PROVE ClosedInv'
    OBVIOUS
  <1>1. CASE (Reads \/ HandlesRequest) /\ UNCHANGED liveVars
    BY <1>1, ServerKeepsClosed DEF ClosedInv
  <1>2. CASE CallsBackend
    <2> USE DEF ClosedInv, RegistryInv, serverVars, liveVars
    <2>1. CASE CallStart \/ CallStop
      BY <2>1 DEF CallStart, CallStop, StartPrepare, StopSwap
    <2>2. CASE CallStopSignals
      BY <2>2 DEF CallStopSignals, StopSet
    <2>3. CASE CallStartRefused \/ CallStartFails \/ CallStartReturns
      BY <2>3 DEF CallStartRefused, CallStartFails, CallStartReturns, ListenAborted,
         ListenStarted, Goto
    <2>4. CASE CallStopReturns
      BY <2>4 DEF CallStopReturns, StopReturned, CloseReturned, StopNothing, StopJoined, Goto
    <2> QED
      BY <1>2, <2>1, <2>2, <2>3, <2>4 DEF CallsBackend
  <1>3. ASSUME NEW g \in Gens, LiveThread(g), PollerStep(g) PROVE ClosedInv'
    BY <1>3, PollerLocal, ThreadKeepsMain DEF ClosedInv, TypeInv
  <1>4. CASE Telegram
    BY <1>4 DEF Telegram, NewMessage, ClosedInv, serverVars
  <1>5. CASE UNCHANGED vars
    BY <1>5 DEF vars, serverVars, liveVars, ClosedInv
  <1> QED
    BY <1>1, <1>2, <1>3, <1>4, <1>5, StepKinds

(***************************************************************************)
(* When run has returned no thread polls: closing joins the registered     *)
(* thread, and a thread that is not registered has left its loop.          *)
(***************************************************************************)
THEOREM ExitIsQuiet == Spec => []ExitStopsPolling
  <1> DEFINE Inv == TypeInv /\ RegistryInv /\ ClosedInv
  <1>1. Init => Inv
    BY TypeInit, RegistryInit DEF Init, ServerInit, ClosedInv
  <1>2. Inv /\ [Next]_vars => Inv'
    BY TypeStep, RegistryStep, ClosedStep
  <1>3. Inv => ExitStopsPolling
    <2>1. \A g \in Gens : g # 0
      BY LiveAssumption DEF Gens
    <2> QED
      BY <2>1 DEF ExitStopsPolling, RegistryInv, ClosedInv
  <1> HIDE DEF Inv
  <1> QED
    BY <1>1, <1>2, <1>3, PTL DEF Spec

(***************************************************************************)
(* What the host sees of the listener, when every record fits.             *)
(***************************************************************************)
\* A record that is no message may always be written; a message, once its
\* listener is accepted.
Allowed(r) == r \in Records /\ (r.what = "message" => IsAccepted(r.gen))

LEMMA WriteAllowed ==
    ASSUME ServerTypeOK, EventsAfterAccept, NEW r, Allowed(r), Write(r)
    PROVE  /\ EventsAfterAccept'
           /\ \A g : IsAccepted(g) => IsAccepted(g)'
           /\ r.what = "accepted" => IsAccepted(r.gen)'
  <1>1. /\ out \in Seq(Records) /\ r \in Records /\ out' = Append(out, r)
        /\ Len(out) \in Nat /\ Places = 1..Len(out)
    BY LenProperties DEF ServerTypeOK, Allowed, Write, Places
  <1>2. /\ Places' = 1..(Len(out) + 1)
        /\ out'[Len(out) + 1] = r
        /\ \A k \in Places : out'[k] = out[k] /\ k \in Places'
    BY <1>1, AppendProperties, LenProperties DEF Places
  <1>3. \A g : IsAccepted(g) => IsAccepted(g)'
    BY <1>2 DEF IsAccepted
  <1>4. r.what = "accepted" => IsAccepted(r.gen)'
    BY <1>1, <1>2 DEF IsAccepted
  <1>5. ASSUME NEW k \in Places', out'[k].what = "message"
        PROVE  \E j \in 1..(k - 1) : out'[j].what = "accepted" /\ out'[j].gen = out'[k].gen
    <2>1. CASE k \in Places
      <3>1. PICK j \in 1..(k - 1) : out[j].what = "accepted" /\ out[j].gen = out[k].gen
        BY <1>2, <1>5, <2>1 DEF EventsAfterAccept
      <3>2. j \in Places
        BY <1>1, <2>1
      <3> QED
        BY <1>2, <2>1, <3>1, <3>2
    <2>2. CASE k = Len(out) + 1
      <3>1. PICK j \in Places : out[j].what = "accepted" /\ out[j].gen = r.gen
        BY <1>2, <1>5, <2>2 DEF Allowed, IsAccepted
      <3>2. j \in 1..(k - 1)
        BY <1>1, <2>2
      <3> QED
        BY <1>2, <2>2, <3>1, <3>2
    <2> QED
      BY <1>1, <1>2, <2>1, <2>2
  <1>6. EventsAfterAccept'
    BY <1>5 DEF EventsAfterAccept
  <1> QED
    BY <1>3, <1>4, <1>6

\* Every record the server writes on its own account is allowed.
LEMMA ServerAllowed ==
    ASSUME ServerTypeOK
    PROVE  /\ \A what \in Whats \ {"message"} :
                 /\ Allowed(Response(what)) /\ Allowed(Exported(what))
                 /\ Allowed(Error(what)) /\ Allowed(ExportEvent(what))
           /\ \A g \in Nat : /\ Allowed(Accepted(g)) /\ Allowed(LiveError(g))
                             /\ Accepted(g).what = "accepted" /\ Accepted(g).gen = g
           /\ Allowed(SessionError)
           /\ Allowed(Record("error", 0, "zeroId", 0, 0, requestId + 1))
  <1>1. /\ \A what \in Whats \ {"message"} :
              /\ Response(what).what # "message" /\ Exported(what).what # "message"
              /\ Error(what).what # "message" /\ ExportEvent(what).what # "message"
        /\ \A g \in Nat : /\ Accepted(g).what = "accepted" /\ Accepted(g).gen = g
                          /\ LiveError(g).what # "message"
        /\ SessionError.what # "message"
        /\ Record("error", 0, "zeroId", 0, 0, requestId + 1).what # "message"
    BY DEF Response, Exported, Error, ExportEvent, Accepted, LiveError, SessionError, Record
  <1> QED
    BY <1>1, ServerRecords DEF Allowed

\* What a step of the main thread may do to the output and the two lists.
Writes ==
    \/ UNCHANGED out
    \/ \E r : Allowed(r) /\ Write(r)

LEMMA ReadsWrites ==
    ASSUME ServerTypeOK, Reads
    PROVE  /\ Writes /\ UNCHANGED <<pending, flush, eventsReady>>
           /\ main = "read" /\ main' \in Requests \cup {"read", "close.stop"}
  <1>1. ASSUME NEW op \in Operations, ReadRequest(op)
        PROVE  /\ Writes /\ UNCHANGED <<pending, flush, eventsReady>>
               /\ main = "read" /\ main' \in Requests \cup {"read", "close.stop"}
    BY <1>1 DEF ReadRequest, Writes, local, flags, LoopTop, Goto
  <1>2. CASE ReadZeroId
    BY <1>2, ServerAllowed DEF ReadZeroId, Writes, local, flags, LoopTop, Return, Goto
  <1>3. CASE ReadGarbage
    BY <1>3, ServerAllowed DEF ReadGarbage, Writes, local, flags, LoopTop, Return, Goto
  <1>4. CASE ReadEof
    BY <1>4 DEF ReadEof, Writes, local, flags, LoopTop, Return, Goto
  <1> QED
    BY <1>1, <1>2, <1>3, <1>4 DEF Reads

LEMMA WritesKeep ==
    ASSUME ServerTypeOK, EventsAfterAccept, Writes
    PROVE  EventsAfterAccept' /\ \A g : IsAccepted(g) => IsAccepted(g)'
  <1>1. CASE UNCHANGED out
    BY <1>1 DEF EventsAfterAccept, IsAccepted, Places
  <1>2. CASE \E r : Allowed(r) /\ Write(r)
    BY <1>2, WriteAllowed
  <1> QED
    BY <1>1, <1>2 DEF Writes

\* The invariant of this part: what is written and what waits.
FeedInv == EventsAfterAccept /\ AcceptInv

ListenStates == {"listen.start", "listen.flag", "listen.reply", "listen.flush"}

\* A step that writes an allowed record, away from the path of a listen.
LEMMA FeedElsewhere ==
    ASSUME ServerTypeOK, FeedInv, Writes, UNCHANGED <<poller, liveGeneration>>,
           pending' = pending, flush' = flush \/ flush' = <<>>,
           ~Answering, main' \notin ListenStates
    PROVE  FeedInv'
  <1>1. EventsAfterAccept' /\ \A g : IsAccepted(g) => IsAccepted(g)'
    BY WritesKeep DEF FeedInv
  <1>2. \A k \in DOMAIN flush' : k \in DOMAIN flush /\ flush'[k] = flush[k]
    BY EmptySeq, LenProperties
  <1>3. AcceptInv'
    BY <1>1, <1>2 DEF FeedInv, AcceptInv, ListenStates
  <1> QED
    BY <1>1, <1>3 DEF FeedInv

\* The handlers outside the path of a listen, with every record fitting.
OtherHandler ==
    \/ AnswerHello \/ AnswerQuery \/ AnswerUnknown \/ AnswerShutdown
    \/ ExportInvalid \/ ExportStart \/ ExportMessage \/ ExportTruncate
    \/ ExportEnd \/ ExportFails
    \/ ListenInvalid \/ ListenRefused \/ ListenFailed
    \/ FlushRaises \/ FlushDone
    \/ StopCheck \/ StopReply \/ Fallback \/ LoopEnds

Elsewhere ==
    /\ Writes
    /\ pending' = pending
    /\ eventsReady' = eventsReady
    /\ flush' = flush \/ flush' = <<>>
    /\ main \notin ListenStates
    /\ main' \notin ListenStates

LEMMA OtherWrites ==
    ASSUME ServerTypeOK, ExcKnown, ~LongTexts, OtherHandler
    PROVE  Elsewhere
  <1> USE DEF Elsewhere, ListenStates, Goto, Return, local, flags
  <1>1. ASSUME NEW r, Allowed(r), Answer(r), main \notin ListenStates PROVE Elsewhere
    BY <1>1 DEF Answer, Writes
  <1>2. ASSUME NEW kind \in {"error", "fatal", "refused"}, AnswerBackendError(kind),
               main \notin ListenStates
        PROVE  Elsewhere
    BY <1>2, ServerAllowed DEF AnswerBackendError, Writes, Whats
  <1>3. ~TooLong
    BY DEF TooLong
  <1>4. CASE AnswerHello \/ StopReply \/ Fallback \/ ExportInvalid \/ ListenInvalid
               \/ ListenRefused \/ ExportTruncate \/ ExportEnd \/ AnswerUnknown
    BY <1>1, <1>4, ServerAllowed DEF AnswerHello, StopReply, Fallback, ExportInvalid,
       ListenInvalid, ListenRefused, ExportTruncate, ExportEnd, AnswerUnknown, Whats
  <1>5. CASE AnswerQuery
    BY <1>1, <1>2, <1>3, <1>5, ServerAllowed DEF AnswerQuery, Whats
  <1>6. CASE AnswerShutdown
    BY <1>6, ServerAllowed DEF AnswerShutdown, Writes, Whats
  <1>7. CASE ExportStart \/ ExportMessage
    BY <1>7, ServerAllowed DEF ExportStart, ExportMessage, Writes, Whats
  <1>8. CASE ExportFails
    <2>1. CASE AnswerCrash
      BY <1>8, <2>1, ServerAllowed DEF AnswerCrash, ExportFails, Writes, Whats
    <2> QED
      BY <1>2, <1>3, <1>8, <2>1 DEF ExportFails
  <1>9. CASE ListenFailed
    <2>1. exc \in {"error", "fatal", "refused"}
      BY <1>9 DEF ListenFailed, ExcKnown, ServerTypeOK
    <2> QED
      BY <1>2, <1>3, <1>9, <2>1 DEF ListenFailed
  <1>10. CASE FlushRaises \/ FlushDone \/ StopCheck \/ LoopEnds
    BY <1>10 DEF FlushRaises, FlushDone, StopCheck, LoopEnds, Writes
  <1> QED
    BY <1>4, <1>5, <1>6, <1>7, <1>8, <1>9, <1>10 DEF OtherHandler

LEMMA FeedHandles ==
    ASSUME TypeInv, FeedInv, ~LongTexts, HandlesRequest, UNCHANGED liveVars
    PROVE  FeedInv'
  <1> USE DEF Goto, local, flags
  <1>1. /\ ServerTypeOK /\ ExcKnown /\ EventsAfterAccept /\ AcceptInv
        /\ UNCHANGED <<poller, liveGeneration>>
    BY DEF TypeInv, FeedInv, liveVars, threadVars
  <1>2. CASE OtherHandler
    BY <1>1, <1>2, OtherWrites, FeedElsewhere DEF Elsewhere, ListenStates, Answering
  <1>3. CASE ListenArm \/ ListenFlag
    BY <1>1, <1>3 DEF ListenArm, ListenFlag, FeedInv, EventsAfterAccept, AcceptInv,
       IsAccepted, Places, Answering
  <1>4. CASE ListenReply(liveGeneration)
    <2>1. /\ Write(Accepted(liveGeneration)) /\ main' = "listen.flush"
          /\ UNCHANGED <<flush, pending, eventsReady>> /\ main = "listen.reply"
      BY <1>4 DEF ListenReply, TooLong
    <2>2. liveGeneration \in Nat
      BY LiveAssumption DEF TypeInv, BackendInv, LiveTypeOK
    <2>3. /\ EventsAfterAccept'
          /\ \A g : IsAccepted(g) => IsAccepted(g)'
          /\ IsAccepted(liveGeneration)'
      BY <1>1, <2>1, <2>2, ServerAllowed, WriteAllowed
    <2>4. AcceptInv'
      BY <1>1, <2>1, <2>3 DEF AcceptInv, Answering
    <2> QED
      BY <2>3, <2>4 DEF FeedInv
  <1>5. CASE ListenFlush
    BY <1>1, <1>5, EmptySeq DEF ListenFlush, FeedInv, EventsAfterAccept, AcceptInv,
       IsAccepted, Places, Answering
  <1>6. CASE FlushRecord
    <2>1. /\ flush \in Seq(Records) /\ flush # <<>> /\ flush' = Tail(flush)
          /\ Write(Head(flush)) /\ UNCHANGED <<main, pending, eventsReady>>
          /\ main = "listen.flushing"
      BY <1>1, <1>6 DEF FlushRecord, ServerTypeOK
    <2>2. /\ Head(flush) = flush[1] /\ 1 \in DOMAIN flush /\ Head(flush) \in Records
          /\ \A k \in DOMAIN flush' : k + 1 \in DOMAIN flush /\ flush'[k] = flush[k + 1]
      BY <2>1, HeadTailProperties, LenProperties, EmptySeq
    <2>3. Allowed(Head(flush))
      BY <1>1, <2>2 DEF Allowed, AcceptInv
    <2>4. EventsAfterAccept' /\ \A g : IsAccepted(g) => IsAccepted(g)'
      BY <1>1, <2>1, <2>3, WriteAllowed
    <2>5. AcceptInv'
      BY <1>1, <2>1, <2>2, <2>4 DEF AcceptInv, Answering
    <2> QED
      BY <2>4, <2>5 DEF FeedInv
  <1> QED
    BY <1>2, <1>3, <1>4, <1>5, <1>6 DEF HandlesRequest, OtherHandler

LEMMA FeedCalls ==
    ASSUME TypeInv, FeedInv, CallsBackend
    PROVE  FeedInv'
  <1> USE DEF FeedInv, EventsAfterAccept, IsAccepted, Places, AcceptInv, Answering,
      Goto, local, flags, serverVars, liveVars, threadVars
  <1>1. CASE CallStart \/ CallStop \/ CallStopSignals
    BY <1>1 DEF CallStart, CallStop, CallStopSignals, StartPrepare, StopSwap, StopSet
  <1>2. CASE CallStartRefused \/ CallStartFails
    BY <1>2, EmptySeq DEF CallStartRefused, CallStartFails, StartRefused, StartFails,
       ListenAborted
  <1>3. CASE CallStartReturns
    BY <1>3, LiveAssumption DEF CallStartReturns, StartThread, ListenStarted, TypeInv,
       BackendInv, LiveTypeOK, Gens, Live, Over, Polling
  <1>4. CASE CallStopReturns
    BY <1>4 DEF CallStopReturns, StopNothing, StopJoined, StopReturned, CloseReturned
  <1> QED
    BY <1>1, <1>2, <1>3, <1>4 DEF CallsBackend

LEMMA FeedThread ==
    ASSUME TypeInv, FeedInv, NEW g \in Gens, LiveThread(g), PollerStep(g)
    PROVE  FeedInv'
  <1>1. /\ \A h \in Gens : poller'[h] \in Live => poller[h] \in Live
        /\ liveGeneration' = liveGeneration /\ main' = main
    BY PollerLocal, ThreadKeepsMain DEF TypeInv
  <1>2. CASE Polls(g) \/ OnMessageRaises(g) \/ OnErrorRaises(g) \/ OnErrorClearFlag(g)
    BY <1>1, <1>2 DEF Polls, OnMessageRaises, OnErrorRaises, OnErrorClearFlag, EmitRaises,
       ClearListenFlag, FeedInv, EventsAfterAccept, IsAccepted, Places, AcceptInv,
       Answering, local, flags, serverVars
  <1>3. ASSUME NEW r \in Records, EmitLive(r),
               r.what = "message" => r.gen = g /\ poller[g] \in Live
        PROVE  FeedInv'
    <2>1. ServerTypeOK /\ EventsAfterAccept /\ AcceptInv
      BY DEF TypeInv, FeedInv
    <2>2. CASE eventsReady
      <3>1. Write(r) /\ UNCHANGED <<pending, flush, eventsReady>>
        BY <1>3, <2>2 DEF EmitLive, local
      <3>2. Allowed(r)
        BY <1>3, <2>1, <2>2 DEF Allowed, AcceptInv, Answering
      <3>3. EventsAfterAccept' /\ \A h : IsAccepted(h) => IsAccepted(h)'
        BY <2>1, <3>1, <3>2, WriteAllowed
      <3>4. AcceptInv'
        BY <1>1, <2>1, <3>1, <3>3 DEF AcceptInv, Answering
      <3> QED
        BY <3>3, <3>4 DEF FeedInv
    <2>3. CASE ~eventsReady
      <3>1. /\ pending' = Append(pending, r) /\ UNCHANGED <<out, flush, eventsReady>>
            /\ pending \in Seq(Records)
        BY <1>3, <2>1, <2>3 DEF EmitLive, local, ServerTypeOK
      <3>2. \A k \in DOMAIN pending' :
              \/ k \in DOMAIN pending /\ pending'[k] = pending[k]
              \/ pending'[k] = r
        BY <3>1, AppendProperties, LenProperties
      <3>3. EventsAfterAccept' /\ \A h : IsAccepted(h)' <=> IsAccepted(h)
        BY <2>1, <3>1 DEF EventsAfterAccept, IsAccepted, Places
      <3>4. AcceptInv'
        BY <1>1, <1>3, <2>1, <3>1, <3>2, <3>3 DEF AcceptInv, Answering
      <3> QED
        BY <3>3, <3>4 DEF FeedInv
    <2> QED
      BY <2>2, <2>3
  <1>4. CASE OnMessage(g)
    <2>1. /\ batch[g] \in Seq(Ids) /\ batch[g] # <<>> /\ turn[g] \in Nat /\ poller[g] = "emit"
      BY <1>4, LiveSets
         DEF OnMessage, PollDeliver, TypeInv, BackendInv, BatchFilled, LiveTypeOK
    <2>2. Head(batch[g]) \in Nat
      BY <2>1, HeadTailProperties, LiveSets
    <2>3. Found(g) \in Records /\ Found(g).gen = g
      BY <2>1, <2>2, ServerRecords, LiveSets DEF Found, LiveMessage, Record, TypeInv
    <2> QED
      BY <1>3, <1>4, <2>1, <2>3 DEF OnMessage, Live, Over, Polling
  <1>5. CASE OnError(g)
    <2>1. LiveError(g) \in Records /\ LiveError(g).what = "liveError"
      BY ServerRecords, LiveSets DEF LiveError, Record, TypeInv
    <2> QED
      BY <1>3, <1>5, <2>1 DEF OnError
  <1> QED
    BY <1>2, <1>4, <1>5 DEF LiveThread

LEMMA FeedStep ==
    ASSUME ~LongTexts, TypeInv, FeedInv, [Next]_vars
    PROVE  FeedInv'
  <1>1. CASE Reads /\ UNCHANGED liveVars
    <2>1. /\ Writes /\ UNCHANGED <<pending, flush, eventsReady>>
          /\ main = "read" /\ main' \notin ListenStates /\ ServerTypeOK
      BY <1>1, ReadsWrites DEF TypeInv, Requests, ListenStates
    <2> QED
      BY <1>1, <2>1, FeedElsewhere DEF Answering, liveVars, threadVars
  <1>2. CASE HandlesRequest /\ UNCHANGED liveVars
    BY <1>2, FeedHandles
  <1>3. CASE CallsBackend
    BY <1>3, FeedCalls
  <1>4. CASE \E g \in Gens : LiveThread(g) /\ PollerStep(g)
    BY <1>4, FeedThread
  <1>5. CASE Telegram \/ UNCHANGED vars
    BY <1>5 DEF Telegram, NewMessage, vars, FeedInv, EventsAfterAccept, IsAccepted, Places,
       AcceptInv, Answering, serverVars, local, flags, liveVars, threadVars
  <1> QED
    BY <1>1, <1>2, <1>3, <1>4, <1>5, StepKinds

LEMMA FeedInit == Init => FeedInv
  BY EmptySeq DEF Init, ServerInit, LiveInit, FeedInv, EventsAfterAccept, AcceptInv, Places,
     Live, Over, Polling

(***************************************************************************)
(* When every record fits its limit, the host never sees a message of a    *)
(* listener before the response that accepts it, whatever polling faults,  *)
(* late errors, stops and new listens interleave.                          *)
(***************************************************************************)
THEOREM AcceptedFirst ==
    ASSUME ~LongTexts
    PROVE  Spec => []EventsAfterAccept
  <1> DEFINE Inv == TypeInv /\ FeedInv
  <1>1. Init => Inv
    BY TypeInit, FeedInit
  <1>2. Inv /\ [Next]_vars => Inv'
    BY TypeStep, FeedStep
  <1>3. Inv => EventsAfterAccept
    BY DEF FeedInv
  <1> HIDE DEF Inv
  <1> QED
    BY <1>1, <1>2, <1>3, PTL DEF Spec

LEMMA StrandedStep ==
    ASSUME ~LongTexts, TypeInv, NoStrandedRecords, [Next]_vars
    PROVE  NoStrandedRecords'
  <1> USE DEF NoStrandedRecords, Goto, local, flags, serverVars
  <1>1. CASE Reads
    BY <1>1, ReadsWrites DEF TypeInv
  <1>2. CASE HandlesRequest
    <2>1. CASE OtherHandler
      BY <2>1, OtherWrites DEF TypeInv, Elsewhere, ListenStates
    <2>2. CASE ListenArm \/ ListenFlag \/ ListenReply(liveGeneration) \/ ListenFlush
                 \/ FlushRecord
      BY <2>2 DEF ListenArm, ListenFlag, ListenReply, TooLong, ListenFlush, FlushRecord
    <2> QED
      BY <1>2, <2>1, <2>2 DEF HandlesRequest, OtherHandler
  <1>3. CASE CallsBackend
    BY <1>3 DEF CallsBackend, CallStart, CallStop, CallStopSignals, CallStartRefused,
       CallStartFails, CallStartReturns, CallStopReturns, ListenAborted, ListenStarted,
       StopReturned, CloseReturned
  <1>4. CASE \E g \in Gens : LiveThread(g)
    BY <1>4 DEF LiveThread, Polls, OnMessage, OnMessageRaises, OnError, OnErrorRaises,
       OnErrorClearFlag, EmitLive, EmitRaises, ClearListenFlag
  <1>5. CASE Telegram \/ UNCHANGED vars
    BY <1>5 DEF Telegram, vars
  <1> QED
    BY <1>1, <1>2, <1>3, <1>4, <1>5, StepKinds

(***************************************************************************)
(* When every record fits, live events are switched off, and records kept  *)
(* back, only while a messages.listen is being answered.                   *)
(***************************************************************************)
THEOREM NothingStranded ==
    ASSUME ~LongTexts
    PROVE  Spec => []NoStrandedRecords
  <1>1. Init => TypeInv /\ NoStrandedRecords
    BY TypeInit DEF Init, ServerInit, NoStrandedRecords
  <1>2. (TypeInv /\ NoStrandedRecords) /\ [Next]_vars => (TypeInv /\ NoStrandedRecords)'
    BY TypeStep, StrandedStep
  <1> QED
    BY <1>1, <1>2, PTL DEF Spec
=============================================================================
