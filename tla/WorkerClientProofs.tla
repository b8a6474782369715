------------------------ MODULE WorkerClientProofs ------------------------
(***************************************************************************)
(* Theorems about WorkerClient, for every number of callers, sessions,     *)
(* requests and events, and for every limit.                               *)
(***************************************************************************)
EXTENDS WorkerClient, SequenceTheorems, FiniteSetTheorems, TLAPS

USE DEF past

(***************************************************************************)
(* StopLeavesNoWorker is not inductive: process_ is cleared several steps  *)
(* after the worker was seen to exit or was killed.  In between stop() is  *)
(* at one of these places.                                                 *)
(***************************************************************************)
Ended == {"stop.join", "stop.joining", "stop.clear", "stop.release"}

EndedInv == owner \in Ended => child # "running"

NoWorkerInv == StopLeavesNoWorker /\ EndedInv

LEMMA NoWorkerStep == NoWorkerInv /\ [Next]_vars => NoWorkerInv'
<1> SUFFICES ASSUME NoWorkerInv, [Next]_vars
             PROVE  NoWorkerInv'
  OBVIOUS
<1> USE DEF NoWorkerInv, StopLeavesNoWorker, EndedInv, Ended
<1>1. CASE UNCHANGED vars
  BY <1>1 DEF vars, worker
<1>2. CASE Rests
  BY <1>2 DEF Rests, vars, worker
<1>3. CASE OwnerStarts
  BY <1>3 DEF OwnerStarts, StartReset, worker
<1>4. CASE OwnerGoesOn
  <2>1. CASE Launch
    BY <2>1 DEF Launch
  <2>2. CASE LaunchFails
    BY <2>2 DEF LaunchFails, worker
  <2>3. CASE StartDispatcher
    BY <2>3 DEF StartDispatcher, worker
  <2>4. CASE OwnerSends("hello", "hello") \/ OwnerSends("stop.ask", "shutdown")
    BY <2>4 DEF OwnerSends, Send, SendRefused, Returns, worker
  <2>5. CASE StopCloseStdin \/ StopExited \/ StopFlag \/ StopJoined
    BY <2>5 DEF StopCloseStdin, StopExited, StopFlag, StopJoined, worker
  <2>6. CASE StopKill
    BY <2>6 DEF StopKill
  <2>7. CASE StopClear
    BY <2>7 DEF StopClear, worker
  <2>8. CASE StopRelease
    BY <2>8 DEF StopRelease
  <2>9. CASE StopBegin
    BY <2>9 DEF StopBegin, worker
  <2> QED
    BY <1>4, <2>1, <2>2, <2>3, <2>4, <2>5, <2>6, <2>7, <2>8, <2>9 DEF OwnerGoesOn
<1>5. CASE OwnerStops
  BY <1>5 DEF OwnerStops, StopBegin, worker
<1>6. ASSUME NEW t \in Callers, CallerSends(t)
      PROVE  NoWorkerInv'
  BY <1>6 DEF CallerSends, Send, worker
<1>7. ASSUME NEW t \in Threads, Requesting(t)
      PROVE  NoWorkerInv'
  <2>1. UNCHANGED <<child, process>>
    BY <1>7 DEF Requesting, SendTooLarge, WriteBlocks, Write, WriteFails, TakeResponse,
                GiveUp, TimesOut, worker
  <2>2. owner' = owner \/ owner' \notin Ended
    BY <1>7 DEF Requesting, SendTooLarge, WriteBlocks, Write, Written, WriteFails,
                TakeResponse, GiveUp, TimesOut, Returns
  <2> QED
    BY <2>1, <2>2
<1>8. CASE Dispatches
  <2>1. CASE HandlerSends
    BY <2>1 DEF HandlerSends, Send, SendRefused, Returns, worker, Owner, Dispatcher
  <2>2. CASE ~HandlerSends
    BY <1>8, <2>2 DEF Dispatches, DispatchTerminal, DispatchEvent, HandlerReturns,
                      HandlerThrows, HandlerStops, DispatcherEnds, worker
  <2> QED
    BY <2>1, <2>2
<1>9. CASE Reads
  BY <1>9 DEF Reads, OnStdout
<1>10. CASE Works
  BY <1>10 DEF Works, WorkerReads, WorkerWrites, WorkerLive, WorkerFatal, WorkerBabbles,
               WorkerExits, ClientSide
<1> QED
  BY <1>1, <1>2, <1>3, <1>4, <1>5, <1>6, <1>7, <1>8, <1>9, <1>10 DEF Next

(***************************************************************************)
(* Whatever the worker does and wherever stop() is interrupted by others,  *)
(* no worker runs once process_ is cleared (lines 336-357).                *)
(***************************************************************************)
THEOREM NoWorkerLeft == Spec => []StopLeavesNoWorker
<1>1. Init => NoWorkerInv
  BY DEF Init, NoWorkerInv, StopLeavesNoWorker, EndedInv, Ended
<1>2. NoWorkerInv => StopLeavesNoWorker
  BY DEF NoWorkerInv
<1> QED
  BY <1>1, <1>2, NoWorkerStep, PTL DEF Spec
-----------------------------------------------------------------------------
(***************************************************************************)
(* Type correctness.                                                       *)
(***************************************************************************)
\* Cardinality is bounded for finite sets only.
TypeInv == TypeOK /\ IsFiniteSet(responses)

LEMMA Limits ==
    MaxSessions \in Nat /\ MaxLive \in Nat /\ MaxQueued \in Nat /\ MaxKept \in Nat
  BY ClientAssumption

LEMMA NothingHeld ==
    /\ <<>> \in Seq(RecordType) /\ <<>> \in Seq(RequestType) /\ Len(<<>>) = 0
    /\ {} \subseteq RecordType /\ IsFiniteSet({}) /\ Cardinality({}) = 0
  BY EmptySeq, FS_EmptySet

\* The queues after reset_state_locked.
LEMMA ResetType ==
    ASSUME Reset
    PROVE  /\ buffer' \in Seq(RecordType)
           /\ records' \in Seq(RecordType) /\ Len(records') <= MaxQueued
           /\ responses' \subseteq RecordType
           /\ IsFiniteSet(responses') /\ Cardinality(responses') <= MaxKept
           /\ handlers' \subseteq Nat /\ nextId' \in Nat \ {0} /\ expired' \subseteq Nat
           /\ {dispatcherStop, stopping, failed}' \subseteq BOOLEAN
  <1>1. buffer' = <<>> /\ records' = <<>> /\ responses' = {}
    BY DEF Reset
  <1>2. Len(records') <= MaxQueued
    BY <1>1, Limits, NothingHeld
  <1>3. IsFiniteSet(responses') /\ Cardinality(responses') = 0
    BY <1>1, NothingHeld
  <1>4. handlers' \subseteq Nat /\ nextId' \in Nat \ {0} /\ expired' \subseteq Nat
    BY DEF Reset
  <1>5. {dispatcherStop, stopping, failed}' \subseteq BOOLEAN
    <2>1. dispatcherStop' \in BOOLEAN /\ stopping' \in BOOLEAN /\ failed' \in BOOLEAN
      BY Zenon DEF Reset
    <2> QED
      BY <2>1
  <1> QED
    BY <1>1, <1>2, <1>3, <1>4, <1>5, Limits, NothingHeld

\* What a request does to its thread.
LEMMA ReturnsType ==
    ASSUME TypeOK, NEW t \in Threads, NEW ok \in BOOLEAN, Returns(t, ok)
    PROVE  /\ call' \in [Threads -> CallType]
           /\ owner' \in {"idle", "launch", "launched", "hello", "stop.begin", "stop.ask",
                          "stop.close", "stop.poll", "stop.join", "stop.joining", "stop.clear",
                          "stop.release"}
           /\ disp' \in {"none", "run", "call", "stop", "ended"}
  BY DEF TypeOK, Returns, Nobody, CallType

LEMMA CallAt ==
    ASSUME TypeOK, NEW t \in Threads, NEW at \in {"write", "wait"},
           call[t].at # "none", call' = [call EXCEPT ![t].at = at]
    PROVE  call' \in [Threads -> CallType]
  <1>1. call[t] \in CallType
    BY DEF TypeOK
  <1>2. [call[t] EXCEPT !.at = at] \in CallType
    BY <1>1 DEF CallType, Nobody
  <1> QED
    BY <1>2 DEF TypeOK

LEMMA SendType ==
    ASSUME TypeInv, NEW t \in Threads, NEW op \in Operations, Send(t, op)
    PROVE  TypeInv'
  <1>1. [at |-> "send", op |-> op, id |-> nextId, session |-> session] \in CallType
    BY DEF TypeInv, TypeOK, CallType
  <1> QED
    BY <1>1 DEF TypeInv, TypeOK, Send, worker, flags

LEMMA RequestingType ==
    ASSUME TypeInv, NEW t \in Threads, Requesting(t)
    PROVE  TypeInv'
  <1> USE DEF TypeInv, worker, queues, flags
  <1>1. CASE SendTooLarge(t)
    BY <1>1, ReturnsType DEF SendTooLarge, TypeOK
  <1>2. CASE WriteBlocks(t)
    BY <1>2, CallAt DEF WriteBlocks, TypeOK
  <1>3. CASE Write(t)
    <2>1. Request(t) \in RequestType
      BY <1>3 DEF Write, AtWrite, Request, TypeOK, CallType, Nobody, RequestType
    <2>2. stdin' \in Seq(RequestType)
      BY <1>3, <2>1, AppendProperties DEF Write, TypeOK
    <2>3. /\ call' \in [Threads -> CallType]
          /\ owner' \in {"idle", "launch", "launched", "hello", "stop.begin", "stop.ask",
                         "stop.close", "stop.poll", "stop.join", "stop.joining", "stop.clear",
                         "stop.release"}
          /\ disp' \in {"none", "run", "call", "stop", "ended"}
      BY <1>3, ReturnsType, CallAt DEF Write, AtWrite, Written, TypeOK
    <2> QED
      BY <1>3, <2>2, <2>3 DEF Write, TypeOK
  <1>4. CASE WriteFails(t)
    BY <1>4, ReturnsType DEF WriteFails, Fail, TypeOK
  <1>5. CASE TakeResponse(t)
    <2>1. PICK r \in Answers(t) : responses' = responses \ {r} /\ Returns(t, r.type = "response")
      BY <1>5 DEF TakeResponse
    <2>2. IsFiniteSet(responses') /\ Cardinality(responses') <= MaxKept
      <3>1. responses' \in SUBSET responses
        BY <2>1
      <3>2. IsFiniteSet(responses') /\ Cardinality(responses') <= Cardinality(responses)
        BY <3>1, FS_Subset
      <3>3. Cardinality(responses) \in Nat /\ Cardinality(responses') \in Nat
        BY <3>2, FS_CardinalityType
      <3> QED
        BY <3>2, <3>3, ClientAssumption DEF TypeOK
    <2>3. responses' \subseteq RecordType
      BY <2>1 DEF TypeOK
    <2> QED
      BY <1>5, <2>1, <2>2, <2>3, ReturnsType DEF TakeResponse, TypeOK
  <1>6. CASE GiveUp(t)
    BY <1>6, ReturnsType DEF GiveUp, TypeOK
  <1>7. CASE TimesOut(t)
    <2>1. call[t] # Nobody /\ call[t] \in CallType
      BY <1>7 DEF TimesOut, TypeOK, Nobody
    <2>2. expired' \subseteq Nat
      BY <1>7, <2>1 DEF TimesOut, TypeOK, CallType
    <2> QED
      BY <1>7, <2>2, ReturnsType DEF TimesOut, TypeOK
  <1> QED
    BY <1>1, <1>2, <1>3, <1>4, <1>5, <1>6, <1>7 DEF Requesting

LEMMA OwnerType ==
    ASSUME TypeInv, OwnerStarts \/ OwnerGoesOn \/ OwnerStops
    PROVE  TypeInv'
  <1> USE Limits, NothingHeld DEF TypeInv, worker, queues, flags
  <1>1. CASE StartReset
    <2>1. session' \in 0..MaxSessions
      BY <1>1 DEF StartReset, TypeOK
    <2> QED
      BY <1>1, <2>1, ResetType DEF StartReset, TypeOK
  <1>2. CASE Launch \/ LaunchFails \/ StartDispatcher
    <2>1. CASE Launch
      BY <2>1 DEF Launch, TypeOK
    <2>2. CASE LaunchFails
      BY <2>2 DEF LaunchFails, Fail, TypeOK
    <2>3. CASE StartDispatcher
      BY <2>3 DEF StartDispatcher, TypeOK
    <2> QED
      BY <1>2, <2>1, <2>2, <2>3
  <1>3. ASSUME NEW at, NEW op \in Operations, OwnerSends(at, op)
        PROVE  TypeInv'
    <2>1. CASE Send(Owner, op)
      BY <2>1, SendType DEF Threads
    <2>2. CASE SendRefused(Owner)
      BY <2>2, ReturnsType DEF SendRefused, Threads, TypeOK
    <2> QED
      BY <1>3, <2>1, <2>2 DEF OwnerSends
  <1>4. CASE StopBegin \/ StopCloseStdin \/ StopExited
    BY <1>4 DEF StopBegin, StopCloseStdin, StopExited, TypeOK
  <1>5. CASE StopKill \/ StopFlag \/ StopJoined
    BY <1>5 DEF StopKill, StopFlag, StopJoined, TypeOK
  <1>6. CASE StopClear
    BY <1>6, ResetType DEF StopClear, TypeOK
  <1>7. CASE StopRelease
    BY <1>7 DEF StopRelease, TypeOK
  <1> QED
    BY <1>1, <1>2, <1>3, <1>4, <1>5, <1>6, <1>7
       DEF OwnerStarts, OwnerGoesOn, OwnerStops, Operations

LEMMA RecordsFront ==
    ASSUME TypeOK, Takes
    PROVE  /\ Front \in RecordType
           /\ Tail(records) \in Seq(RecordType)
           /\ Len(Tail(records)) <= MaxQueued
  <1>1. records \in Seq(RecordType) /\ records # <<>> /\ Len(records) <= MaxQueued
    BY DEF TypeOK, Takes
  <1>2. /\ Head(records) \in RecordType
        /\ Tail(records) \in Seq(RecordType)
        /\ Len(Tail(records)) = Len(records) - 1
    BY <1>1, HeadTailProperties
  <1>3. Len(records) \in Nat
    BY <1>1, LenProperties
  <1> QED
    BY <1>1, <1>2, <1>3, Limits DEF Front

LEMMA DispatcherType ==
    ASSUME TypeInv, Dispatches
    PROVE  TypeInv'
  <1> USE DEF TypeInv, worker, queues, flags
  <1>1. NoRecord \in RecordType
    BY DEF NoRecord, RecordType, Threads
  <1>2. CASE DispatchTerminal
    <2> DEFINE Full == Cardinality(responses) >= MaxKept
                         \/ \E r \in responses : r.id = Front.id
    <2>1. /\ Takes /\ records' = Tail(records)
          /\ UNCHANGED <<worker, mutex, process, session, nextId, buffer, handlers, call, past,
                         owner, disp, hand>>
      BY <1>2 DEF DispatchTerminal
    <2>2. IF Full THEN Fail /\ UNCHANGED responses
                  ELSE responses' = responses \cup {Front} /\ UNCHANGED flags
      BY <1>2, Zenon DEF DispatchTerminal
    <2> HIDE DEF Full
    <2>3. CASE Full
      <3>1. failed' = TRUE /\ UNCHANGED <<dispatcherStop, stopping, responses>>
        BY <2>3, <2>2 DEF Fail
      <3> QED
        BY <2>1, <3>1, RecordsFront DEF TypeOK
    <2>4. CASE ~Full
      <3>1. responses' = responses \cup {Front} /\ UNCHANGED flags
        BY <2>4, <2>2
      <3>2. Cardinality(responses) < MaxKept
        BY <2>4, FS_CardinalityType, Limits DEF Full
      <3>3. IsFiniteSet(responses') /\ Cardinality(responses') <= MaxKept
        <4>1. /\ IsFiniteSet(responses \cup {Front})
              /\ Cardinality(responses \cup {Front}) =
                   IF Front \in responses THEN Cardinality(responses)
                                         ELSE Cardinality(responses) + 1
          BY FS_AddElement
        <4>2. Cardinality(responses) \in Nat
          BY FS_CardinalityType
        <4>3. Cardinality(responses \cup {Front}) <= MaxKept
          BY <3>2, <4>1, <4>2, Limits
        <4> QED
          BY <3>1, <4>1, <4>3
      <3> QED
        BY <2>1, <3>1, <3>3, RecordsFront DEF TypeOK
    <2> QED
      BY <2>3, <2>4
  <1>3. CASE DispatchEvent
    BY <1>3, RecordsFront DEF DispatchEvent, TypeOK
  <1>4. CASE HandlerReturns
    BY <1>1, <1>4 DEF HandlerReturns, TypeOK
  <1>5. CASE HandlerThrows \/ HandlerStops
    BY <1>1, <1>5 DEF HandlerThrows, HandlerStops, Fail, TypeOK
  <1>6. CASE HandlerSends
    <2>1. Dispatcher \in Threads /\ "shutdown" \in Operations
      BY DEF Threads, Operations
    <2>2. CASE Send(Dispatcher, "shutdown")
      BY <2>1, <2>2, SendType
    <2>3. CASE SendRefused(Dispatcher)
      BY <2>1, <2>3, ReturnsType DEF SendRefused, TypeOK
    <2> QED
      BY <1>6, <2>2, <2>3 DEF HandlerSends
  <1>7. CASE DispatcherEnds
    BY <1>7 DEF DispatcherEnds, TypeOK
  <1> QED
    BY <1>2, <1>3, <1>4, <1>5, <1>6, <1>7 DEF Dispatches

\* The reader cuts the pipe's records into those kept, the one lost, the rest.
LEMMA ReaderCuts ==
    ASSUME NEW S, NEW kept \in Seq(S), NEW held \in Seq(S), NEW pipe \in Seq(S),
           NEW count \in 1..Len(pipe),
           NEW all, all = held \o SubSeq(pipe, 1, count),
           NEW lost \in 1..(Len(all) + 1)
    PROVE  /\ Len(all) \in Nat
           /\ kept \o SubSeq(all, 1, lost - 1) \in Seq(S)
           /\ Len(kept \o SubSeq(all, 1, lost - 1)) = Len(kept) + (lost - 1)
           /\ SubSeq(all, lost + 1, Len(all)) \in Seq(S)
           /\ SubSeq(pipe, count + 1, Len(pipe)) \in Seq(S)
  <1>1. Len(pipe) \in Nat /\ \A i \in 1..Len(pipe) : pipe[i] \in S
    BY LenProperties, ElementOfSeq
  <1>2. SubSeq(pipe, 1, count) \in Seq(S) /\ SubSeq(pipe, count + 1, Len(pipe)) \in Seq(S)
    BY <1>1, SubSeqProperties
  <1>3. all \in Seq(S)
    BY <1>2, ConcatProperties
  <1>4. Len(all) \in Nat /\ \A i \in 1..Len(all) : all[i] \in S
    BY <1>3, LenProperties, ElementOfSeq
  <1>5. /\ SubSeq(all, 1, lost - 1) \in Seq(S)
        /\ Len(SubSeq(all, 1, lost - 1)) = lost - 1
        /\ SubSeq(all, lost + 1, Len(all)) \in Seq(S)
    BY <1>4, SubSeqProperties
  <1>6. /\ kept \o SubSeq(all, 1, lost - 1) \in Seq(S)
        /\ Len(kept \o SubSeq(all, 1, lost - 1)) = Len(kept) + (lost - 1)
    BY <1>5, ConcatProperties
  <1> QED
    BY <1>2, <1>4, <1>5, <1>6

LEMMA ReaderType ==
    ASSUME TypeInv, Reads
    PROVE  TypeInv'
  <1>1. PICK count \in 1..StdoutRoom : OnStdout(count)
    BY DEF Reads
  <1>2. PICK all : all = buffer \o SubSeq(stdout, 1, count)
    OBVIOUS
  <1>3. PICK lost \in 1..(Len(all) + 1) :
           /\ \A k \in 1..(lost - 1) : Fits(k) /\ all[k].type # "garbage"
           /\ records' = records \o SubSeq(all, 1, lost - 1)
           /\ buffer' = SubSeq(all, lost + 1, Len(all))
           /\ failed' = (failed \/ lost <= Len(all))
    BY <1>1, <1>2 DEF OnStdout, LossFails
  <1>4. /\ records \in Seq(RecordType) /\ buffer \in Seq(RecordType)
        /\ stdout \in Seq(RecordType) /\ count \in 1..Len(stdout)
        /\ stdout' = SubSeq(stdout, count + 1, Len(stdout))
    BY <1>1 DEF TypeInv, TypeOK, OnStdout
  <1>5. /\ Len(all) \in Nat
        /\ records' \in Seq(RecordType) /\ Len(records') = Len(records) + (lost - 1)
        /\ buffer' \in Seq(RecordType)
        /\ stdout' \in Seq(RecordType)
    <2>1. /\ Len(all) \in Nat
          /\ records \o SubSeq(all, 1, lost - 1) \in Seq(RecordType)
          /\ Len(records \o SubSeq(all, 1, lost - 1)) = Len(records) + (lost - 1)
          /\ SubSeq(all, lost + 1, Len(all)) \in Seq(RecordType)
          /\ SubSeq(stdout, count + 1, Len(stdout)) \in Seq(RecordType)
      BY <1>2, <1>4, ReaderCuts
    <2> QED
      BY <1>3, <1>4, <2>1
  <1>6. Len(records') <= MaxQueued
    <2>1. Len(records) \in Nat /\ Len(records) <= MaxQueued
      BY LenProperties DEF TypeInv, TypeOK
    <2>2. ASSUME lost # 1
          PROVE  Len(records) + (lost - 1) <= MaxQueued
      <3>1. lost - 1 \in 1..(lost - 1)
        BY <1>5, <2>2
      <3> QED
        BY <1>3, <3>1 DEF Fits
    <2> QED
      BY <1>5, <2>1, <2>2, Limits
  <1>7. failed' \in BOOLEAN
    BY <1>3
  <1>8. UNCHANGED <<child, stdin, stdinOpen, outbox, lived, mutex, process, session, nextId,
                    responses, handlers, dispatcherStop, stopping, call, past, owner, disp, hand>>
    BY <1>1 DEF OnStdout
  <1> QED
    BY <1>5, <1>6, <1>7, <1>8, SMTT(30) DEF TypeInv, TypeOK

\* The records that answer a request q, its events and its terminal record.
LEMMA AnswerIn ==
    ASSUME NEW S, Exit \in S, NEW q, NEW events \in Nat, NEW type,
           \A e \in {"event", type}, n \in 0..events :
             [type |-> e, id |-> q.id, session |-> q.session, by |-> q.by, n |-> n] \in S
    PROVE  AnswerTo(q, events, type) \in Seq(S)
  <1> DEFINE heard == [k \in 1..events |-> [type |-> "event", id |-> q.id,
                                            session |-> q.session, by |-> q.by, n |-> k]]
             last == <<[type |-> type, id |-> q.id, session |-> q.session, by |-> q.by,
                        n |-> events]>>
             exit == IF q.op = "shutdown" THEN <<Exit>> ELSE <<>>
  <1>1. heard \in Seq(S)
    <2>1. heard \in [1..events -> S]
      OBVIOUS
    <2> QED
      BY <2>1, SeqDef
  <1>2. last \in Seq(S)
    OBVIOUS
  <1>3. exit \in Seq(S)
    OBVIOUS
  <1> HIDE DEF heard, last, exit
  <1>4. heard \o last \in Seq(S)
    BY <1>1, <1>2, ConcatProperties
  <1>5. heard \o last \o exit \in Seq(S)
    BY <1>3, <1>4, ConcatProperties
  <1>6. AnswerTo(q, events, type) = heard \o last \o exit
    BY DEF AnswerTo, heard, last, exit
  <1> QED
    BY <1>5, <1>6

LEMMA WorkerType ==
    ASSUME TypeInv, Works
    PROVE  TypeInv'
  <1> USE DEF TypeInv, ClientSide, queues, flags
  <1>1. CASE WorkerReads
    <2>1. stdin \in Seq(RequestType) /\ stdin # <<>>
      BY <1>1 DEF WorkerReads, TypeOK
    <2>2. Head(stdin) \in RequestType /\ stdin' \in Seq(RequestType)
      BY <1>1, <2>1, HeadTailProperties DEF WorkerReads
    <2> DEFINE Events == IF Head(stdin).op = "messages.export" THEN 0..MaxEvents ELSE {0}
               Types == IF Head(stdin).op \in {"hello", "messages.export"}
                        THEN {"response", "error"} ELSE {"response"}
    <2>3. PICK events \in Events, type \in Types : outbox' = AnswerTo(Head(stdin), events, type)
      BY <1>1, Zenon DEF WorkerReads
    <2>4. events \in Nat /\ type \in {"response", "error"}
      BY ClientAssumption
    <2> HIDE DEF Events, Types
    <2>5. Exit \in RecordType
      BY DEF Exit, NoRecord, RecordType, Threads
    <2>6. \A e \in {"event", type}, n \in 0..events :
            [type |-> e, id |-> Head(stdin).id, session |-> Head(stdin).session,
             by |-> Head(stdin).by, n |-> n] \in RecordType
      BY <2>2, <2>4 DEF RequestType, RecordType
    <2>7. outbox' \in Seq(RecordType)
      BY <2>3, <2>4, <2>5, <2>6, AnswerIn
    <2> QED
      BY <1>1, <2>2, <2>7 DEF WorkerReads, TypeOK
  <1>2. CASE WorkerWrites
    <2>1. outbox \in Seq(RecordType) /\ outbox # <<>> /\ stdout \in Seq(RecordType)
      BY <1>2 DEF WorkerWrites, TypeOK
    <2>2. Head(outbox) \in RecordType /\ outbox' \in Seq(RecordType)
      BY <1>2, <2>1, HeadTailProperties DEF WorkerWrites
    <2>3. stdout' \in Seq(RecordType)
      BY <1>2, <2>1, <2>2, AppendProperties DEF WorkerWrites
    <2> QED
      BY <1>2, <2>2, <2>3 DEF WorkerWrites, TypeOK
  <1>3. \A type \in {"live", "garbage", "fatal"} : Record(type, 0, Owner, 0) \in RecordType
    BY DEF TypeOK, Record, RecordType, Threads
  <1>4. CASE WorkerLive \/ WorkerBabbles
    <2>1. stdout' \in Seq(RecordType)
      <3>1. stdout \in Seq(RecordType)
        BY DEF TypeOK
      <3>2. PICK type \in {"live", "garbage"} : stdout' = Append(stdout, Record(type, 0, Owner, 0))
        BY <1>4 DEF WorkerLive, WorkerBabbles
      <3>3. Record(type, 0, Owner, 0) \in RecordType
        BY <1>3
      <3> QED
        BY <3>1, <3>2, <3>3, AppendProperties
    <2>2. lived' \in 0..MaxLive
      BY <1>4, Limits DEF WorkerLive, WorkerBabbles, TypeOK
    <2> QED
      BY <1>4, <2>1, <2>2 DEF WorkerLive, WorkerBabbles, TypeOK
  <1>5. CASE WorkerFatal
    <2>1. Exit \in RecordType
      BY DEF Exit, NoRecord, RecordType, Threads
    <2>2. outbox' \in Seq(RecordType)
      BY <1>3, <1>5, <2>1 DEF WorkerFatal
    <2>3. lived' \in 0..MaxLive
      BY <1>5, Limits DEF WorkerFatal, TypeOK
    <2> QED
      BY <1>5, <2>2, <2>3 DEF WorkerFatal, TypeOK
  <1>6. CASE WorkerExits
    BY <1>6, NothingHeld DEF WorkerExits, TypeOK
  <1> QED
    BY <1>1, <1>2, <1>4, <1>5, <1>6 DEF Works

LEMMA TypeStep == TypeInv /\ [Next]_vars => TypeInv'
  <1> SUFFICES ASSUME TypeInv, [Next]_vars
               PROVE  TypeInv'
    OBVIOUS
  <1>1. CASE Rests \/ UNCHANGED vars
    <2>1. UNCHANGED vars
      BY <1>1 DEF Rests
    <2>2. TypeOK'
      BY <2>1, SMTT(60) DEF vars, worker, queues, flags, TypeInv, TypeOK
    <2>3. IsFiniteSet(responses')
      BY <2>1 DEF vars, queues, TypeInv
    <2> QED
      BY <2>2, <2>3 DEF TypeInv
  <1>2. ASSUME NEW t \in Callers, CallerSends(t)
        PROVE  TypeInv'
    BY <1>2, SendType, ClientAssumption DEF CallerSends, Threads, Operations
  <1> QED
    BY <1>1, <1>2, OwnerType, RequestingType, DispatcherType, ReaderType, WorkerType DEF Next

LEMMA InitTypes == Init => TypeInv
  <1> SUFFICES ASSUME Init PROVE TypeInv
    OBVIOUS
  <1>1. /\ call \in [Threads -> CallType]
        /\ seen \in [Threads -> Nat]
        /\ hand \in RecordType
    BY DEF Init, CallType, NoRecord, RecordType, Threads
  <1>2. /\ stdin \in Seq(RequestType)
        /\ outbox \in Seq(RecordType) /\ stdout \in Seq(RecordType)
        /\ buffer \in Seq(RecordType) /\ records \in Seq(RecordType)
    BY NothingHeld DEF Init
  <1>3. Len(records) <= MaxQueued
    BY NothingHeld, Limits DEF Init
  <1>4. /\ responses \subseteq RecordType /\ IsFiniteSet(responses)
        /\ Cardinality(responses) <= MaxKept
    BY NothingHeld, Limits DEF Init
  <1>5. lived \in 0..MaxLive /\ session \in 0..MaxSessions
    BY Limits DEF Init
  <1>6. /\ child \in {"none", "running", "exited"} /\ stdinOpen \in BOOLEAN
        /\ mutex \in Threads \cup {"free"} /\ process \in BOOLEAN
        /\ owner = "idle" /\ disp = "none"
    BY Zenon DEF Init
  <1>7. nextId \in Nat \ {0}
    BY DEF Init
  <1>8. /\ handlers \subseteq Nat /\ expired \subseteq Nat
        /\ {dispatcherStop, stopping, failed} \subseteq BOOLEAN
    BY Zenon DEF Init
  <1> QED
    BY <1>1, <1>2, <1>3, <1>4, <1>5, <1>6, <1>7, <1>8 DEF TypeInv, TypeOK

(***************************************************************************)
(* Every variable keeps its type: in particular the queue of records and   *)
(* the table of responses stay within their limits (lines 525-526 and      *)
(* 571-572) whatever the worker writes.                                    *)
(***************************************************************************)
THEOREM TypeCorrect == Spec => []TypeOK
<1>1. Init => TypeInv
  BY InitTypes
<1>2. TypeInv => TypeOK
  BY DEF TypeInv
<1> QED
  BY <1>1, <1>2, TypeStep, PTL DEF Spec
-----------------------------------------------------------------------------
(***************************************************************************)
(* Correlation within one session.  What is under way for a request names  *)
(* the thread that sent it, and no two active requests have the same id,   *)
(* because ids grow as long as process_ is set.  Before the only session   *)
(* is launched nothing is under way.                                       *)
(***************************************************************************)
Active(t) == call[t].at # "none"

Ours(x) == x.id # 0 =>
    /\ x.session = session
    /\ process => x.id < nextId
    /\ \A t \in Threads : Active(t) /\ call[t].id = x.id => x.by = t

OurRequests == {q \in RequestType : Ours(q)}
OurRecords  == {r \in RecordType : Ours(r)}

QueuesInv ==
    /\ stdin \in Seq(OurRequests)
    /\ outbox \in Seq(OurRecords) /\ stdout \in Seq(OurRecords)
    /\ buffer \in Seq(OurRecords) /\ records \in Seq(OurRecords)
    /\ responses \subseteq OurRecords

CallsInv ==
    /\ \A t \in Threads : Active(t) =>
         /\ call[t].id # 0 /\ call[t].session = session
         /\ process => call[t].id < nextId
    /\ \A t, u \in Threads :
         Active(t) /\ Active(u) /\ call[t].id = call[u].id => t = u

Unlaunched == session = 0 \/ owner = "launch"

QuietInv ==
    /\ session = 0 => owner = "idle"
    /\ Unlaunched =>
         /\ ~process /\ child # "running" /\ disp = "none"
         /\ stdin = <<>> /\ outbox = <<>> /\ stdout = <<>>
         /\ buffer = <<>> /\ records = <<>> /\ responses = {}
         /\ \A t \in Threads : ~Active(t)

CorrInv == TypeInv /\ QueuesInv /\ CallsInv /\ QuietInv

\* A thread that becomes active takes a new id, so what was ours still is.
LEMMA OursKept ==
    ASSUME TypeInv, TypeInv', session' = session,
           process' => process /\ nextId <= nextId',
           \A t \in Threads : Active(t)' =>
             (Active(t) /\ call'[t].id = call[t].id) \/ (process /\ call'[t].id = nextId)
    PROVE  OurRequests \subseteq OurRequests' /\ OurRecords \subseteq OurRecords'
  <1>1. nextId \in Nat /\ nextId' \in Nat
    BY DEF TypeInv, TypeOK
  <1>2. ASSUME NEW x, x.id \in Nat, Ours(x)
        PROVE  Ours(x)'
    <2> SUFFICES ASSUME x.id # 0
                 PROVE  /\ x.session = session'
                        /\ process' => x.id < nextId'
                        /\ \A t \in Threads : Active(t)' /\ call'[t].id = x.id => x.by = t
      BY DEF Ours
    <2>1. /\ x.session = session
          /\ process => x.id < nextId
          /\ \A t \in Threads : Active(t) /\ call[t].id = x.id => x.by = t
      BY <1>2 DEF Ours
    <2>2. process' => x.id < nextId'
      BY <1>1, <1>2, <2>1
    <2>3. ASSUME NEW t \in Threads, Active(t)', call'[t].id = x.id
          PROVE  x.by = t
      <3>1. ~(process /\ call'[t].id = nextId)
        BY <1>1, <1>2, <2>1, <2>3
      <3> QED
        BY <2>1, <2>3, <3>1
    <2> QED
      BY <2>1, <2>2, <2>3
  <1>3. OurRequests \subseteq OurRequests'
    <2> SUFFICES ASSUME NEW x \in OurRequests
                 PROVE  x \in OurRequests'
      OBVIOUS
    <2>1. x \in RequestType /\ Ours(x) /\ x.id \in Nat
      BY DEF OurRequests, RequestType
    <2>2. Ours(x)'
      BY <1>2, <2>1
    <2> QED
      BY <2>1, <2>2 DEF OurRequests
  <1>4. OurRecords \subseteq OurRecords'
    <2> SUFFICES ASSUME NEW x \in OurRecords
                 PROVE  x \in OurRecords'
      OBVIOUS
    <2>1. x \in RecordType /\ Ours(x) /\ x.id \in Nat
      BY DEF OurRecords, RecordType
    <2>2. Ours(x)'
      BY <1>2, <2>1
    <2> QED
      BY <2>1, <2>2 DEF OurRecords
  <1> QED
    BY <1>3, <1>4

\* Once the session is launched, a step that starts no request keeps CorrInv
\* when all it moves is already ours.
LEMMA MovesOurs ==
    ASSUME CorrInv, TypeInv', ~Unlaunched, owner' # "launch",
           session' = session, process' => process /\ nextId' = nextId,
           \A t \in Threads : Active(t)' =>
             Active(t) /\ call'[t].id = call[t].id /\ call'[t].session = call[t].session,
           stdin' \in Seq(OurRequests),
           outbox' \in Seq(OurRecords), stdout' \in Seq(OurRecords),
           buffer' \in Seq(OurRecords), records' \in Seq(OurRecords),
           responses' \subseteq OurRecords
    PROVE  CorrInv'
  <1>1. OurRequests \subseteq OurRequests' /\ OurRecords \subseteq OurRecords'
    <2>1. process' => process /\ nextId <= nextId'
      BY DEF CorrInv, TypeInv, TypeOK
    <2> QED
      BY <2>1, OursKept DEF CorrInv
  <1>2. QueuesInv'
    BY <1>1, SeqMonotonic DEF QueuesInv
  <1>3. CallsInv'
    BY DEF CorrInv, CallsInv
  <1>4. QuietInv'
    BY DEF QuietInv, Unlaunched
  <1> QED
    BY <1>2, <1>3, <1>4 DEF CorrInv

LEMMA SendOurs ==
    ASSUME CorrInv, NEW t \in Threads, NEW op \in Operations, Send(t, op)
    PROVE  CorrInv'
  <1>1. TypeInv' /\ ~Unlaunched
    BY SendType DEF CorrInv, QuietInv, Send
  <1>2. /\ process /\ process' /\ nextId' = nextId + 1 /\ nextId \in Nat \ {0}
        /\ session' = session /\ owner' = owner /\ call \in [Threads -> CallType]
        /\ call' = [call EXCEPT ![t] = [at |-> "send", op |-> op, id |-> nextId,
                                        session |-> session]]
        /\ UNCHANGED <<stdin, outbox, stdout, buffer, records, responses>>
    BY DEF CorrInv, TypeInv, TypeOK, Send, worker
  <1>3. /\ call'[t].at = "send" /\ call'[t].id = nextId /\ call'[t].session = session
        /\ \A u \in Threads : u # t => call'[u] = call[u]
    BY <1>2
  <1>4. OurRequests \subseteq OurRequests' /\ OurRecords \subseteq OurRecords'
    BY <1>1, <1>2, <1>3, OursKept DEF CorrInv, Active
  <1>5. QueuesInv'
    BY <1>2, <1>4, SeqMonotonic DEF CorrInv, QueuesInv
  <1>6. \A u \in Threads : u # t /\ Active(u)' => Active(u) /\ call'[u].id # nextId
    <2> SUFFICES ASSUME NEW u \in Threads, u # t, Active(u)'
                 PROVE  Active(u) /\ call'[u].id # nextId
      OBVIOUS
    <2>1. Active(u) /\ call'[u] = call[u]
      BY <1>3 DEF Active
    <2>2. call[u].id < nextId /\ call[u].id \in Nat
      BY <1>2, <2>1 DEF CorrInv, CallsInv, CallType, Nobody
    <2> QED
      BY <1>2, <2>1, <2>2
  <1>7. CallsInv'
    <2>1. ASSUME NEW u \in Threads, Active(u)'
          PROVE  call'[u].id # 0 /\ call'[u].session = session' /\ call'[u].id < nextId'
      <3>1. CASE u = t
        BY <1>2, <1>3, <3>1
      <3>2. CASE u # t
        <4>1. Active(u) /\ call'[u] = call[u]
          BY <1>3, <2>1, <3>2 DEF Active
        <4>2. call[u].id # 0 /\ call[u].session = session /\ call[u].id < nextId
          BY <1>2, <4>1 DEF CorrInv, CallsInv
        <4>3. call[u].id \in Nat
          BY <1>2, <4>1 DEF Active, CallType, Nobody
        <4> QED
          BY <1>2, <4>1, <4>2, <4>3
      <3> QED
        BY <3>1, <3>2
    <2>2. ASSUME NEW u \in Threads, NEW v \in Threads, Active(u)', Active(v)',
                 call'[u].id = call'[v].id
          PROVE  u = v
      BY <1>3, <1>6, <2>2 DEF CorrInv, CallsInv
    <2> QED
      BY <2>1, <2>2 DEF CallsInv
  <1>8. QuietInv'
    BY <1>1, <1>2 DEF QuietInv, Unlaunched
  <1> QED
    BY <1>1, <1>5, <1>7, <1>8 DEF CorrInv

LEMMA EmptyOurs ==
    ASSUME TypeInv', QuietInv', \A t \in Threads : ~Active(t)',
           stdin' = <<>>, outbox' = <<>>, stdout' = <<>>, buffer' = <<>>, records' = <<>>,
           responses' = {}
    PROVE  CorrInv'
  <1>1. QueuesInv'
    BY EmptySeq DEF QueuesInv
  <1>2. CallsInv'
    BY DEF CallsInv
  <1> QED
    BY <1>1, <1>2 DEF CorrInv

\* A request that returns or goes on leaves the others as they are.
LEMMA CallsGoOn ==
    ASSUME TypeInv, NEW t \in Threads, Active(t),
           \/ \E ok \in BOOLEAN : Returns(t, ok)
           \/ \E at : call' = [call EXCEPT ![t].at = at]
    PROVE  \A u \in Threads : Active(u)' =>
             Active(u) /\ call'[u].id = call[u].id /\ call'[u].session = call[u].session
  <1> SUFFICES ASSUME NEW u \in Threads, Active(u)'
               PROVE  Active(u) /\ call'[u].id = call[u].id /\ call'[u].session = call[u].session
    OBVIOUS
  <1>1. call \in [Threads -> CallType]
    BY DEF TypeInv, TypeOK
  <1>2. CASE u # t
    BY <1>1, <1>2 DEF Active, Returns
  <1>3. CASE u = t
    <2>1. ASSUME NEW ok \in BOOLEAN, Returns(t, ok)
          PROVE  FALSE
      BY <1>1, <1>3, <2>1 DEF Active, Returns, Nobody
    <2>2. PICK at : call'[t] = [call[t] EXCEPT !.at = at]
      BY <1>1, <2>1
    <2> QED
      BY <1>1, <1>3, <2>2 DEF CallType, Nobody
  <1> QED
    BY <1>2, <1>3

LEMMA RequestingOurs ==
    ASSUME CorrInv, NEW t \in Threads, Requesting(t)
    PROVE  CorrInv'
  <1> USE DEF worker, queues, flags
  <1>1. TypeInv' /\ Active(t)
    BY RequestingType DEF CorrInv, Requesting, SendTooLarge, WriteBlocks, Write, AtWrite,
       WriteFails, TakeResponse, GiveUp, TimesOut, Active
  <1>2. ~Unlaunched
    BY <1>1 DEF CorrInv, QuietInv
  <1>3. \/ \E ok \in BOOLEAN : Returns(t, ok)
        \/ (\E at : call' = [call EXCEPT ![t].at = at]) /\ UNCHANGED owner
    BY DEF Requesting, SendTooLarge, WriteBlocks, Write, Written, WriteFails, TakeResponse,
       GiveUp, TimesOut
  <1>4. /\ \A u \in Threads : Active(u)' =>
             Active(u) /\ call'[u].id = call[u].id /\ call'[u].session = call[u].session
        /\ owner' # "launch"
    BY <1>1, <1>2, <1>3, CallsGoOn DEF CorrInv, Returns, Unlaunched
  <1>5. /\ UNCHANGED <<session, process, nextId, outbox, stdout, buffer, records>>
        /\ responses' \subseteq responses
    BY DEF Requesting, SendTooLarge, WriteBlocks, Write, WriteFails, TakeResponse, GiveUp,
       TimesOut
  <1>6. stdin' \in Seq(OurRequests)
    <2>1. CASE Write(t)
      <3>1. Request(t).id = call[t].id /\ Request(t).session = call[t].session
              /\ Request(t).by = t /\ Request(t) \in RequestType
        <4>1. call[t] \in CallType
          BY DEF CorrInv, TypeInv, TypeOK
        <4>2. call[t].op \in Operations /\ call[t].id \in Nat /\ call[t].session \in Nat
          BY <1>1, <4>1 DEF CallType, Nobody, Active
        <4> QED
          BY <4>2 DEF Request, RequestType
      <3>2. Request(t) \in OurRequests
        <4>1. /\ call[t].session = session
              /\ process => call[t].id < nextId
              /\ \A u \in Threads : Active(u) /\ call[u].id = call[t].id => t = u
          BY <1>1 DEF CorrInv, CallsInv
        <4>2. Ours(Request(t))
          BY <3>1, <4>1 DEF Ours
        <4> QED
          BY <3>1, <4>2 DEF OurRequests
      <3> QED
        BY <2>1, <3>2, AppendProperties DEF Write, CorrInv, QueuesInv
    <2>2. CASE ~Write(t)
      BY <2>2 DEF Requesting, SendTooLarge, WriteBlocks, WriteFails, TakeResponse, GiveUp,
         TimesOut, CorrInv, QueuesInv
    <2> QED
      BY <2>1, <2>2
  <1> QED
    BY <1>1, <1>2, <1>4, <1>5, <1>6, MovesOurs DEF CorrInv, QueuesInv

\* Steps that leave all that is under way where it is.
LEMMA UntouchedOurs ==
    ASSUME CorrInv, TypeInv', ~Unlaunched, owner' # "launch",
           UNCHANGED <<session, process, nextId, call, outbox, stdout, buffer, responses>>,
           stdin' \in {stdin, <<>>}, records' \in {records, Tail(records)}, records # <<>>
             \/ records' = records
    PROVE  CorrInv'
  <1>1. stdin' \in Seq(OurRequests)
    BY EmptySeq DEF CorrInv, QueuesInv
  <1>2. records' \in Seq(OurRecords)
    BY HeadTailProperties DEF CorrInv, QueuesInv
  <1> QED
    BY <1>1, <1>2, MovesOurs DEF CorrInv, QueuesInv, Active

LEMMA OwnerOurs ==
    ASSUME MaxSessions = 1, CorrInv, OwnerStarts \/ OwnerGoesOn \/ OwnerStops
    PROVE  CorrInv'
  <1> USE DEF worker, queues, flags
  <1>1. TypeInv'
    BY OwnerType DEF CorrInv
  <1>2. CASE StartReset
    <2>1. Unlaunched /\ session' # 0
      BY <1>2 DEF StartReset, Unlaunched, CorrInv, TypeInv, TypeOK
    <2> QED
      BY <1>1, <1>2, <2>1, EmptyOurs DEF StartReset, Reset, CorrInv, QuietInv, Active
  <1>3. CASE Launch \/ LaunchFails
    <2>1. Unlaunched /\ session # 0
      BY <1>3 DEF Launch, LaunchFails, Unlaunched, CorrInv, QuietInv
    <2>2. QuietInv'
      BY <1>3, <2>1 DEF Launch, LaunchFails, QuietInv, Unlaunched
    <2> QED
      BY <1>1, <1>3, <2>1, <2>2, EmptyOurs DEF Launch, LaunchFails, CorrInv, QuietInv, Active
  <1>4. ~Unlaunched \/ StartReset \/ Launch \/ LaunchFails
    BY DEF OwnerStarts, OwnerGoesOn, OwnerStops, StartDispatcher, OwnerSends, StopBegin,
       StopCloseStdin, StopExited, StopKill, StopFlag, StopJoined, StopClear, StopRelease,
       CorrInv, QuietInv, Unlaunched
  <1>5. ASSUME NEW at, NEW op \in Operations, OwnerSends(at, op), ~Unlaunched
        PROVE  CorrInv'
    <2>1. Owner \in Threads
      BY DEF Threads
    <2>2. CASE Send(Owner, op)
      BY <2>1, <2>2, SendOurs
    <2>3. CASE SendRefused(Owner)
      <3>1. \A u \in Threads : Active(u)' => Active(u) /\ call'[u] = call[u]
        BY <2>1, <2>3 DEF SendRefused, Returns, Active, CorrInv, TypeInv, TypeOK, Nobody
      <3>2. owner' # "launch"
        BY <2>3 DEF SendRefused, Returns
      <3> QED
        BY <1>1, <1>5, <2>3, <3>1, <3>2, MovesOurs DEF SendRefused, CorrInv, QueuesInv
    <2> QED
      BY <1>5, <2>2, <2>3 DEF OwnerSends
  <1>6. CASE StopClear
    <2>1. <<>> \in Seq(OurRecords) /\ {} \subseteq OurRecords
      BY EmptySeq
    <2>2. /\ UNCHANGED <<stdin, outbox, stdout, session, call>>
          /\ buffer' = <<>> /\ records' = <<>> /\ responses' = {}
          /\ process' = FALSE /\ owner' = "stop.release" /\ ~Unlaunched
      BY <1>4, <1>6 DEF StopClear, Reset, StartReset, Launch, LaunchFails
    <2> QED
      BY <1>1, <2>1, <2>2, MovesOurs DEF CorrInv, QueuesInv, Active
  <1>7. ASSUME ~Unlaunched, StartDispatcher \/ StopBegin \/ StopCloseStdin \/ StopExited
                 \/ StopKill \/ StopFlag \/ StopJoined \/ StopRelease
        PROVE  CorrInv'
    <2>1. CASE StopKill
      <3>1. <<>> \in Seq(OurRecords) /\ <<>> \in Seq(OurRequests)
        BY EmptySeq
      <3> QED
        BY <1>1, <1>7, <2>1, <3>1, MovesOurs DEF StopKill, CorrInv, QueuesInv, Active
    <2>2. CASE ~StopKill
      <3>1. /\ UNCHANGED <<session, process, nextId, call, outbox, stdout, buffer, records,
                           responses>>
            /\ stdin' \in {stdin, <<>>} /\ owner' # "launch"
        BY <1>7, <2>2 DEF StartDispatcher, StopBegin, StopCloseStdin, StopExited, StopFlag,
           StopJoined, StopRelease
      <3> QED
        BY <1>1, <1>7, <3>1, UntouchedOurs
    <2> QED
      BY <2>1, <2>2
  <1> QED
    BY <1>2, <1>3, <1>4, <1>5, <1>6, <1>7
       DEF OwnerStarts, OwnerGoesOn, OwnerStops, Operations

LEMMA DispatcherOurs ==
    ASSUME CorrInv, Dispatches
    PROVE  CorrInv'
  <1> USE DEF worker, queues, flags
  <1>1. TypeInv'
    BY DispatcherType DEF CorrInv
  <1>2. disp # "none" /\ ~Unlaunched
    <2>1. disp # "none"
      BY DEF Dispatches, DispatchTerminal, DispatchEvent, Takes, HandlerReturns,
         HandlerThrows, HandlerStops, HandlerSends, DispatcherEnds
    <2> QED
      BY <2>1 DEF CorrInv, QuietInv
  <1>3. CASE DispatchTerminal
    <2>1. records # <<>> /\ records' = Tail(records)
      BY <1>3 DEF DispatchTerminal, Takes
    <2>2. Front \in OurRecords /\ records' \in Seq(OurRecords)
      BY <2>1, HeadTailProperties DEF Front, CorrInv, QueuesInv
    <2>3. responses' \subseteq OurRecords
      BY <1>3, <2>2 DEF DispatchTerminal, CorrInv, QueuesInv
    <2> QED
      BY <1>1, <1>2, <1>3, <2>2, <2>3, MovesOurs
         DEF DispatchTerminal, CorrInv, QueuesInv, Active, Unlaunched
  <1>4. CASE HandlerSends
    <2>1. Dispatcher \in Threads /\ "shutdown" \in Operations /\ Dispatcher # Owner
      BY DEF Threads, Operations, Dispatcher, Owner
    <2>2. CASE Send(Dispatcher, "shutdown")
      BY <2>1, <2>2, SendOurs
    <2>3. CASE SendRefused(Dispatcher)
      <3>1. \A u \in Threads : Active(u)' => Active(u) /\ call'[u] = call[u]
        BY <2>1, <2>3 DEF SendRefused, Returns, Active, CorrInv, TypeInv, TypeOK, Nobody
      <3>2. owner' # "launch"
        BY <1>2, <2>1, <2>3 DEF SendRefused, Returns, Unlaunched
      <3> QED
        BY <1>1, <1>2, <2>3, <3>1, <3>2, MovesOurs DEF SendRefused, CorrInv, QueuesInv
    <2> QED
      BY <1>4, <2>2, <2>3 DEF HandlerSends
  <1>5. CASE DispatchEvent \/ HandlerReturns \/ HandlerThrows \/ HandlerStops \/ DispatcherEnds
    <2>1. /\ UNCHANGED <<session, process, nextId, call, outbox, stdout, buffer, responses,
                         stdin, owner>>
          /\ records' \in {records, Tail(records)}
          /\ records # <<>> \/ records' = records
      BY <1>5 DEF DispatchEvent, HandlerReturns, HandlerThrows, HandlerStops, DispatcherEnds,
         Takes, Fail
    <2> QED
      BY <1>1, <1>2, <2>1, UntouchedOurs DEF Unlaunched
  <1> QED
    BY <1>3, <1>4, <1>5 DEF Dispatches

LEMMA ReaderOurs ==
    ASSUME CorrInv, Reads
    PROVE  CorrInv'
  <1>1. TypeInv'
    BY ReaderType DEF CorrInv
  <1>2. PICK count \in 1..StdoutRoom : OnStdout(count)
    BY DEF Reads
  <1>3. PICK all : all = buffer \o SubSeq(stdout, 1, count)
    OBVIOUS
  <1>4. PICK lost \in 1..(Len(all) + 1) :
           /\ records' = records \o SubSeq(all, 1, lost - 1)
           /\ buffer' = SubSeq(all, lost + 1, Len(all))
    BY <1>2, <1>3 DEF OnStdout
  <1>5. /\ count \in 1..Len(stdout)
        /\ stdout' = SubSeq(stdout, count + 1, Len(stdout))
        /\ UNCHANGED <<stdin, outbox, process, session, nextId, responses, call, owner>>
    BY <1>2 DEF OnStdout
  <1>6. /\ records \in Seq(OurRecords) /\ buffer \in Seq(OurRecords)
        /\ stdout \in Seq(OurRecords)
    BY DEF CorrInv, QueuesInv
  <1>7. /\ records' \in Seq(OurRecords) /\ buffer' \in Seq(OurRecords)
        /\ stdout' \in Seq(OurRecords)
    <2>1. /\ records \o SubSeq(all, 1, lost - 1) \in Seq(OurRecords)
          /\ SubSeq(all, lost + 1, Len(all)) \in Seq(OurRecords)
          /\ SubSeq(stdout, count + 1, Len(stdout)) \in Seq(OurRecords)
      BY <1>3, <1>5, <1>6, ReaderCuts
    <2> QED
      BY <1>4, <1>5, <2>1
  <1>8. ~Unlaunched
    <2>1. stdout # <<>>
      BY <1>5
    <2> QED
      BY <2>1 DEF CorrInv, QuietInv
  <1> QED
    BY <1>1, <1>5, <1>7, <1>8, MovesOurs DEF CorrInv, QueuesInv, Active, Unlaunched

LEMMA WorkerOurs ==
    ASSUME CorrInv, Works
    PROVE  CorrInv'
  <1> USE DEF ClientSide, queues, flags
  <1>1. TypeInv' /\ ~Unlaunched
    BY WorkerType DEF CorrInv, QuietInv, Works, WorkerReads, WorkerWrites, WorkerLive,
       WorkerFatal, WorkerBabbles, WorkerExits, Idle
  <1>2. UNCHANGED <<session, process, nextId, call, owner, buffer, records, responses>>
    BY DEF Works, WorkerReads, WorkerWrites, WorkerLive, WorkerFatal, WorkerBabbles,
       WorkerExits
  <1>3. Exit \in OurRecords
          /\ \A type \in {"live", "garbage", "fatal"} : Record(type, 0, Owner, 0) \in OurRecords
    BY DEF Exit, NoRecord, Record, RecordType, Threads, OurRecords, Ours, CorrInv, TypeInv, TypeOK
  <1>4. stdin \in Seq(OurRequests) /\ outbox \in Seq(OurRecords) /\ stdout \in Seq(OurRecords)
    BY DEF CorrInv, QueuesInv
  <1>5. stdin' \in Seq(OurRequests) /\ outbox' \in Seq(OurRecords) /\ stdout' \in Seq(OurRecords)
    <2>1. CASE WorkerReads
      <3> DEFINE q == Head(stdin)
      <3>1. q \in OurRequests /\ stdin' \in Seq(OurRequests) /\ stdout' = stdout
        BY <1>4, <2>1, HeadTailProperties DEF WorkerReads
      <3> DEFINE Events == IF q.op = "messages.export" THEN 0..MaxEvents ELSE {0}
                 Types == IF q.op \in {"hello", "messages.export"}
                          THEN {"response", "error"} ELSE {"response"}
      <3>2. PICK events \in Events, type \in Types : outbox' = AnswerTo(q, events, type)
        BY <2>1, Zenon DEF WorkerReads
      <3>3. events \in Nat /\ type \in {"response", "error"}
        BY ClientAssumption
      <3> HIDE DEF Events, Types, q
      <3>4. ASSUME NEW e \in {"event", type}, NEW n \in 0..events
            PROVE  [type |-> e, id |-> q.id, session |-> q.session, by |-> q.by, n |-> n]
                      \in OurRecords
        <4>1. q \in RequestType /\ Ours(q)
          BY <3>1 DEF OurRequests
        <4>2. [type |-> e, id |-> q.id, session |-> q.session, by |-> q.by, n |-> n] \in RecordType
          BY <3>3, <4>1 DEF RequestType, RecordType
        <4>3. Ours([type |-> e, id |-> q.id, session |-> q.session, by |-> q.by, n |-> n])
          BY <4>1 DEF Ours
        <4> QED
          BY <4>2, <4>3 DEF OurRecords
      <3>5. outbox' \in Seq(OurRecords)
        BY <1>3, <3>2, <3>3, <3>4, AnswerIn
      <3> QED
        BY <1>4, <3>1, <3>5
    <2>2. CASE WorkerWrites
      <3>1. Head(outbox) \in OurRecords /\ outbox' \in Seq(OurRecords)
        BY <1>4, <2>2, HeadTailProperties DEF WorkerWrites
      <3> QED
        BY <1>4, <2>2, <3>1, AppendProperties DEF WorkerWrites
    <2>3. CASE WorkerLive \/ WorkerBabbles
      <3>1. PICK type \in {"live", "garbage"} : stdout' = Append(stdout, Record(type, 0, Owner, 0))
        BY <2>3 DEF WorkerLive, WorkerBabbles
      <3>2. Record(type, 0, Owner, 0) \in OurRecords
        BY <1>3
      <3>3. UNCHANGED <<stdin, outbox>>
        BY <2>3 DEF WorkerLive, WorkerBabbles
      <3> QED
        BY <1>4, <3>1, <3>2, <3>3, AppendProperties
    <2>4. CASE WorkerFatal
      <3>1. outbox' = <<Record("fatal", 0, Owner, 0), Exit>> /\ UNCHANGED <<stdin, stdout>>
        BY <2>4 DEF WorkerFatal
      <3>2. outbox' \in Seq(OurRecords)
        BY <1>3, <3>1
      <3> QED
        BY <1>4, <3>1, <3>2
    <2>5. CASE WorkerExits
      BY <1>4, <2>5, EmptySeq DEF WorkerExits
    <2> QED
      BY <2>1, <2>2, <2>3, <2>4, <2>5 DEF Works
  <1> QED
    BY <1>1, <1>2, <1>5, MovesOurs DEF CorrInv, QueuesInv, Active, Unlaunched

LEMMA CorrStep ==
    ASSUME MaxSessions = 1, CorrInv, [Next]_vars
    PROVE  CorrInv'
  <1>1. CASE Rests \/ UNCHANGED vars
    <2>1. /\ UNCHANGED <<stdin, outbox, stdout, buffer, records, responses, session, process,
                         nextId, call, owner, disp, child>>
          /\ TypeInv'
      BY <1>1, TypeStep DEF Rests, vars, worker, queues, flags, CorrInv
    <2>2. CASE Unlaunched
      BY <2>1, <2>2, EmptyOurs DEF CorrInv, QuietInv, Unlaunched, Active
    <2>3. CASE ~Unlaunched
      BY <2>1, <2>3, UntouchedOurs DEF Unlaunched
    <2> QED
      BY <2>2, <2>3
  <1>2. ASSUME NEW t \in Callers, CallerSends(t)
        PROVE  CorrInv'
    BY <1>2, SendOurs, ClientAssumption DEF CallerSends, Threads, Operations
  <1> QED
    BY <1>1, <1>2, OwnerOurs, RequestingOurs, DispatcherOurs, ReaderOurs, WorkerOurs DEF Next

LEMMA InitCorr == Init => CorrInv
  <1> SUFFICES ASSUME Init PROVE CorrInv
    OBVIOUS
  <1>1. TypeInv
    BY InitTypes
  <1>2. \A t \in Threads : ~Active(t)
    BY DEF Init, Active, Nobody
  <1>3. QueuesInv
    BY EmptySeq DEF Init, QueuesInv
  <1>4. CallsInv
    BY <1>2 DEF CallsInv
  <1>5. QuietInv
    BY <1>2 DEF Init, QuietInv
  <1> QED
    BY <1>1, <1>3, <1>4, <1>5 DEF CorrInv

\* Only the request that collects takes a response out.
LEMMA CollectsOurs ==
    ASSUME CorrInv, [Next]_vars, NEW t \in Threads, Collects(t),
           NEW r \in responses, r \notin responses'
    PROVE  Belongs(r, t)
  <1> USE DEF worker, queues, flags
  <1>1. PICK u \in Threads : TakeResponse(u)
    <2>1. CASE Rests \/ UNCHANGED vars
      BY <2>1 DEF Rests, vars
    <2>2. CASE \E u \in Callers : CallerSends(u)
      BY <2>2 DEF CallerSends, Send
    <2>3. ASSUME NEW u \in Threads, Requesting(u), ~TakeResponse(u)
          PROVE  FALSE
      BY <2>3 DEF Requesting, SendTooLarge, WriteBlocks, Write, WriteFails, GiveUp, TimesOut
    <2>4. CASE OwnerStarts \/ OwnerGoesOn \/ OwnerStops
      <3>1. CASE StartReset \/ StopClear
        BY <3>1 DEF StartReset, StopClear, Collects
      <3>2. CASE ~(StartReset \/ StopClear)
        BY <2>4, <3>2 DEF OwnerStarts, OwnerGoesOn, OwnerStops, Launch, LaunchFails,
           StartDispatcher, OwnerSends, Send, SendRefused, StopBegin, StopCloseStdin,
           StopExited, StopKill, StopFlag, StopJoined, StopRelease
      <3> QED
        BY <3>1, <3>2
    <2>5. CASE Dispatches
      BY <2>5 DEF Dispatches, DispatchTerminal, DispatchEvent, HandlerReturns, HandlerThrows,
         HandlerStops, HandlerSends, Send, SendRefused, DispatcherEnds
    <2>6. CASE Reads \/ Works
      BY <2>6 DEF Reads, OnStdout, Works, WorkerReads, WorkerWrites, WorkerLive, WorkerFatal,
         WorkerBabbles, WorkerExits, ClientSide
    <2> QED
      BY <2>1, <2>2, <2>3, <2>4, <2>5, <2>6 DEF Next
  <1>2. r \in Answers(u) /\ call[u].at = "wait"
    BY <1>1 DEF TakeResponse
  <1>3. u = t
    BY <1>1 DEF TakeResponse, Returns, Collects, CorrInv, TypeInv, TypeOK
  <1>4. r.id = call[t].id /\ Active(t) /\ r \in OurRecords
    BY <1>2, <1>3 DEF Answers, Active, CorrInv, QueuesInv
  <1> QED
    BY <1>4 DEF Belongs, CorrInv, CallsInv, OurRecords, Ours

(***************************************************************************)
(* Within one session, with any number of callers, any timeouts, crashes,  *)
(* failures and interleaving, a request takes only the record that answers *)
(* it (lines 469-492).  With two sessions this is false: run               *)
(* client_sessions.                                                        *)
(***************************************************************************)
THEOREM CorrelatedInOneSession ==
    ASSUME MaxSessions = 1
    PROVE  Spec => Correlated
<1>1. Init => CorrInv
  BY InitCorr
<1>2. CorrInv /\ [Next]_vars => CorrInv'
  BY CorrStep
<1>3. CorrInv /\ [Next]_vars =>
        [\A t \in Threads : Collects(t) => \A r \in responses \ responses' : Belongs(r, t)]_vars
  BY CollectsOurs
<1> QED
  BY <1>1, <1>2, <1>3, PTL DEF Spec, Correlated
-----------------------------------------------------------------------------
(***************************************************************************)
(* From here on: what the one session delivers until it fails or stops.    *)
(* A record is in outbox, in stdout, in records_, in the dispatcher's hand *)
(* or among the responses, and for each request these hold its events in   *)
(* order and then its answer.                                              *)
(***************************************************************************)
Sound == process /\ ~failed

InHand == IF disp = "call" THEN <<hand>> ELSE <<>>

Held(s) == {s[j] : j \in DOMAIN s}

\* Records of requests that are on their way, but for the responses.
Named == {x \in Held(InHand) \cup Held(records) \cup Held(stdout) \cup Held(outbox) : x.id # 0}

Before(x, y) ==
    x.id # 0 /\ x.id = y.id => x.type = "event" /\ (x.n < y.n \/ (x.n = y.n /\ Terminal(y)))

Sorted(s) == \A j, k \in DOMAIN s : j < k => Before(s[j], s[k])
Ahead(S, T) == \A x \in S, y \in T : Before(x, y)

Chain(h, r, o, b) ==
    /\ Sorted(h) /\ Sorted(r) /\ Sorted(o) /\ Sorted(b)
    /\ Ahead(Held(h), Held(r)) /\ Ahead(Held(h), Held(o)) /\ Ahead(Held(h), Held(b))
    /\ Ahead(Held(r), Held(o)) /\ Ahead(Held(r), Held(b)) /\ Ahead(Held(o), Held(b))

LineInv ==
    /\ disp = "call" => hand \in OurRecords
    /\ buffer = <<>>
    /\ Chain(InHand, records, stdout, outbox)
    /\ Ahead(responses, Named)
    /\ \A r, q \in responses : r.id = q.id => r = q
    /\ \A r \in responses : Terminal(r) /\ r.id # 0
    /\ \A x \in Named : x.type \in {"event", "response", "error"}
    /\ \A s \in {records, stdout, outbox} : \A x \in Held(s) : Terminal(x) => x.id # 0

\* Nothing is under way for a request that was not written yet, and a request
\* that was not served yet has no record.
Unheard(id) == \A x \in Named \cup responses : x.id # id

IdsInv ==
    /\ \A q \in Held(stdin) : q.id # 0 /\ Unheard(q.id)
    /\ \A j, k \in DOMAIN stdin : stdin[j].id = stdin[k].id => j = k
    /\ \A t \in Threads : call[t].at \in {"send", "write"} =>
         seen[t] = 0 /\ Unheard(call[t].id) /\ \A q \in Held(stdin) : q.id # call[t].id
    /\ \A t \in Threads : call[t].op = "messages.export" => call[t].id \in handlers

(***************************************************************************)
(* The events of a request that waits: those it has seen are gone, and all *)
(* others up to the one, or the answer, that is looked at are there.       *)
(***************************************************************************)
Waits(t) == call[t].at = "wait"

EventOf(id, n) == \E y \in Named : y.id = id /\ y.type = "event" /\ y.n = n

Counted(t, x) ==
    /\ x.type = "event" => seen[t] < x.n /\ call[t].op = "messages.export"
    /\ Terminal(x) => seen[t] <= x.n
    /\ \A n \in Nat : seen[t] < n /\ (n < x.n \/ (n = x.n /\ Terminal(x))) =>
         EventOf(call[t].id, n)

CountInv ==
    \A t \in Threads : Waits(t) =>
        /\ \A q \in Held(stdin) : q.id = call[t].id => seen[t] = 0 /\ q.op = call[t].op
        /\ \A x \in Named : x.id = call[t].id => Counted(t, x)
        /\ \A r \in responses : r.id = call[t].id => seen[t] = r.n

(***************************************************************************)
(* What is under way belongs to a request that waits, or has timed out.    *)
(* The shutdown that a callback sends is not waited for.                   *)
(***************************************************************************)
Awaited(x) == x.id \in expired \/ (Waits(x.by) /\ call[x.by].id = x.id)

WaitInv ==
    /\ \A x \in Named : IF x.by = Dispatcher THEN Terminal(x) ELSE Awaited(x)
    /\ \A r \in responses : r.by # Dispatcher => Awaited(r)
    /\ \A q \in Held(stdin) : IF q.by = Dispatcher THEN q.op = "shutdown" ELSE Awaited(q)

DispInv ==
    /\ Active(Dispatcher) => disp = "stop" /\ call[Dispatcher].op = "shutdown"
    /\ owner = "stop.clear" => disp = "none"
    /\ owner = "launched" => process /\ disp = "none"
    /\ ~process => disp = "none" /\ responses = {}
    /\ disp = "call" => ~Terminal(hand)

SoundInv == LineInv /\ IdsInv /\ CountInv

-----------------------------------------------------------------------------
(***************************************************************************)
(* Lists of records.                                                       *)
(***************************************************************************)
LEMMA SeqFacts ==
    ASSUME NEW S, NEW s \in Seq(S)
    PROVE  /\ Len(s) \in Nat /\ DOMAIN s = 1..Len(s) /\ Held(s) \subseteq S
           /\ \A j \in 1..Len(s) : s[j] \in S
           /\ (s # <<>> => /\ Len(s) > 0 /\ Head(s) = s[1] /\ Tail(s) \in Seq(S)
                           /\ Len(Tail(s)) = Len(s) - 1
                           /\ \A j \in 1..(Len(s) - 1) : Tail(s)[j] = s[j + 1])
  <1>1. Len(s) \in Nat /\ DOMAIN s = 1..Len(s) /\ \A j \in 1..Len(s) : s[j] \in S
    BY LenProperties, ElementOfSeq
  <1>2. Held(s) \subseteq S
    BY <1>1 DEF Held
  <1>3. ASSUME s # <<>>
        PROVE  /\ Len(s) > 0 /\ Head(s) = s[1] /\ Tail(s) \in Seq(S)
               /\ Len(Tail(s)) = Len(s) - 1
               /\ \A j \in 1..(Len(s) - 1) : Tail(s)[j] = s[j + 1]
    BY <1>1, <1>3, HeadTailProperties, EmptySeq
  <1> QED
    BY <1>1, <1>2, <1>3

LEMMA EmptyList == Held(<<>>) = {} /\ Sorted(<<>>)
  BY DEF Held, Sorted

LEMMA OneList == \A x : Held(<<x>>) = {x} /\ Sorted(<<x>>)
  BY DEF Held, Sorted

\* s2 is s with the first c elements of t behind it, t2 is what t has left.
Moves(s, t, s2, t2, c) ==
    /\ Len(s) \in Nat /\ Len(t) \in Nat /\ c \in 0..Len(t)
    /\ DOMAIN s = 1..Len(s) /\ DOMAIN t = 1..Len(t)
    /\ DOMAIN s2 = 1..(Len(s) + c) /\ DOMAIN t2 = 1..(Len(t) - c)
    /\ \A j \in 1..Len(s) : s2[j] = s[j]
    /\ \A j \in 1..c : s2[Len(s) + j] = t[j]
    /\ \A j \in 1..(Len(t) - c) : t2[j] = t[c + j]

LEMMA MovesHeld ==
    ASSUME NEW s, NEW t, NEW s2, NEW t2, NEW c, Moves(s, t, s2, t2, c)
    PROVE  /\ Held(s2) \cup Held(t2) = Held(s) \cup Held(t)
           /\ Held(t2) \subseteq Held(t)
  <1> USE DEF Moves
  <1>1. ASSUME NEW j \in DOMAIN s2 PROVE s2[j] \in Held(s) \cup Held(t)
    <2>1. CASE j \in 1..Len(s)
      BY <2>1 DEF Held
    <2>2. CASE j \notin 1..Len(s)
      <3>1. j - Len(s) \in 1..c /\ j = Len(s) + (j - Len(s))
        BY <2>2
      <3>2. s2[j] = t[j - Len(s)] /\ j - Len(s) \in 1..Len(t)
        BY <3>1
      <3> QED
        BY <3>2 DEF Held
    <2> QED
      BY <2>1, <2>2
  <1>2. ASSUME NEW j \in DOMAIN t2 PROVE t2[j] \in Held(t)
    <2>1. t2[j] = t[c + j] /\ c + j \in 1..Len(t)
      OBVIOUS
    <2> QED
      BY <2>1 DEF Held
  <1>3. ASSUME NEW j \in DOMAIN s PROVE s[j] \in Held(s2)
    <2>1. s2[j] = s[j] /\ j \in 1..(Len(s) + c)
      OBVIOUS
    <2> QED
      BY <2>1 DEF Held
  <1>4. ASSUME NEW j \in DOMAIN t PROVE t[j] \in Held(s2) \cup Held(t2)
    <2>1. CASE j \in 1..c
      <3>1. s2[Len(s) + j] = t[j] /\ Len(s) + j \in 1..(Len(s) + c)
        BY <2>1
      <3> QED
        BY <3>1 DEF Held
    <2>2. CASE j \notin 1..c
      <3>1. j - c \in 1..(Len(t) - c) /\ c + (j - c) = j
        BY <2>2
      <3>2. t2[j - c] = t[j]
        BY <3>1
      <3> QED
        BY <3>1, <3>2 DEF Held
    <2> QED
      BY <2>1, <2>2
  <1>5. Held(s2) \subseteq Held(s) \cup Held(t) /\ Held(t2) \subseteq Held(t)
    BY ONLY <1>1, <1>2 DEF Held
  <1>6. Held(s) \subseteq Held(s2) /\ Held(t) \subseteq Held(s2) \cup Held(t2)
    BY ONLY <1>3, <1>4 DEF Held
  <1> QED
    BY ONLY <1>5, <1>6

LEMMA MovesSorted ==
    ASSUME NEW s, NEW t, NEW s2, NEW t2, NEW c, Moves(s, t, s2, t2, c),
           Sorted(s), Sorted(t), Ahead(Held(s), Held(t))
    PROVE  Sorted(s2) /\ Sorted(t2) /\ Ahead(Held(s2), Held(t2))
  <1> USE DEF Moves
  <1>1. Sorted(s2)
    <2> SUFFICES ASSUME NEW j \in DOMAIN s2, NEW k \in DOMAIN s2, j < k
                 PROVE  Before(s2[j], s2[k])
      BY DEF Sorted
    <2>1. CASE k <= Len(s)
      <3>1. j \in DOMAIN s /\ k \in DOMAIN s /\ s2[j] = s[j] /\ s2[k] = s[k]
        BY <2>1
      <3> QED
        BY <3>1 DEF Sorted
    <2>2. CASE k > Len(s)
      <3>1. k - Len(s) \in 1..c /\ k = Len(s) + (k - Len(s))
        BY <2>2
      <3>2. s2[k] = t[k - Len(s)] /\ k - Len(s) \in DOMAIN t
        BY <3>1
      <3>3. CASE j <= Len(s)
        <4>1. s2[j] \in Held(s) /\ s2[k] \in Held(t)
          BY <3>2, <3>3 DEF Held
        <4> QED
          BY <4>1 DEF Ahead
      <3>4. CASE j > Len(s)
        <4>1. j - Len(s) \in 1..c /\ j = Len(s) + (j - Len(s))
          BY <3>4
        <4>2. s2[j] = t[j - Len(s)] /\ j - Len(s) \in DOMAIN t /\ j - Len(s) < k - Len(s)
          BY <4>1
        <4> QED
          BY <3>2, <4>2 DEF Sorted
      <3> QED
        BY <3>3, <3>4
    <2> QED
      BY <2>1, <2>2
  <1>2. Sorted(t2)
    <2> SUFFICES ASSUME NEW j \in DOMAIN t2, NEW k \in DOMAIN t2, j < k
                 PROVE  Before(t2[j], t2[k])
      BY DEF Sorted
    <2>1. /\ t2[j] = t[c + j] /\ t2[k] = t[c + k]
          /\ c + j \in DOMAIN t /\ c + k \in DOMAIN t /\ c + j < c + k
      OBVIOUS
    <2> QED
      BY <2>1 DEF Sorted
  <1>3. ASSUME NEW j \in DOMAIN s2, NEW k \in DOMAIN t2
        PROVE  Before(s2[j], t2[k])
    <2>1. t2[k] = t[c + k] /\ c + k \in DOMAIN t
      OBVIOUS
    <2>2. CASE j <= Len(s)
      <3>1. s2[j] \in Held(s) /\ t2[k] \in Held(t)
        BY <2>1, <2>2 DEF Held
      <3> QED
        BY <3>1 DEF Ahead
    <2>3. CASE j > Len(s)
      <3>1. j - Len(s) \in 1..c /\ j = Len(s) + (j - Len(s))
        BY <2>3
      <3>2. s2[j] = t[j - Len(s)] /\ j - Len(s) \in DOMAIN t /\ j - Len(s) < c + k
        BY <3>1
      <3> QED
        BY <2>1, <3>2 DEF Sorted
    <2> QED
      BY <2>2, <2>3
  <1>4. Ahead(Held(s2), Held(t2))
    <2> SUFFICES ASSUME NEW x \in Held(s2), NEW y \in Held(t2)
                 PROVE  Before(x, y)
      BY DEF Ahead
    <2>1. PICK j \in DOMAIN s2 : x = s2[j]
      BY DEF Held
    <2>2. PICK k \in DOMAIN t2 : y = t2[k]
      BY DEF Held
    <2> QED
      BY <1>3, <2>1, <2>2
  <1> QED
    BY <1>1, <1>2, <1>4

\* One element, and several.
LEMMA HeadMoves ==
    ASSUME NEW S, NEW s \in Seq(S), NEW t \in Seq(S), t # <<>>
    PROVE  Moves(s, t, Append(s, Head(t)), Tail(t), 1)
  <1>1. /\ Len(s) \in Nat /\ DOMAIN s = 1..Len(s) /\ Len(t) \in Nat /\ DOMAIN t = 1..Len(t)
        /\ Len(t) > 0 /\ Head(t) = t[1] /\ Head(t) \in S /\ Tail(t) \in Seq(S)
        /\ Len(Tail(t)) = Len(t) - 1
        /\ \A j \in 1..(Len(t) - 1) : Tail(t)[j] = t[j + 1]
    BY SeqFacts
  <1>2. /\ Append(s, Head(t)) \in Seq(S)
        /\ Len(Append(s, Head(t))) = Len(s) + 1
        /\ \A j \in 1..Len(s) : Append(s, Head(t))[j] = s[j]
        /\ Append(s, Head(t))[Len(s) + 1] = Head(t)
    BY <1>1, AppendProperties
  <1>3. DOMAIN Append(s, Head(t)) = 1..(Len(s) + 1) /\ DOMAIN Tail(t) = 1..(Len(t) - 1)
    BY <1>1, <1>2, SeqFacts
  <1> QED
    BY <1>1, <1>2, <1>3 DEF Moves

LEMMA PrefixMoves ==
    ASSUME NEW S, NEW s \in Seq(S), NEW t \in Seq(S), NEW c \in 1..Len(t)
    PROVE  Moves(s, t, s \o SubSeq(t, 1, c), SubSeq(t, c + 1, Len(t)), c)
  <1> DEFINE p == SubSeq(t, 1, c)
             r == SubSeq(t, c + 1, Len(t))
  <1>1. /\ Len(s) \in Nat /\ DOMAIN s = 1..Len(s) /\ Len(t) \in Nat /\ DOMAIN t = 1..Len(t)
        /\ \A j \in 1..Len(t) : t[j] \in S
    BY SeqFacts
  <1>2. p \in Seq(S) /\ Len(p) = c /\ \A j \in 1..c : p[j] = t[j]
    BY <1>1, SubSeqProperties
  <1>3. r \in Seq(S) /\ Len(r) = Len(t) - c /\ \A j \in 1..(Len(t) - c) : r[j] = t[c + j]
    <2>1. c + 1 \in 1..(Len(t) + 1) /\ Len(t) \in (c + 1) - 1..Len(t)
      BY <1>1
    <2>2. /\ r \in Seq(S) /\ Len(r) = Len(t) - (c + 1) + 1
          /\ \A j \in 1..(Len(t) - (c + 1) + 1) : r[j] = t[(c + 1) + j - 1]
      BY <2>1, SubSeqProperties
    <2>3. Len(t) - (c + 1) + 1 = Len(t) - c
      BY <1>1
    <2>4. ASSUME NEW j \in 1..(Len(t) - c) PROVE (c + 1) + j - 1 = c + j
      OBVIOUS
    <2> QED
      BY <2>2, <2>3, <2>4
  <1> HIDE DEF p, r
  <1>4. /\ s \o p \in Seq(S) /\ Len(s \o p) = Len(s) + c
        /\ \A j \in 1..Len(s) : (s \o p)[j] = s[j]
        /\ \A j \in 1..c : (s \o p)[Len(s) + j] = t[j]
    <2>1. s \o p \in Seq(S) /\ Len(s \o p) = Len(s) + c
      BY <1>2, ConcatProperties
    <2>2. \A i \in 1..(Len(s) + c) : (s \o p)[i] = IF i <= Len(s) THEN s[i] ELSE p[i - Len(s)]
      BY <1>1, <1>2, ConcatProperties
    <2>3. ASSUME NEW j \in 1..c PROVE (s \o p)[Len(s) + j] = t[j]
      <3>1. Len(s) + j \in 1..(Len(s) + c) /\ ~(Len(s) + j <= Len(s)) /\ (Len(s) + j) - Len(s) = j
        BY <1>1
      <3>2. (s \o p)[Len(s) + j] = p[(Len(s) + j) - Len(s)]
        BY <2>2, <3>1
      <3> QED
        BY <1>2, <3>1, <3>2
    <2>4. ASSUME NEW j \in 1..Len(s) PROVE (s \o p)[j] = s[j]
      <3>1. j \in 1..(Len(s) + c) /\ j <= Len(s)
        BY <1>1
      <3> QED
        BY <2>2, <3>1
    <2> QED
      BY <2>1, <2>3, <2>4
  <1>5. DOMAIN (s \o p) = 1..(Len(s) + c) /\ DOMAIN r = 1..(Len(t) - c)
    BY <1>3, <1>4, SeqFacts
  <1>6. Moves(s, t, s \o p, r, c)
    BY <1>1, <1>3, <1>4, <1>5 DEF Moves
  <1> QED
    BY <1>6 DEF p, r

\* What is left of a list, and what is behind its head.
LEMMA TailHeld ==
    ASSUME NEW S, NEW s \in Seq(S), s # <<>>, Sorted(s)
    PROVE  /\ Held(s) = {Head(s)} \cup Held(Tail(s))
           /\ Sorted(Tail(s)) /\ Ahead({Head(s)}, Held(Tail(s)))
  <1>1. Moves(<<>>, s, Append(<<>>, Head(s)), Tail(s), 1)
    BY HeadMoves, EmptySeq
  <1>2. Append(<<>>, Head(s)) = <<Head(s)>>
    OBVIOUS
  <1>3. Ahead(Held(<<>>), Held(s))
    BY EmptyList DEF Ahead
  <1>4. Moves(<<>>, s, <<Head(s)>>, Tail(s), 1)
    BY <1>1, <1>2
  <1>5. Held(<<Head(s)>>) \cup Held(Tail(s)) = Held(<<>>) \cup Held(s)
    BY <1>4, MovesHeld
  <1>6. Sorted(Tail(s)) /\ Ahead(Held(<<Head(s)>>), Held(Tail(s)))
    BY <1>3, <1>4, MovesSorted, EmptyList
  <1>7. Held(<<Head(s)>>) = {Head(s)} /\ Held(<<>>) = {}
    BY OneList, EmptyList
  <1> QED
    BY <1>5, <1>6, <1>7

LEMMA AppendHeld ==
    ASSUME NEW S, NEW s \in Seq(S), NEW x \in S
    PROVE  /\ Len(s) \in Nat /\ DOMAIN s = 1..Len(s)
           /\ DOMAIN Append(s, x) = 1..(Len(s) + 1)
           /\ \A j \in 1..Len(s) : Append(s, x)[j] = s[j]
           /\ Append(s, x)[Len(s) + 1] = x
           /\ Held(Append(s, x)) = Held(s) \cup {x}
  <1> DEFINE s2 == Append(s, x)
  <1>1. /\ Len(s) \in Nat /\ DOMAIN s = 1..Len(s) /\ DOMAIN s2 = 1..(Len(s) + 1)
        /\ \A j \in 1..Len(s) : s2[j] = s[j]
        /\ s2[Len(s) + 1] = x
    BY SeqFacts, AppendProperties
  <1> HIDE DEF s2
  <1>2. Held(s2) \subseteq Held(s) \cup {x}
    <2> SUFFICES ASSUME NEW j \in DOMAIN s2 PROVE s2[j] \in Held(s) \cup {x}
      BY DEF Held
    <2> QED
      BY <1>1 DEF Held
  <1>3. x \in Held(s2) /\ Held(s) \subseteq Held(s2)
    <2>1. x \in Held(s2)
      BY <1>1 DEF Held
    <2>2. ASSUME NEW j \in DOMAIN s PROVE s[j] \in Held(s2)
      BY <1>1 DEF Held
    <2> QED
      BY <2>1, <2>2 DEF Held
  <1>4. Held(s2) = Held(s) \cup {x}
    BY <1>2, <1>3
  <1> QED
    BY <1>1, <1>4 DEF s2

LEMMA AppendSorted ==
    ASSUME NEW S, NEW s \in Seq(S), NEW x \in S, Sorted(s), Ahead(Held(s), {x})
    PROVE  Sorted(Append(s, x))
  <1> DEFINE s2 == Append(s, x)
  <1>1. /\ Len(s) \in Nat /\ DOMAIN s = 1..Len(s) /\ DOMAIN s2 = 1..(Len(s) + 1)
        /\ \A j \in 1..Len(s) : s2[j] = s[j]
        /\ s2[Len(s) + 1] = x
    BY AppendHeld
  <1> HIDE DEF s2
  <1>2. Sorted(s2)
    <2> SUFFICES ASSUME NEW j \in DOMAIN s2, NEW k \in DOMAIN s2, j < k
                 PROVE  Before(s2[j], s2[k])
      BY DEF Sorted
    <2>1. j \in DOMAIN s /\ s2[j] = s[j] /\ s[j] \in Held(s)
      BY <1>1 DEF Held
    <2>2. CASE k \in DOMAIN s
      <3>1. s2[k] = s[k]
        BY <1>1, <2>2
      <3> QED
        BY <2>1, <2>2, <3>1 DEF Sorted
    <2>3. CASE k \notin DOMAIN s
      <3>1. s2[k] = x
        BY <1>1, <2>3
      <3> QED
        BY <2>1, <3>1 DEF Ahead
    <2> QED
      BY <2>2, <2>3
  <1> QED
    BY <1>2 DEF s2

(***************************************************************************)
(* What the requests do while the session is sound.                        *)
(***************************************************************************)
LEMMA LineTypes ==
    ASSUME CorrInv, LineInv
    PROVE  /\ InHand \in Seq(OurRecords) /\ records \in Seq(OurRecords)
           /\ stdout \in Seq(OurRecords) /\ outbox \in Seq(OurRecords)
           /\ Named \subseteq OurRecords /\ responses \subseteq OurRecords
           /\ Held(stdin) \subseteq OurRequests
           /\ \A x \in OurRecords : x \in RecordType /\ x.id \in Nat /\ x.n \in Nat /\ Ours(x)
           /\ \A q \in OurRequests : q.id \in Nat /\ Ours(q)
  <1>1. InHand \in Seq(OurRecords)
    <2>1. CASE disp = "call"
      BY <2>1 DEF InHand, LineInv
    <2>2. CASE disp # "call"
      BY <2>2, EmptySeq DEF InHand
    <2> QED
      BY <2>1, <2>2
  <1>2. /\ records \in Seq(OurRecords) /\ stdout \in Seq(OurRecords)
        /\ outbox \in Seq(OurRecords) /\ responses \subseteq OurRecords
        /\ stdin \in Seq(OurRequests)
    BY DEF CorrInv, QueuesInv
  <1>3. /\ Held(InHand) \subseteq OurRecords /\ Held(records) \subseteq OurRecords
        /\ Held(stdout) \subseteq OurRecords /\ Held(outbox) \subseteq OurRecords
    BY <1>1, <1>2, SeqFacts
  <1>4. Named \subseteq OurRecords
    BY <1>3 DEF Named
  <1>5. Held(stdin) \subseteq OurRequests
    BY <1>2, SeqFacts
  <1>6. \A x \in OurRecords : x \in RecordType /\ x.id \in Nat /\ x.n \in Nat /\ Ours(x)
    BY DEF OurRecords, RecordType
  <1>7. \A q \in OurRequests : q.id \in Nat /\ Ours(q)
    BY DEF OurRequests, RequestType
  <1> QED
    BY <1>1, <1>2, <1>4, <1>5, <1>6, <1>7

\* A request that returns, or goes on with its write.
CallsKept ==
    \A t \in Threads : Active(t)' =>
        /\ call'[t].id = call[t].id /\ call'[t].op = call[t].op
        /\ call'[t].session = call[t].session
        /\ \/ call'[t].at = call[t].at
           \/ call[t].at = "send" /\ call'[t].at = "write"

LEMMA HandKept ==
    ASSUME CorrInv, CorrInv', Sound, session' = session, nextId' = nextId,
           CallsKept
    PROVE  OurRecords \subseteq OurRecords' /\ OurRequests \subseteq OurRequests'
  <1>1. nextId <= nextId'
    BY DEF CorrInv, TypeInv, TypeOK
  <1>2. TypeInv /\ TypeInv'
    BY DEF CorrInv
  <1>3. \A t \in Threads : Active(t)' => Active(t) /\ call'[t].id = call[t].id
    BY DEF CallsKept, Active
  <1>4. process' => process /\ nextId <= nextId'
    BY <1>1 DEF Sound
  <1>5. \A t \in Threads : Active(t)' =>
             (Active(t) /\ call'[t].id = call[t].id) \/ (process /\ call'[t].id = nextId)
    BY <1>3
  <1> QED
    BY <1>2, <1>4, <1>5, OursKept

LEMMA NamedStays ==
    ASSUME UNCHANGED <<records, stdout, outbox>>, InHand' = InHand
    PROVE  Named' = Named
  BY DEF Named

LEMMA LineStays ==
    ASSUME LineInv, OurRecords \subseteq OurRecords',
           UNCHANGED <<records, stdout, outbox, buffer>>, InHand' = InHand,
           disp' = "call" => disp = "call" /\ hand' = hand,
           responses' \subseteq responses
    PROVE  LineInv'
  <1>1. Named' = Named
    BY NamedStays
  <1>2. Chain(InHand, records, stdout, outbox)'
    BY DEF LineInv, Chain
  <1>3. disp' = "call" => hand' \in OurRecords'
    BY DEF LineInv
  <1>4. Ahead(responses, Named)'
    BY <1>1 DEF LineInv, Ahead
  <1>5. /\ \A r, q \in responses' : r.id = q.id => r = q
        /\ \A r \in responses' : Terminal(r) /\ r.id # 0
    BY DEF LineInv
  <1>6. \A x \in Named' : x.type \in {"event", "response", "error"}
    BY <1>1 DEF LineInv
  <1>7. \A s \in {records', stdout', outbox'} : \A x \in Held(s) : Terminal(x) => x.id # 0
    BY DEF LineInv
  <1>8. buffer' = <<>>
    BY DEF LineInv
  <1> QED
    BY <1>2, <1>3, <1>4, <1>5, <1>6, <1>7, <1>8 DEF LineInv

LEMMA CallsKeep ==
    ASSUME IdsInv, CountInv, CallsKept,
           Named' = Named, responses' \subseteq responses, stdin' = stdin,
           \A t \in Threads : Active(t) => seen'[t] = seen[t],
           \A t \in Threads : call'[t].op = "messages.export" => call'[t].id \in handlers'
    PROVE  IdsInv' /\ CountInv'
  <1>1. \A id : Unheard(id) => Unheard(id)'
    BY DEF Unheard
  <1>2. Held(stdin') = Held(stdin)
    OBVIOUS
  <1>3. ASSUME NEW t \in Threads, call'[t].at \in {"send", "write"}
        PROVE  /\ seen'[t] = 0 /\ Unheard(call[t].id)'
               /\ \A q \in Held(stdin') : q.id # call'[t].id
    <2>1. call[t].at \in {"send", "write"} /\ call'[t].id = call[t].id
      BY <1>3 DEF CallsKept, Active
    <2>2. seen[t] = 0 /\ Unheard(call[t].id) /\ \A q \in Held(stdin) : q.id # call[t].id
      BY <2>1 DEF IdsInv
    <2>3. Unheard(call[t].id)'
      BY <2>1, <2>2 DEF Unheard
    <2>4. seen'[t] = 0
      BY <2>1, <2>2 DEF Active
    <2> QED
      BY <1>2, <2>1, <2>2, <2>3, <2>4
  <1>4. IdsInv'
    <2>1. \A q \in Held(stdin') : q.id # 0 /\ Unheard(q.id)'
      BY <1>1, <1>2 DEF IdsInv
    <2>2. \A j, k \in DOMAIN stdin' : stdin'[j].id = stdin'[k].id => j = k
      BY DEF IdsInv
    <2> QED
      BY <1>3, <2>1, <2>2 DEF IdsInv
  <1>5. ASSUME NEW t \in Threads, Waits(t)'
        PROVE  /\ Waits(t) /\ call'[t].id = call[t].id /\ call'[t].op = call[t].op
               /\ seen'[t] = seen[t]
    BY <1>5 DEF Waits, CallsKept, Active
  <1>6. ASSUME NEW t \in Threads, Waits(t)', NEW x \in Named', x.id = call'[t].id
        PROVE  Counted(t, x)'
    <2>1. /\ Counted(t, x) /\ call'[t].id = call[t].id /\ call'[t].op = call[t].op
          /\ seen'[t] = seen[t]
      BY <1>5, <1>6 DEF CountInv
    <2> QED
      BY <2>1 DEF Counted, EventOf
  <1>7. CountInv'
    BY <1>2, <1>5, <1>6 DEF CountInv
  <1> QED
    BY <1>4, <1>7

\* Another request goes on as it was, and this one is over.
LEMMA GoneSound ==
    ASSUME CorrInv, CorrInv', DispInv, Sound, Sound', SoundInv,
           NEW t \in Threads, NEW ok \in BOOLEAN, Active(t), Returns(t, ok),
           handlers \ {call[t].id} \subseteq handlers', responses' \subseteq responses,
           UNCHANGED <<worker, session, nextId, buffer, records, seen, hand>>
    PROVE  SoundInv' /\ CallsKept
  <1>1. call \in [Threads -> CallType]
    BY DEF CorrInv, TypeInv, TypeOK
  <1>2. call'[t] = Nobody /\ \A u \in Threads : u # t => call'[u] = call[u]
    BY <1>1 DEF Returns
  <1>3. CallsKept
    BY <1>2 DEF CallsKept, Active, Nobody
  <1>4. ~Active(t)'
    BY <1>2 DEF Active, Nobody
  <1>5. disp' = "call" <=> disp = "call"
    BY DEF Returns, DispInv
  <1>6. InHand' = InHand /\ UNCHANGED <<records, stdout, outbox, stdin>>
    BY <1>5 DEF InHand, worker
  <1>7. Named' = Named
    BY <1>6, NamedStays
  <1>8. OurRecords \subseteq OurRecords'
    BY <1>3, HandKept
  <1>9. LineInv'
    BY <1>5, <1>6, <1>8, LineStays DEF SoundInv
  <1>10. ASSUME NEW u \in Threads, call'[u].op = "messages.export"
         PROVE  call'[u].id \in handlers'
    <2>1. u # t
      BY <1>2, <1>10 DEF Nobody
    <2>2. call'[u] = call[u] /\ call[u].id \in handlers
      BY <1>2, <1>10, <2>1 DEF SoundInv, IdsInv
    <2>3. Active(u)
      BY <1>1, <1>2, <1>10, <2>1 DEF Active, CallType, Nobody
    <2>4. call[u].id # call[t].id
      BY <2>1, <2>3 DEF CorrInv, CallsInv
    <2> QED
      BY <2>2, <2>4
  <1>11. IdsInv' /\ CountInv'
    BY <1>3, <1>6, <1>7, <1>10, CallsKeep DEF SoundInv
  <1> QED
    BY <1>3, <1>9, <1>11 DEF SoundInv

LEMMA SendSound ==
    ASSUME CorrInv, CorrInv', DispInv, Sound, SoundInv,
           NEW t \in Threads, NEW op \in Operations, Send(t, op)
    PROVE  SoundInv'
  <1>1. /\ call \in [Threads -> CallType] /\ seen \in [Threads -> Nat]
        /\ nextId \in Nat \ {0} /\ process
    BY DEF CorrInv, TypeInv, TypeOK, Sound
  <1>2. /\ call'[t] = [at |-> "send", op |-> op, id |-> nextId, session |-> session]
        /\ \A u \in Threads : u # t => call'[u] = call[u] /\ seen'[u] = seen[u]
        /\ seen'[t] = 0
        /\ nextId' = nextId + 1 /\ session' = session /\ process' = process
        /\ UNCHANGED <<records, stdout, outbox, stdin, buffer, responses, disp, hand>>
    BY <1>1 DEF Send, worker
  <1>3. OurRecords \subseteq OurRecords'
    <2>1. process' => process /\ nextId <= nextId'
      BY <1>1, <1>2
    <2>2. \A u \in Threads : Active(u)' =>
             (Active(u) /\ call'[u].id = call[u].id) \/ (process /\ call'[u].id = nextId)
      BY <1>1, <1>2 DEF Active
    <2> QED
      BY <1>2, <2>1, <2>2, OursKept DEF CorrInv
  <1>4. Named' = Named /\ InHand' = InHand
    BY <1>2, NamedStays DEF InHand
  <1>5. LineInv'
    BY <1>2, <1>3, <1>4, LineStays DEF SoundInv
  <1>6. Unheard(nextId) /\ \A q \in Held(stdin) : q.id # nextId
    <2>1. \A x \in OurRecords \cup OurRequests : x.id # nextId
      BY <1>1 DEF OurRecords, OurRequests, RecordType, RequestType, Ours
    <2> QED
      BY <2>1, LineTypes DEF SoundInv, Unheard
  <1>7. \A id : Unheard(id) => Unheard(id)'
    BY <1>2, <1>4 DEF Unheard
  <1>8. ASSUME NEW u \in Threads, call'[u].at \in {"send", "write"}
        PROVE  /\ seen'[u] = 0 /\ \A x \in Named' \cup responses' : x.id # call'[u].id
               /\ \A q \in Held(stdin) : q.id # call'[u].id
    <2>1. CASE u = t
      BY <1>2, <1>4, <1>6, <2>1 DEF Unheard
    <2>2. CASE u # t
      BY <1>2, <1>4, <1>8, <2>2 DEF SoundInv, IdsInv, Unheard
    <2> QED
      BY <2>1, <2>2
  <1>9. \A u \in Threads : call'[u].op = "messages.export" => call'[u].id \in handlers'
    <2> SUFFICES ASSUME NEW u \in Threads, call'[u].op = "messages.export"
                 PROVE  call'[u].id \in handlers'
      OBVIOUS
    <2>1. CASE u = t
      BY <1>2, <2>1 DEF Send
    <2>2. CASE u # t
      BY <1>2, <2>2 DEF SoundInv, IdsInv, Send
    <2> QED
      BY <2>1, <2>2
  <1>10. IdsInv'
    <2>1. \A q \in Held(stdin') : q.id # 0 /\ Unheard(q.id)'
      BY <1>2, <1>7 DEF SoundInv, IdsInv
    <2>2. \A j, k \in DOMAIN stdin' : stdin'[j].id = stdin'[k].id => j = k
      BY <1>2 DEF SoundInv, IdsInv
    <2>3. \A u \in Threads : call'[u].at \in {"send", "write"} =>
            seen'[u] = 0 /\ Unheard(call[u].id)' /\ \A q \in Held(stdin') : q.id # call'[u].id
      BY <1>2, <1>8 DEF Unheard
    <2> QED
      BY <1>9, <2>1, <2>2, <2>3 DEF IdsInv
  <1>11. CountInv'
    <2>1. ASSUME NEW u \in Threads, Waits(u)'
          PROVE  Waits(u) /\ call'[u] = call[u] /\ seen'[u] = seen[u]
      BY <1>2, <2>1 DEF Waits
    <2>2. ASSUME NEW u \in Threads, Waits(u)', NEW x \in Named', x.id = call'[u].id
          PROVE  Counted(u, x)'
      <3>1. Counted(u, x)
        BY <1>4, <2>1, <2>2 DEF SoundInv, CountInv
      <3> QED
        BY <1>4, <2>1, <2>2, <3>1 DEF Counted, EventOf
    <2> QED
      BY <1>2, <2>1, <2>2 DEF SoundInv, CountInv
  <1> QED
    BY <1>5, <1>10, <1>11 DEF SoundInv

LEMMA WriteSound ==
    ASSUME CorrInv, CorrInv', DispInv, Sound, SoundInv, NEW t \in Threads, Write(t)
    PROVE  SoundInv'
  <1>1. /\ call \in [Threads -> CallType] /\ stdin \in Seq(RequestType)
        /\ call[t].at \in {"send", "write"} /\ Active(t)
    BY DEF CorrInv, TypeInv, TypeOK, Write, AtWrite, Active
  <1>2. /\ stdin' = Append(stdin, Request(t)) /\ seen' = seen /\ handlers' = handlers
        /\ session' = session /\ nextId' = nextId /\ process' = process
        /\ UNCHANGED <<records, stdout, outbox, buffer, responses, hand>>
    BY DEF Write, queues
  <1>3. /\ call[t] \in [at : {"send", "write", "wait"}, op : Operations, id : Nat, session : Nat]
        /\ call[t].id \in Nat /\ call[t].op \in Operations /\ call[t].session \in Nat
    <2>1. call[t] \in CallType /\ call[t] # Nobody
      BY <1>1 DEF Nobody
    <2> QED
      BY <2>1 DEF CallType
  <1>4. /\ Request(t) \in RequestType /\ Request(t).id = call[t].id
        /\ Request(t).op = call[t].op /\ call[t].id # 0
    <2>1. call[t].id # 0
      BY <1>1 DEF CorrInv, CallsInv
    <2> QED
      BY <1>3, <2>1 DEF Request, RequestType
  <1>5. /\ \A u \in Threads : u # t => call'[u] = call[u]
        /\ \/ call'[t] = Nobody
           \/ call'[t].at = "wait" /\ call'[t].id = call[t].id /\ call'[t].op = call[t].op
    <2>1. CASE t = Dispatcher
      BY <1>1, <2>1 DEF Write, Written, Returns
    <2>2. CASE t # Dispatcher
      <3>1. call' = [call EXCEPT ![t].at = "wait"]
        BY <2>2 DEF Write, Written
      <3>2. /\ call'[t] = [call[t] EXCEPT !.at = "wait"]
            /\ \A u \in Threads : u # t => call'[u] = call[u]
        BY <1>1, <3>1
      <3>3. call'[t].at = "wait" /\ call'[t].id = call[t].id /\ call'[t].op = call[t].op
        BY <1>3, <3>2
      <3> QED
        BY <3>2, <3>3
    <2> QED
      BY <2>1, <2>2
  <1>6. disp' = "call" <=> disp = "call"
    BY <1>1 DEF Write, Written, Returns, DispInv
  <1>7. InHand' = InHand /\ Named' = Named
    BY <1>2, <1>6, NamedStays DEF InHand
  <1>8. OurRecords \subseteq OurRecords'
    <2>1. process' => process /\ nextId <= nextId'
      BY <1>2 DEF CorrInv, TypeInv, TypeOK
    <2>2. \A u \in Threads : Active(u)' => Active(u) /\ call'[u].id = call[u].id
      BY <1>1, <1>5 DEF Active, Nobody
    <2> QED
      BY <1>2, <2>1, <2>2, OursKept DEF CorrInv
  <1>9. LineInv'
    BY <1>2, <1>6, <1>7, <1>8, LineStays DEF SoundInv
  <1>10. /\ Held(stdin') = Held(stdin) \cup {Request(t)}
         /\ Len(stdin) \in Nat /\ DOMAIN stdin = 1..Len(stdin)
         /\ DOMAIN stdin' = 1..(Len(stdin) + 1)
         /\ \A j \in 1..Len(stdin) : stdin'[j] = stdin[j]
         /\ stdin'[Len(stdin) + 1] = Request(t)
    BY <1>1, <1>2, <1>4, AppendHeld
  <1>11. Unheard(call[t].id) /\ \A q \in Held(stdin) : q.id # call[t].id
    BY <1>1 DEF SoundInv, IdsInv
  <1>12. \A id : Unheard(id) => \A x \in Named' \cup responses' : x.id # id
    BY <1>2, <1>7 DEF Unheard
  <1>13. ASSUME NEW u \in Threads, u # t, Active(u)
         PROVE  call[u].id # call[t].id
    BY <1>1, <1>13 DEF CorrInv, CallsInv
  <1>14. IdsInv'
    <2>1. \A q \in Held(stdin') : q.id # 0 /\ Unheard(q.id)'
      BY <1>4, <1>10, <1>11, <1>12 DEF SoundInv, IdsInv, Unheard
    <2>2. ASSUME NEW j \in DOMAIN stdin', NEW k \in DOMAIN stdin', stdin'[j].id = stdin'[k].id
          PROVE  j = k
      <3>1. \A i \in 1..Len(stdin) : stdin'[i].id = stdin[i].id /\ stdin[i].id # call[t].id
        BY <1>10, <1>11 DEF Held
      <3>2. stdin'[Len(stdin) + 1].id = call[t].id
        BY <1>4, <1>10
      <3>3. CASE j \in 1..Len(stdin) /\ k \in 1..Len(stdin)
        BY <1>10, <2>2, <3>1, <3>3 DEF SoundInv, IdsInv
      <3>4. CASE ~(j \in 1..Len(stdin) /\ k \in 1..Len(stdin))
        BY <1>10, <2>2, <3>1, <3>2, <3>4
      <3> QED
        BY <3>3, <3>4
    <2>3. ASSUME NEW u \in Threads, call'[u].at \in {"send", "write"}
          PROVE  /\ seen'[u] = 0 /\ \A x \in Named' \cup responses' : x.id # call'[u].id
                 /\ \A q \in Held(stdin') : q.id # call'[u].id
      <3>1. u # t /\ call'[u] = call[u] /\ Active(u)
        BY <1>5, <2>3 DEF Active, Nobody
      <3>2. call[u].id # call[t].id
        BY <1>13, <3>1
      <3>3. seen[u] = 0 /\ Unheard(call[u].id) /\ \A q \in Held(stdin) : q.id # call[u].id
        BY <2>3, <3>1 DEF SoundInv, IdsInv
      <3> QED
        BY <1>2, <1>4, <1>10, <1>12, <3>1, <3>2, <3>3
    <2>4. \A u \in Threads : call'[u].op = "messages.export" => call'[u].id \in handlers'
      BY <1>2, <1>5 DEF SoundInv, IdsInv, Nobody
    <2>5. \A u \in Threads : call'[u].at \in {"send", "write"} =>
            seen'[u] = 0 /\ Unheard(call[u].id)' /\ \A q \in Held(stdin') : q.id # call'[u].id
      BY <2>3 DEF Unheard
    <2> QED
      BY <2>1, <2>2, <2>4, <2>5 DEF IdsInv
  <1>15. ASSUME NEW u \in Threads, Waits(u)'
         PROVE  /\ \A q \in Held(stdin') :
                     q.id = call'[u].id => seen'[u] = 0 /\ q.op = call'[u].op
                /\ \A x \in Named' : x.id = call'[u].id => Counted(u, x)'
                /\ \A r \in responses' : r.id = call'[u].id => seen'[u] = r.n
    <2>1. CASE u = t
      <3>1. call'[u].id = call[t].id /\ call'[u].op = call[t].op
        BY <1>5, <1>15, <2>1 DEF Waits, Nobody
      <3>2. seen[t] = 0
        BY <1>1 DEF SoundInv, IdsInv
      <3> QED
        BY <1>2, <1>4, <1>10, <1>11, <1>12, <2>1, <3>1, <3>2
    <2>2. CASE u # t
      <3>1. Waits(u) /\ call'[u] = call[u] /\ seen'[u] = seen[u] /\ Active(u)
        BY <1>2, <1>5, <1>15, <2>2 DEF Waits, Active
      <3>2. call[u].id # call[t].id
        BY <1>13, <2>2, <3>1
      <3>3. \A q \in Held(stdin') : q.id = call'[u].id => seen'[u] = 0 /\ q.op = call'[u].op
        BY <1>4, <1>10, <3>1, <3>2 DEF SoundInv, CountInv
      <3>4. ASSUME NEW x \in Named', x.id = call'[u].id
            PROVE  Counted(u, x)'
        <4>1. Counted(u, x)
          BY <1>7, <3>1, <3>4 DEF SoundInv, CountInv
        <4> QED
          BY <1>7, <3>1, <4>1 DEF Counted, EventOf
      <3>5. \A r \in responses' : r.id = call'[u].id => seen'[u] = r.n
        BY <1>2, <3>1 DEF SoundInv, CountInv
      <3> QED
        BY <3>3, <3>4, <3>5
    <2> QED
      BY <2>1, <2>2
  <1>16. CountInv'
    BY <1>15 DEF CountInv
  <1> QED
    BY <1>9, <1>14, <1>16 DEF SoundInv

LEMMA RequestingSound ==
    ASSUME CorrInv, CorrInv', DispInv, Sound, Sound', SoundInv,
           NEW t \in Threads, Requesting(t)
    PROVE  SoundInv'
  <1>1. CASE SendTooLarge(t)
    <2>1. /\ Active(t) /\ Returns(t, FALSE) /\ handlers \ {call[t].id} \subseteq handlers'
          /\ UNCHANGED <<worker, session, nextId, buffer, records, seen, hand>>
          /\ responses' \subseteq responses
      BY <1>1 DEF SendTooLarge, Active
    <2> QED
      BY <2>1, GoneSound
  <1>2. CASE WriteBlocks(t)
    <2>1. /\ UNCHANGED <<stdin, seen, handlers, responses, session, nextId, records, stdout,
                         outbox, buffer, disp, hand>>
          /\ call[t].at = "send" /\ call' = [call EXCEPT ![t].at = "write"]
      BY <1>2 DEF WriteBlocks, worker, queues
    <2>2. call \in [Threads -> CallType]
      BY DEF CorrInv, TypeInv, TypeOK
    <2>3. call[t] \in [at : {"send", "write", "wait"}, op : Operations, id : Nat, session : Nat]
      <3>1. call[t] \in CallType /\ call[t] # Nobody
        BY <2>1, <2>2 DEF Nobody
      <3> QED
        BY <3>1 DEF CallType
    <2>4. /\ \A u \in Threads : u # t => call'[u] = call[u]
          /\ call'[t] = [call[t] EXCEPT !.at = "write"]
      BY <2>1, <2>2
    <2>5. /\ call'[t].at = "write" /\ call'[t].id = call[t].id /\ call'[t].op = call[t].op
          /\ call'[t].session = call[t].session
      BY <2>3, <2>4
    <2>6. CallsKept
      BY <2>1, <2>4, <2>5 DEF CallsKept
    <2>7. OurRecords \subseteq OurRecords'
      BY <2>1, <2>6, HandKept
    <2>8. InHand' = InHand /\ Named' = Named
      BY <2>1, NamedStays DEF InHand
    <2>9. LineInv'
      BY <2>1, <2>7, <2>8, LineStays DEF SoundInv
    <2>10. \A u \in Threads : call'[u].op = "messages.export" => call'[u].id \in handlers'
      BY <2>1, <2>4, <2>5 DEF SoundInv, IdsInv
    <2>11. IdsInv' /\ CountInv'
      BY <2>1, <2>6, <2>8, <2>10, CallsKeep DEF SoundInv
    <2> QED
      BY <2>9, <2>11 DEF SoundInv
  <1>3. CASE Write(t)
    BY <1>3, WriteSound
  <1>4. CASE WriteFails(t)
    BY <1>4 DEF WriteFails, Fail, Sound
  <1>5. CASE TakeResponse(t)
    <2>1. PICK r \in Answers(t) : responses' = responses \ {r} /\ Returns(t, r.type = "response")
      BY <1>5 DEF TakeResponse
    <2>2. /\ Active(t) /\ handlers \ {call[t].id} \subseteq handlers'
          /\ UNCHANGED <<worker, session, nextId, buffer, records, seen, hand>>
          /\ responses' \subseteq responses /\ (r.type = "response") \in BOOLEAN
      BY <1>5, <2>1 DEF TakeResponse, Active
    <2> QED
      BY <2>1, <2>2, GoneSound
  <1>6. CASE GiveUp(t)
    <2>1. /\ Active(t) /\ Returns(t, FALSE) /\ handlers \ {call[t].id} \subseteq handlers'
          /\ UNCHANGED <<worker, session, nextId, buffer, records, seen, hand>>
          /\ responses' \subseteq responses
      BY <1>6 DEF GiveUp, queues, Active
    <2> QED
      BY <2>1, GoneSound
  <1>7. CASE TimesOut(t)
    <2>1. /\ Active(t) /\ Returns(t, FALSE) /\ handlers \ {call[t].id} \subseteq handlers'
          /\ UNCHANGED <<worker, session, nextId, buffer, records, seen, hand>>
          /\ responses' \subseteq responses
      BY <1>7 DEF TimesOut, Active
    <2> QED
      BY <2>1, GoneSound
  <1> QED
    BY <1>1, <1>2, <1>3, <1>4, <1>5, <1>6, <1>7 DEF Requesting

(***************************************************************************)
(* What moves along the line.                                              *)
(***************************************************************************)
LEMMA AheadOf ==
    ASSUME NEW S, NEW T, NEW S2, NEW T2, Ahead(S, T),
           S2 \subseteq S, T2 \subseteq T
    PROVE  Ahead(S2, T2)
  BY DEF Ahead

\* Nothing is asked or answered: the requests and their counts stay.
Quiet ==
    /\ UNCHANGED <<call, handlers, stdin, responses>>
    /\ \A t \in Threads : Active(t) => seen'[t] = seen[t]

\* Nothing is asked or answered that was not there.
Shrinks ==
    /\ call' = call /\ Held(stdin') \subseteq Held(stdin)
    /\ Named' \subseteq Named /\ responses' \subseteq responses \cup Named

LEMMA QuietSound ==
    ASSUME IdsInv, CountInv, Quiet, Named' = Named
    PROVE  IdsInv' /\ CountInv'
  <1>1. CallsKept
    BY DEF CallsKept, Quiet
  <1>2. \A t \in Threads : call'[t].op = "messages.export" => call'[t].id \in handlers'
    BY DEF Quiet, IdsInv
  <1> QED
    BY <1>1, <1>2, CallsKeep DEF Quiet

\* What LineInv says beside the order.
LEMMA LineFrom ==
    ASSUME LineInv, OurRecords \subseteq OurRecords', Named' \subseteq Named,
           responses' = responses, buffer' = <<>>,
           disp' = "call" => hand' \in OurRecords',
           Chain(InHand, records, stdout, outbox)',
           \A x \in Held(records)' \cup Held(stdout)' \cup Held(outbox)' :
             Terminal(x) => x.id # 0
    PROVE  LineInv'
  <1>1. Ahead(responses, Named)'
    BY AheadOf DEF LineInv
  <1>2. /\ \A r, q \in responses' : r.id = q.id => r = q
        /\ \A r \in responses' : Terminal(r) /\ r.id # 0
    BY DEF LineInv
  <1>3. \A x \in Named' : x.type \in {"event", "response", "error"}
    BY DEF LineInv
  <1>4. \A s \in {records', stdout', outbox'} : \A x \in Held(s) : Terminal(x) => x.id # 0
    OBVIOUS
  <1> QED
    BY <1>1, <1>2, <1>3, <1>4 DEF LineInv

LEMMA CallsSame ==
    ASSUME CorrInv, CorrInv', Sound, session' = session, nextId' = nextId, call' = call
    PROVE  OurRecords \subseteq OurRecords'
  <1>1. CallsKept
    BY DEF CallsKept
  <1> QED
    BY <1>1, HandKept

LEMMA WritesSound ==
    ASSUME CorrInv, CorrInv', Sound, SoundInv, WorkerWrites
    PROVE  SoundInv' /\ Shrinks
  <1>1. /\ outbox # <<>> /\ stdout' = Append(stdout, Head(outbox)) /\ outbox' = Tail(outbox)
        /\ Quiet /\ UNCHANGED <<session, nextId, buffer, records, disp, hand>>
    BY DEF WorkerWrites, ClientSide, queues, Quiet
  <1>2. InHand' = InHand /\ OurRecords \subseteq OurRecords'
    BY <1>1, CallsSame DEF InHand, Quiet
  <1>3. Moves(stdout, outbox, stdout', outbox', 1)
    BY <1>1, HeadMoves, LineTypes DEF SoundInv
  <1>4. /\ Held(stdout') \cup Held(outbox') = Held(stdout) \cup Held(outbox)
        /\ Held(outbox') \subseteq Held(outbox)
    BY <1>3, MovesHeld
  <1>5. Sorted(stdout') /\ Sorted(outbox') /\ Ahead(Held(stdout'), Held(outbox'))
    BY <1>3, MovesSorted DEF SoundInv, LineInv, Chain
  <1>6. Named' = Named
    BY <1>1, <1>2, <1>4 DEF Named
  <1>7. Chain(InHand, records, stdout, outbox)'
    <2>1. \A S : Ahead(S, Held(stdout)) /\ Ahead(S, Held(outbox)) =>
                   Ahead(S, Held(stdout')) /\ Ahead(S, Held(outbox'))
      BY <1>4 DEF Ahead
    <2> QED
      BY <1>1, <1>2, <1>5, <2>1 DEF SoundInv, LineInv, Chain
  <1>8. LineInv'
    <2>1. \A x \in Held(records)' \cup Held(stdout)' \cup Held(outbox)' :
             Terminal(x) => x.id # 0
      BY <1>1, <1>4 DEF SoundInv, LineInv
    <2>2. buffer' = <<>> /\ responses' = responses /\ (disp' = "call" => hand' \in OurRecords')
      BY <1>1, <1>2 DEF SoundInv, LineInv, Quiet
    <2> QED
      BY <1>2, <1>6, <1>7, <2>1, <2>2, LineFrom DEF SoundInv
  <1> QED
    BY <1>1, <1>6, <1>8, QuietSound DEF SoundInv, Shrinks, Quiet

LEMMA ReadsSound ==
    ASSUME CorrInv, CorrInv', Sound, Sound', SoundInv, Reads
    PROVE  SoundInv' /\ Shrinks
  <1>1. PICK count \in 1..StdoutRoom : OnStdout(count)
    BY DEF Reads
  <1>2. PICK all : all = buffer \o SubSeq(stdout, 1, count)
    OBVIOUS
  <1>3. PICK lost \in 1..(Len(all) + 1) :
           /\ records' = records \o SubSeq(all, 1, lost - 1)
           /\ buffer' = SubSeq(all, lost + 1, Len(all))
           /\ failed' = (failed \/ lost <= Len(all))
    BY <1>1, <1>2 DEF OnStdout, LossFails
  <1>4. /\ count \in 1..Len(stdout) /\ stdout' = SubSeq(stdout, count + 1, Len(stdout))
        /\ Quiet /\ UNCHANGED <<session, nextId, outbox, disp, hand>>
    BY <1>1 DEF OnStdout, Quiet
  <1>5. records \in Seq(OurRecords) /\ stdout \in Seq(OurRecords) /\ outbox \in Seq(OurRecords)
    BY LineTypes DEF SoundInv
  <1>6. /\ Len(stdout) \in Nat
        /\ SubSeq(stdout, 1, count) \in Seq(OurRecords)
        /\ Len(SubSeq(stdout, 1, count)) = count
    <2>1. Len(stdout) \in Nat /\ \A i \in 1..Len(stdout) : stdout[i] \in OurRecords
      BY <1>5, SeqFacts
    <2> QED
      BY <1>4, <2>1, SubSeqProperties
  <1>7. all = SubSeq(stdout, 1, count) /\ Len(all) = count
    <2>1. buffer = <<>>
      BY DEF SoundInv, LineInv
    <2>2. <<>> \o SubSeq(stdout, 1, count) = SubSeq(stdout, 1, count)
      BY <1>6, ConcatEmptySeq
    <2> QED
      BY <1>2, <1>6, <2>1, <2>2
  <1>8. lost = count + 1 /\ lost - 1 = count
    <2>1. ~(lost <= Len(all))
      BY <1>3 DEF Sound
    <2> QED
      BY <1>3, <1>4, <1>6, <1>7, <2>1
  <1>9. SubSeq(all, 1, count) = SubSeq(stdout, 1, count)
    <2>1. /\ SubSeq(all, 1, count) \in Seq(OurRecords) /\ Len(SubSeq(all, 1, count)) = count
          /\ \A i \in 1..count : SubSeq(all, 1, count)[i] = all[1 + i - 1]
      <3>1. \A i \in 1..count : all[i] \in OurRecords
        BY <1>6, <1>7, SeqFacts
      <3> QED
        BY <1>4, <1>6, <3>1, SubSeqProperties
    <2>2. \A i \in 1..count : SubSeq(all, 1, count)[i] = all[i]
      BY <2>1
    <2> QED
      BY <1>6, <1>7, <2>1, <2>2, SeqEqual
  <1>10. buffer' = <<>>
    <2>1. Len(all) < lost + 1 /\ lost + 1 \in Int /\ Len(all) \in Int
      BY <1>4, <1>6, <1>7, <1>8
    <2> QED
      BY <1>3, <2>1, SubSeqEmpty
  <1>11. Moves(records, stdout, records', stdout', count)
    BY <1>3, <1>4, <1>5, <1>8, <1>9, PrefixMoves
  <1>12. /\ Held(records') \cup Held(stdout') = Held(records) \cup Held(stdout)
         /\ Held(stdout') \subseteq Held(stdout)
    BY <1>11, MovesHeld
  <1>13. Sorted(records') /\ Sorted(stdout') /\ Ahead(Held(records'), Held(stdout'))
    BY <1>11, MovesSorted DEF SoundInv, LineInv, Chain
  <1>14. InHand' = InHand /\ OurRecords \subseteq OurRecords'
    BY <1>4, CallsSame DEF InHand, Quiet
  <1>15. Named' = Named
    BY <1>4, <1>12, <1>14 DEF Named
  <1>16. Chain(InHand, records, stdout, outbox)'
    <2>1. \A S : Ahead(S, Held(records)) /\ Ahead(S, Held(stdout)) =>
                   Ahead(S, Held(records')) /\ Ahead(S, Held(stdout'))
      BY <1>12 DEF Ahead
    <2>2. \A S : Ahead(Held(records), S) /\ Ahead(Held(stdout), S) =>
                   Ahead(Held(records'), S) /\ Ahead(Held(stdout'), S)
      BY <1>12 DEF Ahead
    <2> QED
      BY <1>4, <1>13, <1>14, <2>1, <2>2 DEF SoundInv, LineInv, Chain
  <1>17. LineInv'
    <2>1. \A x \in Held(records)' \cup Held(stdout)' \cup Held(outbox)' :
             Terminal(x) => x.id # 0
      BY <1>4, <1>12 DEF SoundInv, LineInv
    <2>2. responses' = responses /\ (disp' = "call" => hand' \in OurRecords')
      BY <1>4, <1>14 DEF SoundInv, LineInv, Quiet
    <2> QED
      BY <1>10, <1>14, <1>15, <1>16, <2>1, <2>2, LineFrom DEF SoundInv
  <1> QED
    BY <1>4, <1>15, <1>17, QuietSound DEF SoundInv, Shrinks, Quiet

\* A live event, garbage, or a fatal error: none of them has a request.
LEMMA UnaskedSound ==
    ASSUME CorrInv, CorrInv', Sound, SoundInv, WorkerLive \/ WorkerBabbles \/ WorkerFatal
    PROVE  SoundInv' /\ Shrinks
  <1>1. Quiet /\ UNCHANGED <<session, nextId, buffer, records, disp, hand>>
    BY DEF WorkerLive, WorkerBabbles, WorkerFatal, ClientSide, queues, Quiet
  <1>2. InHand' = InHand /\ OurRecords \subseteq OurRecords'
    BY <1>1, CallsSame DEF InHand, Quiet
  <1>3. /\ Sorted(stdout') /\ Sorted(outbox')
        /\ \E X : /\ Held(stdout') \cup Held(outbox') = Held(stdout) \cup Held(outbox) \cup X
                  /\ Held(stdout') \subseteq Held(stdout) \cup X
                  /\ Held(outbox') \subseteq Held(outbox) \cup X
                  /\ \A x \in X : x.id = 0 /\ ~Terminal(x)
    <2>1. CASE WorkerLive \/ WorkerBabbles
      <3>1. PICK type \in {"live", "garbage"} : stdout' = Append(stdout, Record(type, 0, Owner, 0))
        BY <2>1 DEF WorkerLive, WorkerBabbles
      <3> DEFINE x == Record(type, 0, Owner, 0)
      <3>2. x.id = 0 /\ x.type = type
        BY DEF Record
      <3>3. ~Terminal(x)
        BY <3>1, <3>2 DEF Terminal
      <3> HIDE DEF x
      <3>4. stdout \in Seq(OurRecords \cup {x})
        <4>1. stdout \in Seq(OurRecords)
          BY LineTypes DEF SoundInv
        <4> QED
          BY <4>1, SeqMonotonic
      <3>5. Ahead(Held(stdout), {x})
        BY <3>2 DEF Ahead, Before
      <3>6. stdout' = Append(stdout, x)
        BY <3>1 DEF x
      <3>7. Sorted(stdout') /\ Held(stdout') = Held(stdout) \cup {x}
        BY <3>4, <3>5, <3>6, AppendSorted, AppendHeld DEF SoundInv, LineInv, Chain
      <3>8. outbox' = outbox
        BY <2>1 DEF WorkerLive, WorkerBabbles
      <3>9. /\ Held(stdout') \cup Held(outbox') = Held(stdout) \cup Held(outbox) \cup {x}
            /\ Held(stdout') \subseteq Held(stdout) \cup {x}
            /\ Held(outbox') \subseteq Held(outbox) \cup {x}
        BY <3>7, <3>8
      <3>10. Sorted(stdout') /\ Sorted(outbox')
        BY <3>7, <3>8 DEF SoundInv, LineInv, Chain
      <3>11. \A y \in {x} : y.id = 0 /\ ~Terminal(y)
        BY <3>2, <3>3
      <3>12. \E X : X = {x}
        OBVIOUS
      <3> QED
        BY <3>9, <3>10, <3>11, <3>12, Zenon
    <2>2. CASE WorkerFatal
      <3> DEFINE x == Record("fatal", 0, Owner, 0)
      <3>1. outbox' = <<x, Exit>> /\ outbox = <<>> /\ stdout' = stdout
        BY <2>2 DEF WorkerFatal, Idle
      <3>2. x.id = 0 /\ ~Terminal(x) /\ Exit.id = 0 /\ ~Terminal(Exit)
        BY DEF Record, Exit, NoRecord, Terminal
      <3> HIDE DEF x
      <3>3. Held(outbox') = {x, Exit} /\ Held(outbox) = {}
        BY <3>1, EmptyList DEF Held
      <3>4. Sorted(outbox')
        BY <3>1, <3>2 DEF Sorted, Before
      <3> QED
        BY <3>1, <3>2, <3>3, <3>4 DEF SoundInv, LineInv, Chain
    <2> QED
      BY <2>1, <2>2
  <1>4. PICK X : /\ Held(stdout') \cup Held(outbox') = Held(stdout) \cup Held(outbox) \cup X
                 /\ Held(stdout') \subseteq Held(stdout) \cup X
                 /\ Held(outbox') \subseteq Held(outbox) \cup X
                 /\ \A x \in X : x.id = 0 /\ ~Terminal(x)
    BY <1>3
  <1>5. Named' = Named
    BY <1>1, <1>2, <1>4 DEF Named
  <1>6. Chain(InHand, records, stdout, outbox)'
    <2>1. \A S : Ahead(S, X) /\ Ahead(X, S)
      BY <1>4 DEF Ahead, Before
    <2>2. ASSUME NEW S, NEW T, NEW U, Ahead(S, T), U \subseteq T \cup X
          PROVE  Ahead(S, U)
      BY ONLY <2>1, <2>2 DEF Ahead
    <2>3. ASSUME NEW S, NEW T, NEW U, Ahead(S, T), U \subseteq S \cup X
          PROVE  Ahead(U, T)
      BY ONLY <2>1, <2>3 DEF Ahead
    <2>4. Ahead(Held(stdout'), Held(outbox'))
      <3>1. Ahead(Held(stdout), Held(outbox))
        BY DEF SoundInv, LineInv, Chain
      <3>2. Ahead(Held(stdout), Held(outbox'))
        BY <1>4, <2>2, <3>1
      <3> QED
        BY <1>4, <2>3, <3>2
    <2>5. /\ Ahead(Held(InHand), Held(stdout')) /\ Ahead(Held(InHand), Held(outbox'))
          /\ Ahead(Held(records), Held(stdout')) /\ Ahead(Held(records), Held(outbox'))
      BY <1>4, <2>2 DEF SoundInv, LineInv, Chain
    <2> QED
      BY <1>1, <1>2, <1>3, <2>4, <2>5 DEF SoundInv, LineInv, Chain
  <1>7. LineInv'
    <2>1. \A x \in Held(records)' \cup Held(stdout)' \cup Held(outbox)' :
             Terminal(x) => x.id # 0
      BY <1>1, <1>4 DEF SoundInv, LineInv
    <2>2. /\ buffer' = <<>> /\ responses' = responses
          /\ disp' = "call" => hand' \in OurRecords'
      BY <1>1, <1>2 DEF SoundInv, LineInv, Quiet
    <2> QED
      BY <1>2, <1>5, <1>6, <2>1, <2>2, LineFrom DEF SoundInv
  <1> QED
    BY <1>1, <1>5, <1>7, QuietSound DEF SoundInv, Shrinks, Quiet

\* The line stays, or the worker is gone, and with it what it had not read or
\* not written.
LEMMA ExitsSound ==
    ASSUME CorrInv, CorrInv', Sound, SoundInv,
           stdin' \in {stdin, <<>>}, outbox' \in {outbox, <<>>},
           UNCHANGED <<records, stdout, buffer, responses, handlers, call, seen, session,
                       nextId, hand>>,
           disp' = disp \/ {disp, disp'} \subseteq {"none", "run", "ended"}
    PROVE  SoundInv' /\ Shrinks
  <1>1. /\ InHand' = InHand /\ OurRecords \subseteq OurRecords'
        /\ disp' = "call" => disp = "call"
    BY CallsSame DEF InHand
  <1>2. /\ Held(outbox') \subseteq Held(outbox) /\ Sorted(outbox')
        /\ Held(stdin') \subseteq Held(stdin)
    BY EmptyList DEF SoundInv, LineInv, Chain
  <1>3. Named' \subseteq Named
    BY <1>1, <1>2 DEF Named
  <1>4. Chain(InHand, records, stdout, outbox)'
    <2>1. \A S : Ahead(S, Held(outbox)) => Ahead(S, Held(outbox'))
      BY <1>2 DEF Ahead
    <2> QED
      BY <1>1, <1>2, <2>1 DEF SoundInv, LineInv, Chain
  <1>5. LineInv'
    <2>1. \A x \in Held(records)' \cup Held(stdout)' \cup Held(outbox)' :
             Terminal(x) => x.id # 0
      BY <1>2 DEF SoundInv, LineInv
    <2>2. /\ buffer' = <<>> /\ responses' = responses
          /\ disp' = "call" => hand' \in OurRecords'
      BY <1>1 DEF SoundInv, LineInv
    <2> QED
      BY <1>1, <1>3, <1>4, <2>1, <2>2, LineFrom DEF SoundInv
  <1>6. IdsInv'
    <2>1. \A id : Unheard(id) => Unheard(id)'
      BY <1>3 DEF Unheard
    <2>2. \A j, k \in DOMAIN stdin' : stdin'[j].id = stdin'[k].id => j = k
      BY DEF SoundInv, IdsInv
    <2>3. \A t \in Threads : call'[t].at \in {"send", "write"} =>
            seen'[t] = 0 /\ Unheard(call[t].id)' /\ \A q \in Held(stdin') : q.id # call'[t].id
      <3> SUFFICES ASSUME NEW t \in Threads, call[t].at \in {"send", "write"}
                   PROVE  seen[t] = 0 /\ Unheard(call[t].id)'
                          /\ \A q \in Held(stdin') : q.id # call[t].id
        OBVIOUS
      <3>1. seen[t] = 0 /\ Unheard(call[t].id) /\ \A q \in Held(stdin) : q.id # call[t].id
        BY DEF SoundInv, IdsInv
      <3>2. Unheard(call[t].id)'
        BY <1>3, <3>1 DEF Unheard
      <3> QED
        BY <1>2, <3>1, <3>2
    <2> QED
      BY <1>2, <2>1, <2>2, <2>3 DEF SoundInv, IdsInv
  <1>7. \A x \in Named', y \in Named : y \notin Named' => Before(x, y)
    BY <1>1, <1>2, EmptyList DEF SoundInv, LineInv, Chain, Named, Ahead
  <1>8. ASSUME NEW t \in Threads, Waits(t), NEW x \in Named', x.id = call[t].id
        PROVE  Counted(t, x)'
    <2>1. Counted(t, x)
      BY <1>3, <1>8 DEF SoundInv, CountInv
    <2>2. ASSUME NEW n \in Nat, seen[t] < n, n < x.n \/ (n = x.n /\ Terminal(x))
          PROVE  EventOf(call[t].id, n)'
      <3>1. PICK y \in Named : y.id = call[t].id /\ y.type = "event" /\ y.n = n
        BY <2>1, <2>2 DEF Counted, EventOf
      <3>2. ASSUME y \notin Named' PROVE FALSE
        <4>1. x.id # 0 /\ Before(x, y)
          BY <1>7, <3>2 DEF Named
        <4>2. x.type = "event" /\ (x.n < n \/ (x.n = n /\ Terminal(y)))
          BY <1>8, <3>1, <4>1 DEF Before
        <4>3. ~Terminal(y) /\ ~Terminal(x)
          BY <3>1, <4>2 DEF Terminal
        <4>4. x.n \in Nat
          BY <1>3, LineTypes DEF SoundInv
        <4> QED
          BY <2>2, <4>2, <4>3, <4>4
      <3> QED
        BY <3>1, <3>2 DEF EventOf
    <2> QED
      BY <2>1, <2>2 DEF Counted
  <1>9. CountInv'
    <2>1. \A t \in Threads : Waits(t)' <=> Waits(t)
      BY DEF Waits
    <2> QED
      BY <1>2, <1>8, <2>1 DEF SoundInv, CountInv
  <1> QED
    BY <1>2, <1>3, <1>5, <1>6, <1>9 DEF SoundInv, Shrinks

\* The worker's answer: the events in their order, the terminal record behind.
Heard(q, x, events) ==
    x.id = q.id /\ x.by = q.by /\ \/ x.type = "event" /\ x.n \in 1..events
                                  \/ Terminal(x) /\ x.n = events

LEMMA AnswerFacts ==
    ASSUME NEW q \in OurRequests, NEW events \in Nat, NEW type \in {"response", "error"},
           NEW a, a = AnswerTo(q, events, type)
    PROVE  /\ Sorted(a)
           /\ \A x \in Held(a) : Heard(q, x, events) \/ (x.id = 0 /\ ~Terminal(x))
           /\ \A n \in 1..events : \E x \in Held(a) : x.id = q.id /\ x.type = "event" /\ x.n = n
  <1> DEFINE ev(n) == [type |-> "event", id |-> q.id, session |-> q.session, by |-> q.by, n |-> n]
             last == [type |-> type, id |-> q.id, session |-> q.session, by |-> q.by,
                      n |-> events]
             heard == [k \in 1..events |-> ev(k)]
             S == {ev(n) : n \in 1..events} \cup {last, Exit}
  <1>1. /\ last.id = q.id /\ last.by = q.by /\ last.type = type /\ last.n = events
        /\ Exit.id = 0 /\ ~Terminal(Exit) /\ Terminal(last)
        /\ \A n : ev(n).id = q.id /\ ev(n).by = q.by /\ ev(n).type = "event" /\ ev(n).n = n
    BY DEF Exit, NoRecord, Terminal
  <1>2. heard \in Seq(S) /\ DOMAIN heard = 1..events /\ \A k \in 1..events : heard[k] = ev(k)
    <2>1. heard \in [1..events -> S]
      OBVIOUS
    <2> QED
      BY <2>1, SeqDef
  <1>3. last \in S /\ Exit \in S
    OBVIOUS
  <1>4. a = heard \o <<last>> \o IF q.op = "shutdown" THEN <<Exit>> ELSE <<>>
    BY DEF AnswerTo
  <1> HIDE DEF ev, last, heard, S
  <1>5. Append(heard, last) \in Seq(S) /\ heard \o <<last>> = Append(heard, last)
    BY <1>2, <1>3, AppendIsConcat, AppendProperties
  <1>6. a = IF q.op = "shutdown" THEN Append(Append(heard, last), Exit) ELSE Append(heard, last)
    <2>1. Append(heard, last) \o <<Exit>> = Append(Append(heard, last), Exit)
      BY <1>3, <1>5, AppendIsConcat
    <2>2. Append(heard, last) \o <<>> = Append(heard, last)
      BY <1>5, ConcatEmptySeq
    <2> QED
      BY <1>4, <1>5, <2>1, <2>2
  <1>7. Held(heard) = {ev(n) : n \in 1..events}
    BY <1>2 DEF Held
  <1>8. Sorted(heard)
    <2> SUFFICES ASSUME NEW j \in 1..events, NEW k \in 1..events, j < k
                 PROVE  Before(ev(j), ev(k))
      BY <1>2 DEF Sorted
    <2> QED
      BY <1>1 DEF Before
  <1>9. Ahead(Held(heard), {last})
    <2> SUFFICES ASSUME NEW n \in 1..events
                 PROVE  Before(ev(n), last)
      BY <1>7 DEF Ahead
    <2>1. n < events \/ n = events
      OBVIOUS
    <2> QED
      BY <1>1, <2>1 DEF Before
  <1>10. Sorted(Append(heard, last)) /\ Held(Append(heard, last)) = Held(heard) \cup {last}
    BY <1>2, <1>3, <1>8, <1>9, AppendHeld, AppendSorted
  <1>11. Ahead(Held(Append(heard, last)), {Exit})
    BY <1>1 DEF Ahead, Before
  <1>12. /\ Sorted(Append(Append(heard, last), Exit))
         /\ Held(Append(Append(heard, last), Exit)) = Held(heard) \cup {last, Exit}
    <2> DEFINE b == Append(heard, last)
    <2>1. b \in Seq(S) /\ Sorted(b) /\ Ahead(Held(b), {Exit}) /\ Held(b) = Held(heard) \cup {last}
      BY <1>5, <1>10, <1>11
    <2> HIDE DEF b
    <2>2. Sorted(Append(b, Exit))
      BY ONLY <1>3, <2>1, AppendSorted
    <2>3. Held(Append(b, Exit)) = Held(b) \cup {Exit}
      BY ONLY <1>3, <2>1, AppendHeld
    <2> QED
      BY <2>1, <2>2, <2>3 DEF b
  <1>13. /\ Sorted(a) /\ Held(a) \subseteq Held(heard) \cup {last, Exit}
         /\ Held(heard) \subseteq Held(a)
    BY <1>6, <1>10, <1>12
  <1>14. \A x \in Held(a) : Heard(q, x, events) \/ (x.id = 0 /\ ~Terminal(x))
    <2>1. \A n \in 1..events : Heard(q, ev(n), events)
      BY <1>1 DEF Heard
    <2>2. Heard(q, last, events)
      BY <1>1 DEF Heard
    <2> QED
      BY <1>1, <1>7, <1>13, <2>1, <2>2
  <1>15. ASSUME NEW n \in 1..events
         PROVE  \E x \in Held(a) : x.id = q.id /\ x.type = "event" /\ x.n = n
    <2>1. ev(n) \in Held(a)
      BY <1>7, <1>13
    <2> QED
      BY <1>1, <2>1
  <1> QED
    BY <1>13, <1>14, <1>15

\* The records of an answer are for the thread that asked.
Answered ==
    /\ call' = call /\ responses' = responses /\ Held(stdin') \subseteq Held(stdin)
    /\ \A x \in Named' : x \in Named \/ \E q \in Held(stdin) :
         x.id = q.id /\ x.by = q.by /\ (Terminal(x) \/ q.op = "messages.export")

LEMMA AnswersSound ==
    ASSUME CorrInv, CorrInv', Sound, SoundInv, WorkerReads
    PROVE  SoundInv' /\ Answered
  <1>1. /\ outbox = <<>> /\ stdin # <<>> /\ stdin' = Tail(stdin)
        /\ UNCHANGED <<records, stdout, buffer, responses, handlers, call, seen, session,
                       nextId, disp, hand>>
    BY DEF WorkerReads, Idle, ClientSide, queues
  <1> DEFINE q == Head(stdin)
  <1>2. PICK events \in IF q.op = "messages.export" THEN 0..MaxEvents ELSE {0},
             type \in {"response", "error"} : outbox' = AnswerTo(q, events, type)
    BY DEF WorkerReads
  <1>3. events \in Nat /\ (events > 0 => q.op = "messages.export")
    BY <1>2
  <1>4. /\ stdin \in Seq(OurRequests) /\ q \in OurRequests /\ q \in Held(stdin)
        /\ Held(stdin') \subseteq Held(stdin)
        /\ \A r \in Held(stdin') : r.id # q.id
        /\ \A j, k \in DOMAIN stdin' : stdin'[j].id = stdin'[k].id => j = k
    <2>1. stdin \in Seq(OurRequests)
      BY DEF CorrInv, QueuesInv
    <2>2. /\ Len(stdin) \in Nat /\ Len(stdin) > 0 /\ DOMAIN stdin = 1..Len(stdin)
          /\ q = stdin[1] /\ q \in OurRequests
          /\ stdin' \in Seq(OurRequests) /\ Len(stdin') = Len(stdin) - 1
          /\ \A j \in 1..(Len(stdin) - 1) : stdin'[j] = stdin[j + 1]
      BY <1>1, <2>1, SeqFacts
    <2>3. DOMAIN stdin' = 1..(Len(stdin) - 1)
      BY <2>2, SeqFacts
    <2>4. q \in Held(stdin)
      BY <2>2 DEF Held
    <2>5. \A j \in DOMAIN stdin' : j + 1 \in DOMAIN stdin /\ stdin'[j] = stdin[j + 1]
      BY <2>2, <2>3
    <2>6. Held(stdin') \subseteq Held(stdin)
      BY <2>5 DEF Held
    <2>7. \A j, k \in DOMAIN stdin : stdin[j].id = stdin[k].id => j = k
      BY DEF SoundInv, IdsInv
    <2>8. ASSUME NEW j \in DOMAIN stdin' PROVE stdin'[j].id # q.id
      BY <2>2, <2>3, <2>5, <2>7
    <2>9. ASSUME NEW j \in DOMAIN stdin', NEW k \in DOMAIN stdin', stdin'[j].id = stdin'[k].id
          PROVE  j = k
      <3>1. j + 1 = k + 1
        BY <2>5, <2>7, <2>9
      <3> QED
        BY <2>3, <3>1
    <2>10. \A r \in Held(stdin') : r.id # q.id
      BY <2>8 DEF Held
    <2> QED
      BY <2>1, <2>2, <2>4, <2>6, <2>9, <2>10
  <1> HIDE DEF q
  <1>5. /\ Sorted(outbox')
        /\ \A x \in Held(outbox') : Heard(q, x, events) \/ (x.id = 0 /\ ~Terminal(x))
        /\ \A n \in 1..events :
             \E x \in Held(outbox') : x.id = q.id /\ x.type = "event" /\ x.n = n
    BY <1>2, <1>3, <1>4, AnswerFacts
  <1>6. q.id # 0 /\ Unheard(q.id)
    BY <1>4 DEF SoundInv, IdsInv
  <1>7. InHand' = InHand /\ OurRecords \subseteq OurRecords'
    BY <1>1, CallsSame DEF InHand
  <1>8. Named' = Named \cup {x \in Held(outbox') : x.id # 0}
    BY <1>1, <1>7, EmptyList DEF Named
  <1>9. \A x \in Named' : x \in Named \/ Heard(q, x, events)
    BY <1>5, <1>8
  <1>10. ASSUME NEW x, x \in Named \cup responses \/ x.id = 0, NEW y \in Held(outbox')
         PROVE  Before(x, y)
    <2>1. x.id # q.id
      BY <1>6, <1>10 DEF Unheard
    <2>2. y.id \in {0, q.id}
      BY <1>5 DEF Heard
    <2> QED
      BY <2>1, <2>2 DEF Before
  <1>11. Chain(InHand, records, stdout, outbox)'
    <2>1. \A x \in Held(InHand) \cup Held(records) \cup Held(stdout) : x \in Named \/ x.id = 0
      BY DEF Named
    <2>2. /\ Ahead(Held(InHand), Held(outbox')) /\ Ahead(Held(records), Held(outbox'))
          /\ Ahead(Held(stdout), Held(outbox'))
      BY <1>10, <2>1 DEF Ahead
    <2> QED
      BY <1>1, <1>5, <1>7, <2>2 DEF SoundInv, LineInv, Chain
  <1>12. LineInv'
    <2>1. Ahead(responses, Named)'
      <3>1. \A x \in responses, y \in Named' : Before(x, y)
        BY <1>8, <1>10 DEF SoundInv, LineInv, Ahead
      <3> QED
        BY <1>1, <3>1 DEF Ahead
    <2>2. \A x \in Named' : x.type \in {"event", "response", "error"}
      BY <1>9 DEF SoundInv, LineInv, Heard, Terminal
    <2>3. \A s \in {records', stdout', outbox'} : \A x \in Held(s) : Terminal(x) => x.id # 0
      <3>1. \A x \in Held(outbox') : Terminal(x) => x.id # 0
        BY <1>5, <1>6 DEF Heard
      <3> QED
        BY <1>1, <3>1 DEF SoundInv, LineInv
    <2>4. /\ buffer' = <<>> /\ (disp' = "call" => hand' \in OurRecords')
          /\ \A r, p \in responses' : r.id = p.id => r = p
          /\ \A r \in responses' : Terminal(r) /\ r.id # 0
      BY <1>1, <1>7 DEF SoundInv, LineInv
    <2> QED
      BY <1>11, <2>1, <2>2, <2>3, <2>4 DEF LineInv
  <1>13. ASSUME NEW id, Unheard(id), id # q.id
         PROVE  \A x \in Named' \cup responses' : x.id # id
    BY <1>1, <1>9, <1>13 DEF Unheard, Heard
  <1>14. IdsInv'
    <2>1. \A r \in Held(stdin') : r.id # 0 /\ Unheard(r.id)'
      <3> SUFFICES ASSUME NEW r \in Held(stdin') PROVE r.id # 0 /\ Unheard(r.id)'
        OBVIOUS
      <3>1. r.id # 0 /\ Unheard(r.id) /\ r.id # q.id
        BY <1>4 DEF SoundInv, IdsInv
      <3> QED
        BY <1>13, <3>1 DEF Unheard
    <2>2. ASSUME NEW t \in Threads, call[t].at \in {"send", "write"}
          PROVE  seen[t] = 0 /\ (\A x \in Named' \cup responses' : x.id # call[t].id)
                 /\ \A r \in Held(stdin') : r.id # call[t].id
      <3>1. seen[t] = 0 /\ Unheard(call[t].id) /\ \A r \in Held(stdin) : r.id # call[t].id
        BY <2>2 DEF SoundInv, IdsInv
      <3>2. call[t].id # q.id
        BY <1>4, <3>1
      <3> QED
        BY <1>4, <1>13, <3>1, <3>2
    <2>3. \A t \in Threads : call'[t].at \in {"send", "write"} =>
            seen'[t] = 0 /\ Unheard(call[t].id)' /\ \A r \in Held(stdin') : r.id # call'[t].id
      BY <1>1, <2>2 DEF Unheard
    <2>4. \A t \in Threads : call'[t].op = "messages.export" => call'[t].id \in handlers'
      BY <1>1 DEF SoundInv, IdsInv
    <2> QED
      BY <1>4, <2>1, <2>3, <2>4 DEF IdsInv
  <1>15. ASSUME NEW t \in Threads, Waits(t), NEW x \in Named', x.id = call[t].id
         PROVE  Counted(t, x)'
    <2>1. CASE x \in Named
      <3>1. Counted(t, x)
        BY <1>15, <2>1 DEF SoundInv, CountInv
      <3>2. \A n : EventOf(call[t].id, n) => EventOf(call[t].id, n)'
        BY <1>1, <1>8 DEF EventOf
      <3> QED
        BY <1>1, <3>1, <3>2 DEF Counted
    <2>2. CASE x \notin Named
      <3>1. Heard(q, x, events) /\ call[t].id = q.id
        BY <1>9, <1>15, <2>2 DEF Heard
      <3>2. seen[t] = 0 /\ q.op = call[t].op
        BY <1>4, <1>15, <3>1 DEF SoundInv, CountInv
      <3>3. ASSUME NEW n \in 1..events PROVE EventOf(call[t].id, n)'
        <4>1. PICK y \in Held(outbox') : y.id = q.id /\ y.type = "event" /\ y.n = n
          BY <1>5
        <4>2. y \in Named'
          BY <1>6, <1>8, <4>1
        <4> QED
          BY <1>1, <3>1, <4>1, <4>2 DEF EventOf
      <3>4. x.n \in Nat /\ x.n <= events
        BY <1>3, <3>1 DEF Heard
      <3>5. x.type = "event" => 0 < x.n /\ call[t].op = "messages.export"
        BY <1>3, <3>1, <3>2 DEF Heard, Terminal
      <3>6. \A n \in Nat : 0 < n /\ (n < x.n \/ (n = x.n /\ Terminal(x))) => EventOf(call[t].id, n)'
        BY <1>3, <3>3, <3>4
      <3> QED
        BY <1>1, <3>2, <3>4, <3>5, <3>6 DEF Counted
    <2> QED
      BY <2>1, <2>2
  <1>16. CountInv'
    <2>1. \A t \in Threads : Waits(t)' <=> Waits(t)
      BY <1>1 DEF Waits
    <2> QED
      BY <1>1, <1>4, <1>15, <2>1 DEF SoundInv, CountInv
  <1>17. Answered
    <2>1. ASSUME NEW x, Heard(q, x, events)
          PROVE  x.id = q.id /\ x.by = q.by /\ (Terminal(x) \/ q.op = "messages.export")
      BY <1>3, <2>1 DEF Heard
    <2> QED
      BY <1>1, <1>4, <1>9, <2>1 DEF Answered
  <1> QED
    BY <1>12, <1>14, <1>16, <1>17 DEF SoundInv

(***************************************************************************)
(* The dispatcher.                                                         *)
(***************************************************************************)
LEMMA FrontFacts ==
    ASSUME CorrInv, SoundInv, Takes, records' = Tail(records),
           UNCHANGED <<stdout, outbox>>
    PROVE  /\ InHand = <<>> /\ Front \in OurRecords
           /\ Held(records) = {Front} \cup Held(records')
           /\ Sorted(records') /\ Ahead({Front}, Held(records'))
           /\ Ahead({Front}, Held(stdout)) /\ Ahead({Front}, Held(outbox))
           /\ Ahead(Held(records'), Held(stdout)) /\ Ahead(Held(records'), Held(outbox))
           /\ \A x \in Held(records') : Terminal(x) => x.id # 0
           /\ Front.id # 0 => Front \in Named
           /\ Terminal(Front) => Front.id # 0
  <1>1. InHand = <<>> /\ records # <<>>
    BY DEF Takes, InHand
  <1>2. records \in Seq(OurRecords) /\ Sorted(records)
    BY LineTypes DEF SoundInv, LineInv, Chain
  <1>3. /\ Held(records) = {Front} \cup Held(records')
        /\ Sorted(records') /\ Ahead({Front}, Held(records'))
    BY <1>1, <1>2, TailHeld DEF Front
  <1>4. Front \in OurRecords
    BY <1>2, <1>3, SeqFacts
  <1>5. /\ Ahead({Front}, Held(stdout)) /\ Ahead({Front}, Held(outbox))
        /\ Ahead(Held(records'), Held(stdout)) /\ Ahead(Held(records'), Held(outbox))
    BY <1>3, AheadOf DEF SoundInv, LineInv, Chain
  <1>6. /\ \A x \in Held(records') : Terminal(x) => x.id # 0
        /\ Terminal(Front) => Front.id # 0
    BY <1>3 DEF SoundInv, LineInv
  <1>7. Front.id # 0 => Front \in Named
    BY <1>3 DEF Named
  <1> QED
    BY <1>1, <1>3, <1>4, <1>5, <1>6, <1>7

\* A record that nobody waits for is dropped.
LEMMA DropSound ==
    ASSUME SoundInv, Quiet, NEW x, Named' \subseteq Named, Named \subseteq Named' \cup {x},
           \A t \in Threads : Waits(t) => call[t].id # x.id
    PROVE  IdsInv' /\ CountInv'
  <1>1. \A id : Unheard(id) => Unheard(id)'
    BY DEF Unheard, Quiet
  <1>2. UNCHANGED <<call, handlers, stdin, responses>>
    BY DEF Quiet
  <1>3. \A t \in Threads : call[t].at \in {"send", "write", "wait"} => seen'[t] = seen[t]
    BY DEF Quiet, Active
  <1>4. IdsInv'
    <2>1. ASSUME NEW t \in Threads, call[t].at \in {"send", "write"}
          PROVE  /\ seen'[t] = 0 /\ \A y \in Named' \cup responses' : y.id # call[t].id
                 /\ \A q \in Held(stdin) : q.id # call[t].id
      BY <1>2, <1>3, <2>1 DEF SoundInv, IdsInv, Unheard
    <2>2. \A t \in Threads : call'[t].at \in {"send", "write"} =>
            seen'[t] = 0 /\ Unheard(call[t].id)' /\ \A q \in Held(stdin') : q.id # call'[t].id
      BY <1>2, <2>1 DEF Unheard
    <2>3. \A q \in Held(stdin') : q.id # 0 /\ Unheard(q.id)'
      BY <1>1, <1>2 DEF SoundInv, IdsInv
    <2>4. \A j, k \in DOMAIN stdin' : stdin'[j].id = stdin'[k].id => j = k
      BY <1>2 DEF SoundInv, IdsInv
    <2>5. \A t \in Threads : call'[t].op = "messages.export" => call'[t].id \in handlers'
      BY <1>2 DEF SoundInv, IdsInv
    <2> QED
      BY <2>2, <2>3, <2>4, <2>5 DEF IdsInv
  <1>5. ASSUME NEW t \in Threads, Waits(t), NEW y \in Named', y.id = call[t].id
        PROVE  Counted(t, y)'
    <2>1. Counted(t, y)
      BY <1>5 DEF SoundInv, CountInv
    <2>2. \A n : EventOf(call[t].id, n) => EventOf(call[t].id, n)'
      BY <1>2, <1>5 DEF EventOf
    <2> QED
      BY <1>2, <1>3, <1>5, <2>1, <2>2 DEF Counted, Waits
  <1>6. CountInv'
    <2>1. \A t \in Threads : (Waits(t)' <=> Waits(t)) /\ (Waits(t) => seen'[t] = seen[t])
      BY <1>2, <1>3 DEF Waits
    <2> QED
      BY <1>2, <1>5, <2>1 DEF SoundInv, CountInv
  <1> QED
    BY <1>4, <1>6

LEMMA EventSound ==
    ASSUME CorrInv, CorrInv', Sound, SoundInv, DispatchEvent
    PROVE  SoundInv' /\ Shrinks
  <1>1. /\ Takes /\ ~Terminal(Front) /\ records' = Tail(records)
        /\ Quiet /\ UNCHANGED <<session, nextId, buffer, stdout, outbox>>
        /\ IF HasHandler(Front)
           THEN disp' = "call" /\ hand' = Front
           ELSE disp' = disp /\ hand' = hand
    BY DEF DispatchEvent, worker, Quiet
  <1>2. /\ InHand = <<>> /\ Front \in OurRecords
        /\ Held(records) = {Front} \cup Held(records')
        /\ Sorted(records') /\ Ahead({Front}, Held(records'))
        /\ Ahead({Front}, Held(stdout)) /\ Ahead({Front}, Held(outbox))
        /\ Ahead(Held(records'), Held(stdout)) /\ Ahead(Held(records'), Held(outbox))
        /\ \A x \in Held(records') : Terminal(x) => x.id # 0
        /\ Front.id # 0 => Front \in Named
    BY <1>1, FrontFacts
  <1>3. OurRecords \subseteq OurRecords'
    BY <1>1, CallsSame DEF Quiet
  <1>4. /\ InHand' \in {<<>>, <<Front>>} /\ Held(InHand') \subseteq {Front} /\ Sorted(InHand')
        /\ disp' = "call" => hand' = Front
        /\ HasHandler(Front) => Held(InHand') = {Front}
        /\ ~HasHandler(Front) => Held(InHand') = {}
    <2>1. CASE HasHandler(Front)
      BY <1>1, <2>1, OneList DEF InHand
    <2>2. CASE ~HasHandler(Front)
      <3>1. disp' = "run"
        BY <1>1, <2>2 DEF Takes
      <3> QED
        BY <2>2, <3>1, EmptyList DEF InHand
    <2> QED
      BY <2>1, <2>2
  <1>5. Named' \subseteq Named /\ Named \subseteq Named' \cup {Front}
    BY <1>1, <1>2, <1>4, EmptyList DEF Named
  <1>6. Chain(InHand, records, stdout, outbox)'
    <2>1. /\ Ahead(Held(InHand'), Held(records')) /\ Ahead(Held(InHand'), Held(stdout))
          /\ Ahead(Held(InHand'), Held(outbox))
      BY <1>2, <1>4, AheadOf
    <2> QED
      BY <1>1, <1>2, <1>4, <2>1 DEF SoundInv, LineInv, Chain
  <1>7. LineInv'
    <2>1. \A x \in Held(records)' \cup Held(stdout)' \cup Held(outbox)' :
             Terminal(x) => x.id # 0
      BY <1>1, <1>2 DEF SoundInv, LineInv
    <2>2. /\ buffer' = <<>> /\ responses' = responses
          /\ disp' = "call" => hand' \in OurRecords'
      BY <1>1, <1>2, <1>3, <1>4 DEF SoundInv, LineInv, Quiet
    <2> QED
      BY <1>3, <1>5, <1>6, <2>1, <2>2, LineFrom DEF SoundInv
  <1>8. IdsInv' /\ CountInv'
    <2>1. CASE HasHandler(Front)
      <3>1. Named' = Named
        BY <1>1, <1>2, <1>4, <2>1, EmptyList DEF Named
      <3> QED
        BY <1>1, <3>1, QuietSound DEF SoundInv
    <2>2. CASE ~HasHandler(Front)
      <3>1. Front.id # 0 /\ Front.id \notin handlers /\ Front \in Named
        BY <1>2, <2>2 DEF HasHandler
      <3>2. Front.type = "event"
        BY <1>1, <3>1 DEF SoundInv, LineInv, Terminal
      <3>3. ASSUME NEW t \in Threads, Waits(t), call[t].id = Front.id
            PROVE  FALSE
        <4>1. Counted(t, Front)
          BY <3>1, <3>3 DEF SoundInv, CountInv
        <4>2. call[t].op = "messages.export"
          BY <3>2, <4>1 DEF Counted
        <4>3. call[t].id \in handlers
          BY <4>2 DEF SoundInv, IdsInv
        <4> QED
          BY <3>1, <3>3, <4>3
      <3> QED
        BY <1>1, <1>5, <3>3, DropSound
    <2> QED
      BY <2>1, <2>2
  <1> QED
    BY <1>1, <1>5, <1>7, <1>8 DEF SoundInv, Shrinks, Quiet

LEMMA TerminalSound ==
    ASSUME CorrInv, CorrInv', Sound, Sound', SoundInv, DispatchTerminal
    PROVE  SoundInv' /\ Shrinks
  <1> DEFINE x == Front
  <1>1. /\ Takes /\ Terminal(x) /\ records' = Tail(records)
        /\ UNCHANGED <<call, seen, handlers, stdin, session, nextId, buffer, stdout, outbox,
                       disp, hand>>
    BY DEF DispatchTerminal, worker
  <1>2. responses' = responses \cup {x}
    BY DEF DispatchTerminal, Fail, Sound
  <1>3. /\ InHand = <<>> /\ x \in OurRecords
        /\ Held(records) = {x} \cup Held(records')
        /\ Sorted(records') /\ Ahead({x}, Held(records'))
        /\ Ahead({x}, Held(stdout)) /\ Ahead({x}, Held(outbox))
        /\ Ahead(Held(records'), Held(stdout)) /\ Ahead(Held(records'), Held(outbox))
        /\ \A y \in Held(records') : Terminal(y) => y.id # 0
        /\ x \in Named /\ x.id # 0
    BY <1>1, FrontFacts
  <1>4. InHand' = <<>>
    BY <1>1 DEF InHand, Takes
  <1> HIDE DEF x
  <1>5. OurRecords \subseteq OurRecords'
    BY <1>1, CallsSame
  <1>6. /\ Named' \subseteq Named /\ Named = Named' \cup {x}
        /\ \A y \in Named' : Before(x, y)
    <2>1. Named' \subseteq Named /\ Named = Named' \cup {x}
      BY <1>1, <1>3, <1>4, EmptyList DEF Named
    <2>2. \A y \in Held(records') \cup Held(stdout') \cup Held(outbox') : Before(x, y)
      BY <1>1, <1>3 DEF Ahead
    <2> QED
      BY <1>4, <2>1, <2>2, EmptyList DEF Named
  <1>7. x.type # "event" /\ \A y \in Named' : y.id # x.id
    BY <1>1, <1>3, <1>6 DEF Terminal, Before
  <1>8. \A r \in responses : r.id # x.id
    <2> SUFFICES ASSUME NEW r \in responses, r.id = x.id PROVE FALSE
      OBVIOUS
    <2>1. Before(r, x) /\ Terminal(r) /\ r.id # 0
      BY <1>3 DEF SoundInv, LineInv, Ahead
    <2> QED
      BY <2>1 DEF Before, Terminal
  <1>9. Chain(InHand, records, stdout, outbox)'
    <2>1. Held(InHand') = {} /\ Sorted(InHand')
      BY <1>4, EmptyList
    <2>2. \A S : Ahead(Held(InHand'), S)
      BY <2>1 DEF Ahead
    <2> QED
      BY <1>1, <1>3, <2>1, <2>2 DEF SoundInv, LineInv, Chain
  <1>10. LineInv'
    <2>1. Ahead(responses, Named)'
      BY <1>2, <1>6 DEF SoundInv, LineInv, Ahead
    <2>2. /\ \A r, q \in responses' : r.id = q.id => r = q
          /\ \A r \in responses' : Terminal(r) /\ r.id # 0
      BY <1>1, <1>2, <1>3, <1>8 DEF SoundInv, LineInv
    <2>3. \A y \in Named' : y.type \in {"event", "response", "error"}
      BY <1>6 DEF SoundInv, LineInv
    <2>4. \A s \in {records', stdout', outbox'} : \A y \in Held(s) : Terminal(y) => y.id # 0
      BY <1>1, <1>3 DEF SoundInv, LineInv
    <2>5. buffer' = <<>> /\ (disp' = "call" => hand' \in OurRecords')
      BY <1>1 DEF SoundInv, LineInv, Takes
    <2> QED
      BY <1>9, <2>1, <2>2, <2>3, <2>4, <2>5 DEF LineInv
  <1>11. IdsInv'
    <2>1. Named' \cup responses' = Named \cup responses
      BY <1>2, <1>6
    <2>2. \A id : Unheard(id)' <=> Unheard(id)
      BY <2>1 DEF Unheard
    <2>3. \A t \in Threads : Unheard(call[t].id)' <=> Unheard(call[t].id)
      BY <1>1, <2>1 DEF Unheard
    <2> QED
      BY <1>1, <2>2, <2>3 DEF SoundInv, IdsInv
  <1>12. ASSUME NEW t \in Threads, Waits(t), NEW y \in Named', y.id = call[t].id
         PROVE  Counted(t, y)'
    <2>1. Counted(t, y)
      BY <1>6, <1>12 DEF SoundInv, CountInv
    <2>2. \A n : EventOf(call[t].id, n) => EventOf(call[t].id, n)'
      BY <1>1, <1>6, <1>7 DEF EventOf
    <2> QED
      BY <1>1, <2>1, <2>2 DEF Counted
  <1>13. ASSUME NEW t \in Threads, Waits(t), x.id = call[t].id
         PROVE  seen[t] = x.n
    <2>1. Counted(t, x)
      BY <1>3, <1>13 DEF SoundInv, CountInv
    <2>2. seen[t] <= x.n /\ x.n \in Nat /\ seen[t] \in Nat
      BY <1>1, <1>3, <2>1, LineTypes DEF Counted, SoundInv, CorrInv, TypeInv, TypeOK, x
    <2>3. ASSUME seen[t] < x.n PROVE FALSE
      <3>1. EventOf(call[t].id, x.n)
        BY <1>1, <2>1, <2>2, <2>3 DEF Counted, x
      <3>2. PICK y \in Named : y.id = x.id /\ y.type = "event"
        BY <1>13, <3>1 DEF EventOf
      <3> QED
        BY <1>6, <1>7, <3>2
    <2> QED
      BY <2>2, <2>3
  <1>14. CountInv'
    <2>1. \A t \in Threads : Waits(t)' <=> Waits(t)
      BY <1>1 DEF Waits
    <2> QED
      BY <1>1, <1>2, <1>12, <1>13, <2>1 DEF SoundInv, CountInv
  <1> QED
    BY <1>1, <1>2, <1>3, <1>6, <1>10, <1>11, <1>14 DEF SoundInv, Shrinks

\* The callback returns from, or stops at, a record without a request.
LEMMA PlainHandSound ==
    ASSUME CorrInv, CorrInv', Sound, SoundInv, HandlerReturns \/ HandlerStops, hand.id = 0
    PROVE  SoundInv' /\ Shrinks
  <1>1. /\ disp = "call" /\ disp' \in {"run", "stop"}
        /\ UNCHANGED <<call, handlers, stdin, responses, session, nextId, buffer, records,
                       stdout, outbox>>
    BY DEF HandlerReturns, HandlerStops, worker, queues
  <1>2. \A t \in Threads : Active(t) => seen'[t] = seen[t]
    <2> SUFFICES ASSUME NEW t \in Threads, Active(t)
                 PROVE  seen'[t] = seen[t]
      OBVIOUS
    <2>1. call[t].id # 0
      BY DEF CorrInv, CallsInv
    <2>2. ~Belongs(hand, t)
      BY <2>1 DEF Belongs
    <2> QED
      BY <2>2 DEF HandlerReturns, HandlerStops
  <1>3. Quiet
    BY <1>1, <1>2 DEF Quiet
  <1>4. InHand = <<hand>> /\ InHand' = <<>>
    BY <1>1 DEF InHand
  <1>5. Held(InHand) = {hand} /\ Held(InHand') = {} /\ Sorted(InHand')
    BY <1>4, OneList, EmptyList
  <1>6. Named' = Named
    BY <1>1, <1>5 DEF Named
  <1>7. OurRecords \subseteq OurRecords'
    BY <1>1, CallsSame
  <1>8. Chain(InHand, records, stdout, outbox)'
    <2>1. \A S : Ahead(Held(InHand'), S)
      BY <1>5 DEF Ahead
    <2> QED
      BY <1>1, <1>5, <2>1 DEF SoundInv, LineInv, Chain
  <1>9. LineInv'
    <2>1. \A x \in Held(records)' \cup Held(stdout)' \cup Held(outbox)' :
             Terminal(x) => x.id # 0
      BY <1>1 DEF SoundInv, LineInv
    <2>2. /\ buffer' = <<>> /\ responses' = responses
          /\ disp' = "call" => hand' \in OurRecords'
      BY <1>1 DEF SoundInv, LineInv
    <2> QED
      BY <1>6, <1>7, <1>8, <2>1, <2>2, LineFrom DEF SoundInv
  <1> QED
    BY <1>3, <1>6, <1>9, QuietSound DEF SoundInv, Shrinks, Quiet

\* The callback has taken an event: it was the next one of its request.
LEMMA ReturnsSound ==
    ASSUME CorrInv, CorrInv', DispInv, Sound, SoundInv, HandlerReturns, hand.id # 0
    PROVE  SoundInv' /\ Shrinks
  <1>1. /\ disp = "call" /\ disp' = "run"
        /\ UNCHANGED <<call, handlers, stdin, responses, session, nextId, buffer, records,
                       stdout, outbox>>
        /\ seen' = [t \in Threads |-> IF Belongs(hand, t) THEN seen[t] + 1 ELSE seen[t]]
    BY DEF HandlerReturns, worker, queues
  <1>2. InHand = <<hand>> /\ InHand' = <<>>
    BY <1>1 DEF InHand
  <1>3. Held(InHand) = {hand} /\ Held(InHand') = {} /\ Sorted(InHand')
    BY <1>2, OneList, EmptyList
  <1>4. hand \in Named /\ hand \in OurRecords
    BY <1>1, <1>3 DEF Named, SoundInv, LineInv
  <1>5. hand.type = "event" /\ hand.n \in Nat
    <2>1. hand.type \in {"event", "response", "error"} /\ ~Terminal(hand)
      BY <1>1, <1>4 DEF SoundInv, LineInv, DispInv
    <2>2. hand.n \in Nat
      BY <1>4, LineTypes DEF SoundInv
    <2> QED
      BY <2>1, <2>2 DEF Terminal
  <1>6. /\ Named' \subseteq Named /\ Named = Named' \cup {hand}
        /\ \A y \in Named' : Before(hand, y)
    <2>1. Named' \subseteq Named /\ Named = Named' \cup {hand}
      BY <1>1, <1>3, <1>4 DEF Named
    <2>2. \A y \in Held(records') \cup Held(stdout') \cup Held(outbox') : Before(hand, y)
      BY <1>1, <1>3 DEF SoundInv, LineInv, Chain, Ahead
    <2> QED
      BY <1>3, <2>1, <2>2 DEF Named
  <1>7. \A y \in Named' : y.id = hand.id => hand.n < y.n \/ (hand.n = y.n /\ Terminal(y))
    BY <1>6 DEF Before
  <1>8. ASSUME NEW t \in Threads, Active(t)
        PROVE  /\ call[t].id = hand.id => seen'[t] = seen[t] + 1
               /\ call[t].id # hand.id => seen'[t] = seen[t]
    <2>1. call[t].id = hand.id => Belongs(hand, t)
      <3>1. Ours(hand) /\ call[t].session = session
        BY <1>4, <1>8, LineTypes DEF SoundInv, CorrInv, CallsInv
      <3> QED
        BY <1>8, <3>1 DEF Ours, Belongs
    <2>2. call[t].id # hand.id => ~Belongs(hand, t)
      BY DEF Belongs
    <2> QED
      BY <1>1, <2>1, <2>2
  <1>9. OurRecords \subseteq OurRecords'
    BY <1>1, CallsSame
  <1>10. Chain(InHand, records, stdout, outbox)'
    <2>1. \A S : Ahead(Held(InHand'), S)
      BY <1>3 DEF Ahead
    <2> QED
      BY <1>1, <1>3, <2>1 DEF SoundInv, LineInv, Chain
  <1>11. LineInv'
    <2>1. \A x \in Held(records)' \cup Held(stdout)' \cup Held(outbox)' :
             Terminal(x) => x.id # 0
      BY <1>1 DEF SoundInv, LineInv
    <2>2. /\ buffer' = <<>> /\ responses' = responses
          /\ disp' = "call" => hand' \in OurRecords'
      BY <1>1 DEF SoundInv, LineInv
    <2> QED
      BY <1>6, <1>9, <1>10, <2>1, <2>2, LineFrom DEF SoundInv
  <1>12. \A id : Unheard(id) => id # hand.id /\ \A y \in Named' \cup responses' : y.id # id
    BY <1>1, <1>4, <1>6 DEF Unheard
  <1>13. IdsInv'
    <2>1. ASSUME NEW t \in Threads, call[t].at \in {"send", "write"}
          PROVE  /\ seen'[t] = 0 /\ \A y \in Named' \cup responses' : y.id # call[t].id
                 /\ \A q \in Held(stdin) : q.id # call[t].id
      <3>1. Active(t) /\ seen[t] = 0 /\ Unheard(call[t].id)
            /\ \A q \in Held(stdin) : q.id # call[t].id
        BY <2>1 DEF Active, SoundInv, IdsInv
      <3> QED
        BY <1>8, <1>12, <3>1
    <2>2. \A t \in Threads : call'[t].at \in {"send", "write"} =>
            seen'[t] = 0 /\ Unheard(call[t].id)' /\ \A q \in Held(stdin') : q.id # call'[t].id
      BY <1>1, <2>1 DEF Unheard
    <2>3. \A q \in Held(stdin') : q.id # 0 /\ Unheard(q.id)'
      BY <1>1, <1>12 DEF SoundInv, IdsInv, Unheard
    <2>4. \A j, k \in DOMAIN stdin' : stdin'[j].id = stdin'[k].id => j = k
      BY <1>1 DEF SoundInv, IdsInv
    <2>5. \A t \in Threads : call'[t].op = "messages.export" => call'[t].id \in handlers'
      BY <1>1 DEF SoundInv, IdsInv
    <2> QED
      BY <2>2, <2>3, <2>4, <2>5 DEF IdsInv
  <1>14. ASSUME NEW t \in Threads, Waits(t), call[t].id = hand.id
         PROVE  /\ seen[t] \in Nat /\ hand.n = seen[t] + 1 /\ seen'[t] = seen[t] + 1
                /\ \A q \in Held(stdin) : q.id # call[t].id
                /\ \A r \in responses : r.id # call[t].id
    <2>1. Counted(t, hand)
      BY <1>4, <1>14 DEF SoundInv, CountInv
    <2>2. seen[t] \in Nat /\ seen[t] < hand.n
      BY <1>5, <2>1 DEF Counted, CorrInv, TypeInv, TypeOK
    <2>3. ASSUME seen[t] + 1 < hand.n PROVE FALSE
      <3>1. EventOf(call[t].id, seen[t] + 1)
        BY <2>1, <2>2, <2>3 DEF Counted
      <3>2. PICK y \in Named : y.id = hand.id /\ y.type = "event" /\ y.n = seen[t] + 1
        BY <1>14, <3>1 DEF EventOf
      <3>3. y \in Named'
        <4>1. y.n # hand.n
          BY <1>5, <2>2, <2>3, <3>2
        <4> QED
          BY <1>6, <3>2, <4>1
      <3>4. ~Terminal(y)
        BY <3>2 DEF Terminal
      <3> QED
        BY <1>5, <1>7, <2>2, <2>3, <3>2, <3>3, <3>4
    <2>4. hand.n = seen[t] + 1
      BY <1>5, <2>2, <2>3
    <2>5. seen'[t] = seen[t] + 1
      BY <1>8, <1>14 DEF Waits, Active
    <2>6. \A q \in Held(stdin) : q.id # call[t].id
      BY <1>4, <1>14 DEF SoundInv, IdsInv, Unheard
    <2>7. \A r \in responses : r.id # call[t].id
      <3> SUFFICES ASSUME NEW r \in responses, r.id = hand.id PROVE FALSE
        BY <1>14
      <3>1. Before(r, hand) /\ Terminal(r) /\ r.id # 0
        BY <1>4 DEF SoundInv, LineInv, Ahead
      <3> QED
        BY <3>1 DEF Before, Terminal
    <2> QED
      BY <2>2, <2>4, <2>5, <2>6, <2>7
  <1>15. ASSUME NEW t \in Threads, Waits(t), NEW y \in Named', y.id = call[t].id
         PROVE  Counted(t, y)'
    <2>1. Counted(t, y) /\ y.n \in Nat
      BY <1>6, <1>15, LineTypes DEF SoundInv, CountInv
    <2>2. \A n : EventOf(call[t].id, n) /\ (call[t].id # hand.id \/ n # hand.n) =>
                   EventOf(call[t].id, n)'
      BY <1>1, <1>6 DEF EventOf
    <2>3. CASE call[t].id = hand.id
      <3>1. seen[t] \in Nat /\ hand.n = seen[t] + 1 /\ seen'[t] = seen[t] + 1
        BY <1>14, <1>15, <2>3
      <3>2. seen[t] + 1 < y.n \/ (seen[t] + 1 = y.n /\ Terminal(y))
        BY <1>7, <1>15, <2>3, <3>1
      <3>3. /\ y.type = "event" => seen'[t] < y.n /\ call[t].op = "messages.export"
            /\ Terminal(y) => seen'[t] <= y.n
        <4>1. y.type = "event" => ~Terminal(y) /\ call[t].op = "messages.export"
          BY <2>1 DEF Counted, Terminal
        <4>2. seen[t] + 1 <= y.n /\ (~Terminal(y) => seen[t] + 1 < y.n)
          BY <2>1, <3>1, <3>2
        <4> QED
          BY <3>1, <4>1, <4>2
      <3>4. ASSUME NEW n \in Nat, seen'[t] < n, n < y.n \/ (n = y.n /\ Terminal(y))
            PROVE  EventOf(call[t].id, n)'
        <4>1. seen[t] < n /\ n # hand.n
          BY <3>1, <3>4
        <4>2. EventOf(call[t].id, n)
          BY <2>1, <3>4, <4>1 DEF Counted
        <4> QED
          BY <2>2, <4>1, <4>2
      <3> QED
        BY <1>1, <3>3, <3>4 DEF Counted
    <2>4. CASE call[t].id # hand.id
      <3>1. seen'[t] = seen[t]
        BY <1>8, <1>15, <2>4 DEF Waits, Active
      <3> QED
        BY <1>1, <2>1, <2>2, <2>4, <3>1 DEF Counted
    <2> QED
      BY <2>3, <2>4
  <1>16. CountInv'
    <2> SUFFICES ASSUME NEW t \in Threads, Waits(t)'
                 PROVE  /\ \A q \in Held(stdin') :
                             q.id = call'[t].id => seen'[t] = 0 /\ q.op = call'[t].op
                        /\ \A y \in Named' : y.id = call'[t].id => Counted(t, y)'
                        /\ \A r \in responses' : r.id = call'[t].id => seen'[t] = r.n
      BY DEF CountInv
    <2>1. Waits(t) /\ Active(t)
      BY <1>1 DEF Waits, Active
    <2>2. \A y \in Named' : y.id = call'[t].id => Counted(t, y)'
      BY <1>1, <1>15, <2>1
    <2>3. CASE call[t].id = hand.id
      BY <1>1, <1>14, <2>1, <2>2, <2>3
    <2>4. CASE call[t].id # hand.id
      <3>1. seen'[t] = seen[t]
        BY <1>8, <2>1, <2>4
      <3> QED
        BY <1>1, <2>1, <2>2, <3>1 DEF SoundInv, CountInv
    <2> QED
      BY <2>3, <2>4
  <1> QED
    BY <1>1, <1>6, <1>11, <1>13, <1>16 DEF SoundInv, Shrinks

(***************************************************************************)
(* Who waits for what is under way.                                        *)
(***************************************************************************)
KeepsWait == expired \subseteq expired' /\ ~dispatcherStop /\ WaitInv => WaitInv'

LEMMA ShrinksWaits ==
    ASSUME Shrinks
    PROVE  KeepsWait
  <1> SUFFICES ASSUME expired \subseteq expired', WaitInv PROVE WaitInv'
    BY DEF KeepsWait
  <1>1. \A x : Awaited(x) => Awaited(x)'
    BY DEF Awaited, Waits, Shrinks
  <1>2. ASSUME NEW x \in Named'
        PROVE  IF x.by = Dispatcher THEN Terminal(x) ELSE Awaited(x)'
    BY <1>1 DEF WaitInv, Shrinks
  <1>3. ASSUME NEW r \in responses', r.by # Dispatcher
        PROVE  Awaited(r)'
    BY <1>1, <1>3 DEF WaitInv, Shrinks
  <1>4. ASSUME NEW q \in Held(stdin')
        PROVE  IF q.by = Dispatcher THEN q.op = "shutdown" ELSE Awaited(q)'
    BY <1>1 DEF WaitInv, Shrinks
  <1> QED
    BY <1>2, <1>3, <1>4 DEF WaitInv

LEMMA AnsweredWaits ==
    ASSUME Answered
    PROVE  KeepsWait
  <1> SUFFICES ASSUME expired \subseteq expired', WaitInv PROVE WaitInv'
    BY DEF KeepsWait
  <1>1. \A x : Awaited(x) => Awaited(x)'
    BY DEF Awaited, Waits, Answered
  <1>2. ASSUME NEW x \in Named'
        PROVE  IF x.by = Dispatcher THEN Terminal(x) ELSE Awaited(x)'
    <2>1. CASE x \in Named
      BY <1>1, <2>1 DEF WaitInv
    <2>2. CASE x \notin Named
      <3>1. PICK q \in Held(stdin) :
              x.id = q.id /\ x.by = q.by /\ (Terminal(x) \/ q.op = "messages.export")
        BY <2>2 DEF Answered
      <3>2. IF q.by = Dispatcher THEN q.op = "shutdown" ELSE Awaited(q)
        BY DEF WaitInv
      <3>3. Awaited(q) => Awaited(x)
        BY <3>1 DEF Awaited
      <3> QED
        BY <1>1, <3>1, <3>2, <3>3
    <2> QED
      BY <2>1, <2>2
  <1>3. ASSUME NEW r \in responses', r.by # Dispatcher
        PROVE  Awaited(r)'
    BY <1>1, <1>3 DEF WaitInv, Answered
  <1>4. ASSUME NEW q \in Held(stdin')
        PROVE  IF q.by = Dispatcher THEN q.op = "shutdown" ELSE Awaited(q)'
    BY <1>1 DEF WaitInv, Answered
  <1> QED
    BY <1>2, <1>3, <1>4 DEF WaitInv

\* A thread begins or ends a request that nothing under way is for.
LEMMA OwnWaits ==
    ASSUME NEW t \in Threads, \A u \in Threads \ {t} : call'[u] = call[u],
           Named' = Named, responses' \subseteq responses, stdin' = stdin,
           \A x \in Named \cup responses' \cup Held(stdin) :
             x.by \in Threads /\ (Waits(t) => x.id # call[t].id \/ x.id \in expired')
    PROVE  KeepsWait
  <1> SUFFICES ASSUME expired \subseteq expired', WaitInv PROVE WaitInv'
    BY DEF KeepsWait
  <1>1. ASSUME NEW x \in Named \cup responses' \cup Held(stdin), Awaited(x)
        PROVE  Awaited(x)'
    <2>1. x.by \in Threads /\ (x.by # t \/ x.id \in expired')
      BY <1>1 DEF Awaited
    <2> QED
      BY <1>1, <2>1 DEF Awaited, Waits
  <1>2. ASSUME NEW x \in Named'
        PROVE  IF x.by = Dispatcher THEN Terminal(x) ELSE Awaited(x)'
    BY <1>1 DEF WaitInv
  <1>3. ASSUME NEW r \in responses', r.by # Dispatcher
        PROVE  Awaited(r)'
    BY <1>1, <1>3 DEF WaitInv
  <1>4. ASSUME NEW q \in Held(stdin')
        PROVE  IF q.by = Dispatcher THEN q.op = "shutdown" ELSE Awaited(q)'
    BY <1>1 DEF WaitInv
  <1> QED
    BY <1>2, <1>3, <1>4 DEF WaitInv

LEMMA AllBy ==
    ASSUME CorrInv, LineInv
    PROVE  \A x \in Named \cup responses \cup Held(stdin) : x.by \in Threads
  <1>1. \A x \in OurRecords \cup OurRequests : x.by \in Threads
    BY DEF OurRecords, OurRequests, RecordType, RequestType
  <1> QED
    BY <1>1, LineTypes

LEMMA SendWaits ==
    ASSUME CorrInv, SoundInv, NEW t \in Threads, NEW op, call[t] = Nobody, Send(t, op)
    PROVE  KeepsWait
  <1>1. \A u \in Threads \ {t} : call'[u] = call[u]
    BY DEF Send, CorrInv, TypeInv, TypeOK
  <1>2. /\ UNCHANGED <<records, stdout, outbox, stdin, responses>> /\ InHand' = InHand
        /\ ~Waits(t)
    BY DEF Send, worker, InHand, Waits, Nobody
  <1>3. \A x \in Named \cup responses' \cup Held(stdin) : x.by \in Threads
    BY <1>2, AllBy DEF SoundInv
  <1> QED
    BY <1>1, <1>2, <1>3, NamedStays, OwnWaits

LEMMA RequestingWaits ==
    ASSUME CorrInv, DispInv, Sound, SoundInv, NEW t \in Threads, Requesting(t)
    PROVE  KeepsWait
  <1>1. call \in [Threads -> CallType] /\ stdin \in Seq(RequestType)
    BY DEF CorrInv, TypeInv, TypeOK
  <1>2. \A u \in Threads \ {t} : call'[u] = call[u]
    BY <1>1 DEF Requesting, SendTooLarge, WriteBlocks, Write, WriteFails, TakeResponse, GiveUp,
                TimesOut, Written, Returns
  <1>3. UNCHANGED <<records, stdout, outbox>> /\ responses' \subseteq responses
    BY DEF Requesting, SendTooLarge, WriteBlocks, Write, WriteFails, TakeResponse, GiveUp,
           TimesOut, worker, queues
  <1>4. disp' = "call" <=> disp = "call"
    BY DEF Requesting, SendTooLarge, WriteBlocks, Write, WriteFails, TakeResponse, GiveUp,
           TimesOut, Written, Returns, DispInv, Active, AtWrite
  <1>5. hand' = hand
    BY DEF Requesting, SendTooLarge, WriteBlocks, Write, WriteFails, TakeResponse, GiveUp,
           TimesOut
  <1>6. InHand' = InHand /\ Named' = Named
    BY <1>3, <1>4, <1>5, NamedStays DEF InHand
  <1>7. \A x \in Named \cup responses' \cup Held(stdin) : x.by \in Threads
    BY <1>3, AllBy DEF SoundInv
  <1>8. CASE SendTooLarge(t) \/ WriteBlocks(t) \/ WriteFails(t)
    <2>1. ~Waits(t) /\ stdin' = stdin
      BY <1>8 DEF SendTooLarge, WriteBlocks, WriteFails, AtWrite, Waits, worker
    <2> QED
      BY <1>2, <1>3, <1>6, <1>7, <2>1, OwnWaits
  <1>9. CASE Write(t)
    <2> SUFFICES ASSUME expired \subseteq expired', WaitInv PROVE WaitInv'
      BY DEF KeepsWait
    <2>1. PICK q : q = Request(t)
      OBVIOUS
    <2>2. ~Waits(t) /\ responses' = responses /\ stdin' = Append(stdin, q)
      BY <1>9, <2>1 DEF Write, AtWrite, Waits, queues
    <2>3. call[t] \in [at : {"send", "write", "wait"}, op : Operations, id : Nat, session : Nat]
      <3>1. call[t] \in CallType /\ call[t] # Nobody
        BY <1>1, <1>9 DEF Write, AtWrite, Nobody
      <3> QED
        BY <3>1 DEF CallType
    <2>4. q \in RequestType /\ q.id = call[t].id /\ q.op = call[t].op /\ q.by = t
      BY <2>1, <2>3 DEF Request, RequestType
    <2>5. Held(stdin') = Held(stdin) \cup {q}
      BY <1>1, <2>2, <2>4, AppendHeld
    <2>6. ASSUME NEW x \in Named \cup responses \cup Held(stdin), Awaited(x)
          PROVE  Awaited(x)'
      <3>1. x.by \in Threads /\ (x.by # t \/ x.id \in expired)
        BY <1>7, <2>2, <2>6 DEF Awaited
      <3> QED
        BY <1>2, <2>6, <3>1 DEF Awaited, Waits
    <2>7. IF q.by = Dispatcher THEN q.op = "shutdown" ELSE Awaited(q)'
      <3>1. CASE t = Dispatcher
        BY <1>9, <2>4, <3>1 DEF Write, AtWrite, DispInv, Active
      <3>2. CASE t # Dispatcher
        <4>1. call' = [call EXCEPT ![t].at = "wait"]
          BY <1>9, <3>2 DEF Write, Written
        <4>2. call'[t] = [call[t] EXCEPT !.at = "wait"]
          BY <1>1, <4>1
        <4>3. call'[t].at = "wait" /\ call'[t].id = call[t].id
          BY <2>3, <4>2
        <4> QED
          BY <2>4, <3>2, <4>3 DEF Awaited, Waits
      <3> QED
        BY <3>1, <3>2
    <2>8. \A x \in Named' : IF x.by = Dispatcher THEN Terminal(x) ELSE Awaited(x)'
      BY <1>6, <2>6 DEF WaitInv
    <2>9. \A r \in responses' : r.by # Dispatcher => Awaited(r)'
      BY <2>2, <2>6 DEF WaitInv
    <2>10. \A x \in Held(stdin') : IF x.by = Dispatcher THEN x.op = "shutdown" ELSE Awaited(x)'
      BY <2>5, <2>6, <2>7 DEF WaitInv
    <2> QED
      BY <2>8, <2>9, <2>10 DEF WaitInv
  <1>10. CASE TakeResponse(t)
    <2>1. PICK r \in Answers(t) : responses' = responses \ {r}
      BY <1>10 DEF TakeResponse
    <2>2. stdin' = stdin /\ r \in responses /\ r.id = call[t].id
      BY <1>10, <2>1 DEF TakeResponse, Answers, worker
    <2>3. \A x \in Named : x.id # r.id
      <3> SUFFICES ASSUME NEW x \in Named, x.id = r.id PROVE FALSE
        OBVIOUS
      <3>1. Before(r, x) /\ Terminal(r) /\ r.id # 0
        BY <2>2 DEF SoundInv, LineInv, Ahead
      <3> QED
        BY <3>1 DEF Before, Terminal
    <2>4. \A x \in responses' : x.id # r.id
      BY <2>1, <2>2 DEF SoundInv, LineInv
    <2>5. \A x \in Held(stdin) : x.id # r.id
      BY <2>2 DEF SoundInv, IdsInv, Unheard
    <2> QED
      BY <1>2, <1>3, <1>6, <1>7, <2>2, <2>3, <2>4, <2>5, OwnWaits
  <1>11. CASE GiveUp(t)
    BY <1>11 DEF GiveUp, Sound, KeepsWait
  <1>12. CASE TimesOut(t)
    <2>1. call[t].session = session
      BY <1>12 DEF TimesOut, CorrInv, CallsInv, Active
    <2>2. call[t].id \in expired' /\ stdin' = stdin
      BY <1>12, <2>1 DEF TimesOut, worker
    <2> QED
      BY <1>2, <1>3, <1>6, <1>7, <2>2, OwnWaits
  <1> QED
    BY <1>8, <1>9, <1>10, <1>11, <1>12 DEF Requesting

(***************************************************************************)
(* Every step of a session that is sound before and after it.              *)
(***************************************************************************)
LEMMA DispatcherSound ==
    ASSUME CorrInv, CorrInv', DispInv, Sound, Sound', SoundInv, Dispatches
    PROVE  SoundInv' /\ KeepsWait
  <1>1. CASE DispatchTerminal
    BY <1>1, TerminalSound, ShrinksWaits
  <1>2. CASE DispatchEvent
    BY <1>2, EventSound, ShrinksWaits
  <1>3. CASE HandlerReturns
    BY <1>3, PlainHandSound, ReturnsSound, ShrinksWaits
  <1>4. CASE HandlerThrows
    BY <1>4 DEF HandlerThrows, Fail, Sound
  <1>5. CASE HandlerStops
    <2>1. hand.id = 0
      BY <1>5 DEF HandlerStops
    <2> QED
      BY <1>5, <2>1, PlainHandSound, ShrinksWaits
  <1>6. CASE HandlerSends
    <2>1. Send(Dispatcher, "shutdown") /\ call[Dispatcher] = Nobody
      BY <1>6 DEF HandlerSends, SendRefused, Sound
    <2>2. Dispatcher \in Threads /\ "shutdown" \in Operations
      BY DEF Threads, Operations
    <2> QED
      BY <2>1, <2>2, SendSound, SendWaits
  <1>7. CASE DispatcherEnds
    <2>1. /\ UNCHANGED <<stdin, outbox, records, stdout, buffer, responses, handlers, call, seen,
                         session, nextId, hand>>
          /\ {disp, disp'} \subseteq {"none", "run", "ended"}
      BY <1>7 DEF DispatcherEnds, worker, queues
    <2> QED
      BY <2>1, ExitsSound, ShrinksWaits
  <1> QED
    BY <1>1, <1>2, <1>3, <1>4, <1>5, <1>6, <1>7 DEF Dispatches

LEMMA OwnerSound ==
    ASSUME CorrInv, CorrInv', DispInv, Sound, Sound', SoundInv,
           OwnerStarts \/ OwnerGoesOn \/ OwnerStops
    PROVE  SoundInv' /\ KeepsWait
  <1>1. CASE OwnerSends("hello", "hello") \/ OwnerSends("stop.ask", "shutdown")
    <2>1. PICK op \in Operations : Send(Owner, op)
      BY <1>1 DEF OwnerSends, SendRefused, Sound, Operations
    <2>2. call[Owner] = Nobody /\ Owner \in Threads
      BY <1>1 DEF OwnerSends, Threads
    <2> QED
      BY <2>1, <2>2, SendSound, SendWaits
  <1>2. CASE StartReset \/ LaunchFails \/ StopClear \/ Launch
    BY <1>2 DEF StartReset, LaunchFails, StopClear, Launch, Fail, Sound, CorrInv, QuietInv,
                Unlaunched
  <1>3. CASE \/ StartDispatcher \/ StopBegin \/ StopCloseStdin \/ StopExited \/ StopKill
             \/ StopFlag \/ StopJoined \/ StopRelease
    <2>1. /\ stdin' \in {stdin, <<>>} /\ outbox' \in {outbox, <<>>}
          /\ UNCHANGED <<records, stdout, buffer, responses, handlers, call, seen, session,
                         nextId, hand>>
      BY <1>3 DEF StartDispatcher, StopBegin, StopCloseStdin, StopExited, StopKill, StopFlag,
                  StopJoined, StopRelease, worker, queues
    <2>2. disp' = disp \/ {disp, disp'} \subseteq {"none", "run", "ended"}
      BY <1>3 DEF StartDispatcher, StopBegin, StopCloseStdin, StopExited, StopKill, StopFlag,
                  StopJoined, StopRelease, DispInv
    <2> QED
      BY <2>1, <2>2, ExitsSound, ShrinksWaits
  <1> QED
    BY <1>1, <1>2, <1>3 DEF OwnerStarts, OwnerGoesOn, OwnerStops

LEMMA WorkerSound ==
    ASSUME CorrInv, CorrInv', Sound, SoundInv, Works
    PROVE  SoundInv' /\ KeepsWait
  <1>1. CASE WorkerReads
    BY <1>1, AnswersSound, AnsweredWaits
  <1>2. CASE WorkerWrites
    BY <1>2, WritesSound, ShrinksWaits
  <1>3. CASE WorkerLive \/ WorkerBabbles \/ WorkerFatal
    BY <1>3, UnaskedSound, ShrinksWaits
  <1>4. CASE WorkerExits
    <2>1. /\ stdin' \in {stdin, <<>>} /\ outbox' \in {outbox, <<>>} /\ disp' = disp
          /\ UNCHANGED <<records, stdout, buffer, responses, handlers, call, seen, session,
                         nextId, hand>>
      BY <1>4 DEF WorkerExits, ClientSide, queues
    <2> QED
      BY <2>1, ExitsSound, ShrinksWaits
  <1> QED
    BY <1>1, <1>2, <1>3, <1>4 DEF Works

LEMMA SoundStep ==
    ASSUME CorrInv, CorrInv', DispInv, Sound, Sound', SoundInv, [Next]_vars
    PROVE  SoundInv' /\ KeepsWait
  <1>1. CASE Rests \/ UNCHANGED vars
    <2>1. UNCHANGED <<stdin, outbox, records, stdout, buffer, responses, handlers, call, seen,
                      session, nextId, hand, disp>>
      BY <1>1 DEF Rests, vars, worker, queues
    <2> QED
      BY <2>1, ExitsSound, ShrinksWaits
  <1>2. ASSUME NEW t \in Callers, CallerSends(t)
        PROVE  SoundInv' /\ KeepsWait
    <2>1. PICK op \in CallerOps : Send(t, op)
      BY <1>2 DEF CallerSends
    <2>2. t \in Threads /\ op \in Operations /\ call[t] = Nobody
      BY <1>2, ClientAssumption DEF CallerSends, Threads, Operations
    <2> QED
      BY <2>1, <2>2, SendSound, SendWaits
  <1>3. ASSUME NEW t \in Threads, Requesting(t)
        PROVE  SoundInv' /\ KeepsWait
    BY <1>3, RequestingSound, RequestingWaits
  <1>4. CASE Reads
    BY <1>4, ReadsSound, ShrinksWaits
  <1> QED
    BY <1>1, <1>2, <1>3, <1>4, OwnerSound, DispatcherSound, WorkerSound DEF Next

\* The session begins to be sound when the worker is launched.
LEMMA OnlyLaunch ==
    ASSUME [Next]_vars, Sound'
    PROVE  /\ Sound \/ Launch
           /\ Sound /\ dispatcherStop => dispatcherStop'
  <1> USE DEF worker, queues, flags
  <1> DEFINE Kept == process' = process /\ dispatcherStop' = dispatcherStop /\ failed' = failed
             Fails == failed' = TRUE
  <1>0. ASSUME Kept \/ Fails
        PROVE  (Sound \/ Launch) /\ (Sound /\ dispatcherStop => dispatcherStop')
    <2>1. CASE Kept
      BY <2>1 DEF Sound
    <2>2. CASE Fails
      <3>1. failed'
        BY <2>2
      <3> QED
        BY <3>1 DEF Sound
    <2> QED
      BY <1>0, <2>1, <2>2
  <1>1. CASE Rests \/ UNCHANGED vars
    <2>1. Kept
      BY <1>1 DEF Rests, vars
    <2> QED
      BY <2>1 DEF Sound
  <1>2. CASE OwnerStarts \/ OwnerGoesOn \/ OwnerStops
    <2>1. CASE StartReset \/ StopClear
      <3>1. ~process'
        BY <2>1 DEF StartReset, StopClear
      <3> QED
        BY <3>1 DEF Sound
    <2>2. CASE Launch
      <3>1. UNCHANGED dispatcherStop
        BY <2>2 DEF Launch
      <3> QED
        BY <2>2, <3>1
    <2>3. CASE StopFlag
      <3>1. dispatcherStop' = TRUE /\ UNCHANGED <<process, failed>>
        BY <2>3 DEF StopFlag
      <3> QED
        BY <3>1 DEF Sound
    <2>4. CASE ~(StartReset \/ StopClear \/ Launch \/ StopFlag)
      <3>1. Kept \/ Fails
        BY <1>2, <2>4 DEF OwnerStarts, OwnerGoesOn, OwnerStops, LaunchFails, Fail,
           StartDispatcher, OwnerSends, Send, SendRefused, StopBegin, StopCloseStdin,
           StopExited, StopKill, StopJoined, StopRelease
      <3> QED
        BY <1>0, <3>1
    <2> QED
      BY <2>1, <2>2, <2>3, <2>4
  <1>3. ASSUME NEW t \in Callers, CallerSends(t)
        PROVE  Kept
    BY <1>3 DEF CallerSends, Send
  <1>4. ASSUME NEW t \in Threads, Requesting(t)
        PROVE  Kept \/ Fails
    BY <1>4 DEF Requesting, SendTooLarge, WriteBlocks, Write, WriteFails, TakeResponse, GiveUp,
       TimesOut, Fail
  <1>5. CASE Dispatches
    <2>1. Kept \/ Fails
      BY <1>5 DEF Dispatches, DispatchTerminal, DispatchEvent, HandlerReturns, HandlerThrows,
         HandlerStops, HandlerSends, Send, SendRefused, DispatcherEnds, Fail
    <2> QED
      BY <1>0, <2>1
  <1>6. CASE Reads
    <2>1. UNCHANGED <<process, dispatcherStop>> /\ \E b : failed' = (failed \/ b)
      BY <1>6 DEF Reads, OnStdout, LossFails
    <2> QED
      BY <2>1 DEF Sound
  <1>7. CASE Works
    <2>1. Kept
      BY <1>7 DEF Works, WorkerReads, WorkerWrites, WorkerLive, WorkerFatal, WorkerBabbles,
         WorkerExits, ClientSide
    <2> QED
      BY <2>1 DEF Sound
  <1>8. (\E t \in Callers : CallerSends(t)) \/ (\E t \in Threads : Requesting(t)) => Kept \/ Fails
    BY <1>3, <1>4
  <1> QED
    BY <1>1, <1>2, <1>5, <1>6, <1>7, <1>8, <1>0 DEF Next

\* A wait that has timed out is remembered until the session ends.
LEMMA OnlyExpires ==
    ASSUME [Next]_vars, Sound, Sound'
    PROVE  expired \subseteq expired'
  <1>1. CASE StartReset \/ StopClear
    BY <1>1 DEF StartReset, StopClear, Sound
  <1>2. ASSUME NEW t \in Threads, Requesting(t) PROVE expired \subseteq expired'
    BY <1>2 DEF Requesting, SendTooLarge, WriteBlocks, Write, WriteFails, TakeResponse, GiveUp,
       TimesOut
  <1>3. ASSUME NEW t \in Callers, CallerSends(t) PROVE expired' = expired
    BY <1>3 DEF CallerSends, Send
  <1>4. CASE (OwnerGoesOn /\ ~StopClear) \/ OwnerStops
    BY <1>4 DEF OwnerGoesOn, OwnerStops, Launch, LaunchFails, StartDispatcher, OwnerSends, Send,
       SendRefused, StopBegin, StopCloseStdin, StopExited, StopKill, StopFlag, StopJoined,
       StopRelease
  <1>5. CASE Dispatches
    BY <1>5 DEF Dispatches, DispatchTerminal, DispatchEvent, HandlerReturns, HandlerThrows,
       HandlerStops, HandlerSends, Send, SendRefused, DispatcherEnds
  <1>6. CASE Reads \/ Works
    BY <1>6 DEF Reads, OnStdout, Works, WorkerReads, WorkerWrites, WorkerLive, WorkerFatal,
       WorkerBabbles, WorkerExits, ClientSide
  <1>7. CASE Rests \/ UNCHANGED vars
    BY <1>7 DEF Rests, vars
  <1> QED
    BY <1>1, <1>2, <1>3, <1>4, <1>5, <1>6, <1>7 DEF Next, OwnerStarts

LEMMA LaunchSound ==
    ASSUME CorrInv, Launch
    PROVE  SoundInv' /\ WaitInv'
  <1>1. /\ disp = "none" /\ stdin = <<>> /\ outbox = <<>> /\ stdout = <<>>
        /\ buffer = <<>> /\ records = <<>> /\ responses = {}
        /\ \A t \in Threads : call[t].at = "none"
    BY DEF Launch, CorrInv, QuietInv, Unlaunched, Active
  <1>2. UNCHANGED <<disp, stdin, outbox, stdout, buffer, records, responses, call>>
    BY DEF Launch, queues
  <1>3. InHand' = <<>> /\ Held(InHand)' = {} /\ Sorted(InHand)'
    BY <1>1, <1>2, EmptyList DEF InHand
  <1>4. Named' = {}
    BY <1>1, <1>2, <1>3, EmptyList DEF Named
  <1>5. LineInv'
    <2>1. Chain(InHand, records, stdout, outbox)'
      BY <1>1, <1>2, <1>3, EmptyList DEF Chain, Ahead
    <2> QED
      BY <1>1, <1>2, <1>4, <2>1, EmptyList DEF LineInv, Ahead
  <1>6. \A t \in Threads : call'[t].op # "messages.export"
    <2>1. \A t \in Threads : call[t] = Nobody
      BY <1>1 DEF CorrInv, TypeInv, TypeOK, CallType
    <2> QED
      BY <1>2, <2>1 DEF Nobody
  <1>7. IdsInv'
    BY <1>1, <1>2, <1>6, EmptyList DEF IdsInv
  <1>8. CountInv'
    BY <1>1, <1>2 DEF CountInv, Waits
  <1>9. WaitInv'
    BY <1>1, <1>2, <1>4, EmptyList DEF WaitInv
  <1> QED
    BY <1>5, <1>7, <1>8, <1>9 DEF SoundInv

(***************************************************************************)
(* The dispatcher, in any session.                                         *)
(***************************************************************************)
LEMMA DispStays ==
    ASSUME DispInv, UNCHANGED <<call, disp, hand, process>>, responses' \subseteq responses,
           owner' # "launched" \/ owner' = owner, owner' # "stop.clear" \/ owner' = owner
    PROVE  DispInv'
  BY DEF DispInv, Active

LEMMA DispSends ==
    ASSUME TypeInv, DispInv, NEW t \in Threads, NEW op, Send(t, op) \/ SendRefused(t),
           t = Dispatcher => disp = "stop" /\ op = "shutdown"
    PROVE  DispInv'
  <1>1. call \in [Threads -> CallType] /\ Dispatcher \in Threads
    BY DEF TypeInv, TypeOK, Threads
  <1>2. CASE Send(t, op)
    <2>1. UNCHANGED <<disp, hand, process, owner, responses>>
      BY <1>2 DEF Send
    <2>2. CASE t = Dispatcher
      <3>1. disp' = "stop" /\ call'[Dispatcher].op = "shutdown"
        BY <1>1, <1>2, <2>1, <2>2 DEF Send
      <3> QED
        BY <2>1, <3>1 DEF DispInv
    <2>3. CASE t # Dispatcher
      <3>1. call'[Dispatcher] = call[Dispatcher]
        BY <1>1, <1>2, <2>3 DEF Send
      <3> QED
        BY <2>1, <3>1 DEF DispInv, Active
    <2> QED
      BY <2>2, <2>3
  <1>3. CASE SendRefused(t)
    <2>1. UNCHANGED <<hand, process, responses>> /\ Returns(t, FALSE)
      BY <1>3 DEF SendRefused, queues
    <2>2. owner' = owner \/ owner' \in {"stop.close", "idle", "stop.begin"}
      BY <2>1 DEF Returns
    <2>3. CASE t = Dispatcher
      <3>1. disp = "stop" /\ disp' = "run" /\ ~Active(Dispatcher)' /\ owner' = owner
        BY <1>1, <2>1, <2>3 DEF Returns, Active, Nobody, Owner, Dispatcher
      <3> QED
        BY <2>1, <3>1 DEF DispInv
    <2>4. CASE t # Dispatcher
      <3>1. disp' = disp /\ call'[Dispatcher] = call[Dispatcher]
        BY <1>1, <2>1, <2>4 DEF Returns
      <3> QED
        BY <2>1, <2>2, <3>1 DEF DispInv, Active
    <2> QED
      BY <2>3, <2>4
  <1> QED
    BY <1>2, <1>3

LEMMA DispRequesting ==
    ASSUME TypeInv, DispInv, NEW t \in Threads, Requesting(t)
    PROVE  DispInv'
  <1>1. call \in [Threads -> CallType] /\ Dispatcher \in Threads
    BY DEF TypeInv, TypeOK, Threads
  <1>2. Active(t) /\ UNCHANGED <<hand, process>> /\ responses' \subseteq responses
    BY DEF Requesting, SendTooLarge, WriteBlocks, Write, AtWrite, WriteFails, TakeResponse,
       GiveUp, TimesOut, Active, queues
  <1>3. \/ \E ok \in BOOLEAN : Returns(t, ok)
        \/ t # Dispatcher /\ Written(t) /\ ~Returns(t, TRUE)
        \/ WriteBlocks(t)
    BY DEF Requesting, SendTooLarge, Write, Written, WriteFails, TakeResponse, GiveUp, TimesOut
  <1>4. ASSUME NEW ok \in BOOLEAN, Returns(t, ok)
        PROVE  DispInv'
    <2>1. owner' = owner \/ owner' \in {"stop.close", "idle", "stop.begin"}
      BY <1>4 DEF Returns
    <2>2. CASE t = Dispatcher
      <3>1. disp = "stop" /\ disp' = "run" /\ ~Active(Dispatcher)' /\ owner' = owner
        BY <1>1, <1>2, <1>4, <2>2 DEF Returns, Active, Nobody, Owner, Dispatcher, DispInv
      <3> QED
        BY <1>2, <3>1 DEF DispInv
    <2>3. CASE t # Dispatcher
      <3>1. disp' = disp /\ call'[Dispatcher] = call[Dispatcher]
        BY <1>1, <1>4, <2>3 DEF Returns
      <3> QED
        BY <1>2, <2>1, <3>1 DEF DispInv, Active
    <2> QED
      BY <2>2, <2>3
  <1>5. CASE t # Dispatcher /\ Written(t) /\ ~Returns(t, TRUE)
    <2>1. UNCHANGED <<disp, owner>> /\ call'[Dispatcher] = call[Dispatcher]
      BY <1>1, <1>5 DEF Written
    <2> QED
      BY <1>2, <2>1 DEF DispInv, Active
  <1>6. CASE WriteBlocks(t)
    <2>1. /\ UNCHANGED <<disp, owner>>
          /\ call' = [call EXCEPT ![t].at = "write"]
      BY <1>6 DEF WriteBlocks
    <2>2. CASE t = Dispatcher
      <3>1. disp = "stop" /\ call[Dispatcher].op = "shutdown"
        BY <1>2, <2>2 DEF DispInv
      <3>2. call'[Dispatcher].op = call[Dispatcher].op
        <4>1. call[t] \in CallType /\ call[t] # Nobody
          BY <1>1, <1>2 DEF Active, Nobody
        <4>2. call[t] \in [at : {"send", "write", "wait"}, op : Operations, id : Nat, session : Nat]
          BY <4>1 DEF CallType
        <4>3. call'[t] = [call[t] EXCEPT !.at = "write"]
          BY <1>1, <2>1
        <4> QED
          BY <2>2, <4>2, <4>3
      <3> QED
        BY <1>2, <2>1, <3>1, <3>2 DEF DispInv
    <2>3. CASE t # Dispatcher
      <3>1. call'[Dispatcher] = call[Dispatcher]
        BY <1>1, <2>1, <2>3
      <3> QED
        BY <1>2, <2>1, <3>1 DEF DispInv, Active
    <2> QED
      BY <2>2, <2>3
  <1> QED
    BY <1>3, <1>4, <1>5, <1>6

LEMMA DispStep ==
    ASSUME CorrInv, DispInv, [Next]_vars
    PROVE  DispInv'
  <1> USE DEF worker, queues, flags
  <1>0. TypeInv
    BY DEF CorrInv
  <1>1. CASE Rests \/ UNCHANGED vars
    BY <1>1, DispStays DEF Rests, vars
  <1>2. CASE OwnerStarts \/ OwnerGoesOn \/ OwnerStops
    <2>1. CASE OwnerSends("hello", "hello") \/ OwnerSends("stop.ask", "shutdown")
      <3>1. /\ Owner \in Threads /\ Owner # Dispatcher
            /\ (\E op : Send(Owner, op)) \/ SendRefused(Owner)
        BY <2>1 DEF OwnerSends, Threads, Owner, Dispatcher
      <3> QED
        BY <1>0, <3>1, DispSends
    <2>2. CASE StartReset
      BY <2>2 DEF StartReset, Reset, DispInv, Active
    <2>3. CASE Launch
      <3>1. disp = "none" /\ ~Active(Dispatcher)
        BY <2>3 DEF Launch, CorrInv, QuietInv, Unlaunched, DispInv
      <3>2. UNCHANGED <<disp, call, hand>> /\ process' = TRUE /\ owner' = "launched"
        BY <2>3 DEF Launch
      <3> QED
        BY <3>1, <3>2 DEF DispInv, Active
    <2>4. CASE StartDispatcher
      <3>1. disp = "none" /\ process /\ ~Active(Dispatcher)
        BY <2>4 DEF StartDispatcher, DispInv
      <3> QED
        BY <2>4, <3>1 DEF StartDispatcher, DispInv, Active
    <2>5. CASE StopJoined
      <3>1. /\ ~Active(Dispatcher) /\ disp' = "none" /\ owner' = "stop.clear"
            /\ UNCHANGED <<call, process, hand, responses>>
        BY <2>5 DEF StopJoined, DispInv
      <3> QED
        BY <3>1 DEF DispInv, Active
    <2>6. CASE StopClear
      BY <2>6 DEF StopClear, Reset, DispInv, Active
    <2>7. CASE LaunchFails \/ StopBegin \/ StopCloseStdin \/ StopExited \/ StopKill \/ StopFlag
                 \/ StopRelease
      BY <2>7, DispStays DEF LaunchFails, StopBegin, StopCloseStdin, StopExited, StopKill,
         StopFlag, StopRelease
    <2> QED
      BY <1>2, <2>1, <2>2, <2>3, <2>4, <2>5, <2>6, <2>7 DEF OwnerStarts, OwnerGoesOn, OwnerStops
  <1>3. ASSUME NEW t \in Callers, CallerSends(t)
        PROVE  DispInv'
    <2>1. PICK op \in CallerOps : Send(t, op)
      BY <1>3 DEF CallerSends
    <2>2. t \in Threads /\ t # Dispatcher
      BY ClientAssumption DEF Threads
    <2> QED
      BY <1>0, <2>1, <2>2, DispSends
  <1>4. ASSUME NEW t \in Threads, Requesting(t)
        PROVE  DispInv'
    BY <1>0, <1>4, DispRequesting
  <1>5. CASE Dispatches
    <2>1. CASE HandlerSends
      <3>1. /\ Dispatcher \in Threads /\ disp = "stop"
            /\ Send(Dispatcher, "shutdown") \/ SendRefused(Dispatcher)
        BY <2>1 DEF HandlerSends, Threads
      <3> QED
        BY <1>0, <3>1, DispSends
    <2>2. CASE ~HandlerSends
      <3>1. /\ UNCHANGED <<call, owner, process>> /\ disp \in {"run", "call"} /\ disp' # "none"
            /\ disp' = "call" => ~Terminal(hand')
        BY <1>5, <2>2 DEF Dispatches, DispatchTerminal, DispatchEvent, HandlerReturns,
           HandlerThrows, HandlerStops, DispatcherEnds, Takes, DispInv
      <3>2. ~Active(Dispatcher) /\ process /\ owner \notin {"stop.clear", "launched"}
        BY <3>1 DEF DispInv
      <3> QED
        BY <3>1, <3>2 DEF DispInv, Active
    <2> QED
      BY <2>1, <2>2
  <1>6. CASE Reads \/ Works
    BY <1>6, DispStays DEF Reads, OnStdout, Works, WorkerReads, WorkerWrites, WorkerLive,
       WorkerFatal, WorkerBabbles, WorkerExits, ClientSide
  <1> QED
    BY <1>1, <1>2, <1>3, <1>4, <1>5, <1>6 DEF Next

(***************************************************************************)
(* The inductive invariant of the three theorems below.                    *)
(***************************************************************************)
SessionInv ==
    /\ CorrInv /\ DispInv
    /\ Sound => SoundInv
    /\ Sound /\ ~dispatcherStop => WaitInv

LEMMA SessionInit == Init => SessionInv
  <1> SUFFICES ASSUME Init PROVE SessionInv
    OBVIOUS
  <1>1. CorrInv
    BY InitCorr
  <1>2. /\ disp = "none" /\ owner = "idle" /\ responses = {} /\ process = FALSE
        /\ call = [t \in Threads |-> Nobody] /\ Dispatcher \in Threads
    BY DEF Init, Threads
  <1>3. ~Active(Dispatcher)
    BY <1>2 DEF Active, Nobody
  <1>4. DispInv
    BY <1>2, <1>3 DEF DispInv
  <1>5. ~Sound
    BY <1>2 DEF Sound
  <1> QED
    BY <1>1, <1>4, <1>5 DEF SessionInv

LEMMA SessionStep ==
    ASSUME MaxSessions = 1, SessionInv, [Next]_vars
    PROVE  SessionInv'
  <1>1. CorrInv /\ DispInv
    BY DEF SessionInv
  <1>2. CorrInv' /\ DispInv'
    BY <1>1, CorrStep, DispStep
  <1>3. ASSUME Sound'
        PROVE  SoundInv' /\ (~dispatcherStop' => WaitInv')
    <2>1. CASE Sound
      <3>1. SoundInv' /\ KeepsWait
        BY <1>1, <1>2, <1>3, <2>1, SoundStep DEF SessionInv
      <3>2. dispatcherStop => dispatcherStop'
        BY <1>3, <2>1, OnlyLaunch
      <3>3. expired \subseteq expired'
        BY <1>3, <2>1, OnlyExpires
      <3> QED
        BY <2>1, <3>1, <3>2, <3>3 DEF SessionInv, KeepsWait
    <2>2. CASE ~Sound
      <3>1. Launch
        BY <1>3, <2>2, OnlyLaunch
      <3> QED
        BY <1>1, <3>1, LaunchSound
    <2> QED
      BY <2>1, <2>2
  <1> QED
    BY <1>2, <1>3 DEF SessionInv

LEMMA CollectsAll ==
    ASSUME SessionInv, [Next]_vars, NEW t \in Threads, Collects(t), ~failed,
           NEW r \in responses, r \notin responses'
    PROVE  seen[t] = r.n
  <1>1. CorrInv /\ DispInv
    BY DEF SessionInv
  <1>2. Belongs(r, t) /\ Waits(t)
    BY <1>1, CollectsOurs DEF Collects, Waits
  <1>3. Sound
    BY <1>1 DEF DispInv, Sound
  <1> QED
    BY <1>2, <1>3 DEF SessionInv, SoundInv, CountInv, Belongs

LEMMA AwaitedBelongs ==
    ASSUME CorrInv, NEW x \in OurRecords, x.id # 0, Awaited(x), x.by \in Threads
    PROVE  x.id \in expired \/ (call[x.by].at = "wait" /\ Belongs(x, x.by))
  <1> SUFFICES ASSUME x.id \notin expired
               PROVE  call[x.by].at = "wait" /\ Belongs(x, x.by)
    OBVIOUS
  <1>1. call[x.by].at = "wait" /\ call[x.by].id = x.id /\ x.session = session
    BY DEF Awaited, Waits, OurRecords, Ours
  <1>2. call[x.by].session = session
    BY <1>1 DEF CorrInv, CallsInv, Active
  <1> QED
    BY <1>1, <1>2 DEF Belongs

LEMMA SessionKept ==
    ASSUME SessionInv
    PROVE  CallbackWithinRequest /\ KeptIsAwaited
  <1>1. CorrInv /\ DispInv
    BY DEF SessionInv
  <1>2. ASSUME disp = "call", hand.id # 0, ~failed, ~dispatcherStop
        PROVE  hand.id \in expired \/ (call[hand.by].at = "wait" /\ Belongs(hand, hand.by))
    <2>1. Sound
      BY <1>1, <1>2 DEF DispInv, Sound
    <2>2. SoundInv /\ WaitInv
      BY <1>2, <2>1 DEF SessionInv
    <2>3. hand \in Named /\ hand \in OurRecords
      BY <1>2, <2>2, OneList DEF Named, InHand, SoundInv, LineInv
    <2>4. ~Terminal(hand) /\ hand.by \in Threads
      BY <1>1, <1>2, <2>2, <2>3, AllBy DEF DispInv, SoundInv
    <2>5. Awaited(hand)
      BY <2>2, <2>3, <2>4 DEF WaitInv
    <2> QED
      BY <1>1, <1>2, <2>3, <2>4, <2>5, AwaitedBelongs
  <1>3. ASSUME ~failed, ~dispatcherStop, NEW r \in responses, r.by # Dispatcher
        PROVE  r.id \in expired \/ (call[r.by].at = "wait" /\ Belongs(r, r.by))
    <2>1. Sound
      BY <1>1, <1>3 DEF DispInv, Sound
    <2>2. SoundInv /\ WaitInv
      BY <1>3, <2>1 DEF SessionInv
    <2>3. Awaited(r) /\ r.id # 0
      BY <1>3, <2>2 DEF WaitInv, SoundInv, LineInv
    <2>4. r \in OurRecords
      BY <1>1, <1>3 DEF CorrInv, QueuesInv
    <2>5. r.by \in Threads
      BY <2>2, <1>1, AllBy DEF SoundInv
    <2> QED
      BY <1>1, <2>3, <2>4, <2>5, AwaitedBelongs
  <1> QED
    BY <1>2, <1>3 DEF CallbackWithinRequest, KeptIsAwaited

(***************************************************************************)
(* Within one session that has not failed, a request that returns the      *)
(* summary of an export has had every event it counts taken by its         *)
(* callback: on_stdout, the dispatcher and wait_for_response lose and      *)
(* reorder nothing, with any callers, limits, timeouts and crashes.        *)
(***************************************************************************)
THEOREM NothingMissing ==
    ASSUME MaxSessions = 1
    PROVE  Spec => ExportComplete
<1>1. SessionInv /\ [Next]_vars => SessionInv'
  BY SessionStep
<1>2. SessionInv /\ [Next]_vars =>
        [\A t \in Threads : Collects(t) /\ ~failed =>
           \A r \in responses \ responses' : r.type = "response" => seen[t] = r.n]_vars
  BY CollectsAll
<1> QED
  BY <1>1, <1>2, SessionInit, PTL DEF Spec, ExportComplete

(***************************************************************************)
(* In one session that neither failed nor stops, a callback that refers to *)
(* its caller's variables runs only while that caller is inside request()  *)
(* (lines 469-492), or after its wait has timed out: the dispatcher has    *)
(* passed on all events before the answer.                                 *)
(***************************************************************************)
THEOREM CallbackInTime ==
    ASSUME MaxSessions = 1
    PROVE  Spec => []CallbackWithinRequest
<1>1. SessionInv /\ [Next]_vars => SessionInv'
  BY SessionStep
<1>2. SessionInv => CallbackWithinRequest
  BY SessionKept
<1> QED
  BY <1>1, <1>2, SessionInit, PTL DEF Spec

(***************************************************************************)
(* In one session that neither failed nor stops, responses_ (line 602)     *)
(* holds only what a thread still waits for, what came after the wait for  *)
(* it had timed out (line 478), and the answer to a callback's shutdown.   *)
(***************************************************************************)
THEOREM KeptForSomebody ==
    ASSUME MaxSessions = 1
    PROVE  Spec => []KeptIsAwaited
<1>1. SessionInv /\ [Next]_vars => SessionInv'
  BY SessionStep
<1>2. SessionInv => KeptIsAwaited
  BY SessionKept
<1> QED
  BY <1>1, <1>2, SessionInit, PTL DEF Spec
=============================================================================
