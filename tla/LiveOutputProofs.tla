-------------------------- MODULE LiveOutputProofs --------------------------
(***************************************************************************)
(* Theorems about what LiveWorker writes, for every number of chats,       *)
(* messages, generations and requests: the order of live messages, one     *)
(* terminal record per request, the frame of an export, the exit code, and *)
(* that the host's view of it implements LiveFeed.                         *)
(***************************************************************************)
EXTENDS LiveWorkerProofs, FiniteSetTheorems

(***************************************************************************)
(* The order of live messages.  A message is in the batch of its thread,   *)
(* then in pending, flush or out, and each of these lists is in order and  *)
(* behind the next one.                                                    *)
(***************************************************************************)
SameChat(r, q) ==
    r.what = "message" /\ q.what = "message" /\ r.gen = q.gen /\ r.chat = q.chat

Above(s, r) == \A j \in DOMAIN s : SameChat(s[j], r) => s[j].n < r.n
Below(r, s) == \A j \in DOMAIN s : SameChat(r, s[j]) => r.n < s[j].n
Ascends(s) == \A j, k \in DOMAIN s : j < k /\ SameChat(s[j], s[k]) => s[j].n < s[k].n
Precedes(s, t) == \A j \in DOMAIN s, k \in DOMAIN t : SameChat(s[j], t[k]) => s[j].n < t[k].n

Lists(o, f, p) ==
    /\ Ascends(o) /\ Ascends(f) /\ Ascends(p)
    /\ Precedes(o, f) /\ Precedes(o, p) /\ Precedes(f, p)

\* A message that was handed over: newer than its listener, and older than
\* what its thread still has of the chat.
Passed(r) ==
    r.what = "message" =>
        /\ r.gen \in Gens /\ r.gen <= liveGeneration /\ r.chat \in Chats /\ r.n \in Nat
        /\ baseline[r.gen][r.chat] < r.n /\ r.n <= watches[r.gen][r.chat]
        /\ poller[r.gen] = "emit" /\ turn[r.gen] = r.chat =>
             \A i \in DOMAIN batch[r.gen] : r.n < batch[r.gen][i]

PassedAll(s) == \A k \in DOMAIN s : Passed(s[k])

\* What a thread has still to hand over.
BatchOrder ==
    \A g \in Gens : poller[g] = "emit" =>
        /\ \A i, j \in DOMAIN batch[g] : i < j => batch[g][i] < batch[g][j]
        /\ \A i \in DOMAIN batch[g] :
             baseline[g][turn[g]] < batch[g][i] /\ batch[g][i] <= watches[g][turn[g]]

MarksInv ==
    \A g \in Gens : /\ poller[g] # "unborn" => g <= liveGeneration
                    /\ \A c \in Chats : baseline[g][c] <= watches[g][c]

\* Nothing is kept back while events are on, nor in flush but while flushing.
KeptInv ==
    /\ main # "listen.flushing" => flush = <<>>
    /\ eventsReady => pending = <<>>

OrderInv ==
    /\ Lists(out, flush, pending)
    /\ PassedAll(out) /\ PassedAll(flush) /\ PassedAll(pending)
    /\ BatchOrder /\ MarksInv /\ KeptInv
-----------------------------------------------------------------------------
(***************************************************************************)
(* The lists, when a record is appended, moved or dropped.                 *)
(***************************************************************************)
LEMMA Appended ==
    ASSUME NEW s \in Seq(Records), NEW r \in Records
    PROVE  /\ Append(s, r) \in Seq(Records) /\ Len(s) \in Nat /\ DOMAIN s = 1..Len(s)
           /\ DOMAIN Append(s, r) = 1..(Len(s) + 1)
           /\ Append(s, r)[Len(s) + 1] = r
           /\ \A k \in DOMAIN s : Append(s, r)[k] = s[k] /\ k \in DOMAIN Append(s, r)
           /\ \A k \in DOMAIN Append(s, r) : k \in DOMAIN s \/ k = Len(s) + 1
  <1>1. Len(s) \in Nat /\ DOMAIN s = 1..Len(s)
    BY LenProperties
  <1>2. Append(s, r) \in Seq(Records) /\ Len(Append(s, r)) = Len(s) + 1
        /\ Append(s, r)[Len(s) + 1] = r /\ \A k \in 1..Len(s) : Append(s, r)[k] = s[k]
    BY <1>1, AppendProperties
  <1>3. DOMAIN Append(s, r) = 1..(Len(s) + 1)
    BY <1>2, LenProperties
  <1> QED
    BY <1>1, <1>2, <1>3

LEMMA AppendAscends ==
    ASSUME NEW s \in Seq(Records), NEW r \in Records, Ascends(s), Above(s, r)
    PROVE  Ascends(Append(s, r))
  <1> DEFINE t == Append(s, r)
  <1> SUFFICES ASSUME NEW j \in DOMAIN t, NEW k \in DOMAIN t, j < k, SameChat(t[j], t[k])
               PROVE  t[j].n < t[k].n
    BY DEF Ascends
  <1>1. /\ Len(s) \in Nat /\ DOMAIN s = 1..Len(s) /\ t[Len(s) + 1] = r
        /\ DOMAIN t = 1..(Len(s) + 1)
        /\ \A i \in DOMAIN s : t[i] = s[i]
        /\ j \in DOMAIN s \/ j = Len(s) + 1
        /\ k \in DOMAIN s \/ k = Len(s) + 1
    BY Appended
  <1> HIDE DEF t
  <1>2. j \in DOMAIN s
    BY <1>1
  <1>3. CASE k \in DOMAIN s
    BY <1>1, <1>2, <1>3 DEF Ascends
  <1>4. CASE k = Len(s) + 1
    BY <1>1, <1>2, <1>4 DEF Above
  <1> QED
    BY <1>1, <1>3, <1>4

LEMMA AppendPrecedes ==
    ASSUME NEW s \in Seq(Records), NEW r \in Records, NEW t
    PROVE  /\ Precedes(s, t) /\ Below(r, t) => Precedes(Append(s, r), t)
           /\ Precedes(t, s) /\ Above(t, r) => Precedes(t, Append(s, r))
  <1> DEFINE u == Append(s, r)
  <1>1. /\ u[Len(s) + 1] = r /\ \A k \in DOMAIN s : u[k] = s[k]
        /\ \A k \in DOMAIN u : k \in DOMAIN s \/ k = Len(s) + 1
    BY Appended
  <1> HIDE DEF u
  <1>2. Precedes(s, t) /\ Below(r, t) => Precedes(u, t)
    BY <1>1 DEF Precedes, Below
  <1>3. Precedes(t, s) /\ Above(t, r) => Precedes(t, u)
    BY <1>1 DEF Precedes, Above
  <1> QED
    BY <1>2, <1>3 DEF u

LEMMA AppendPassed ==
    ASSUME NEW s \in Seq(Records), NEW r \in Records, PassedAll(s), Passed(r)
    PROVE  PassedAll(Append(s, r))
  <1>1. \A k \in DOMAIN Append(s, r) : Append(s, r)[k] = r \/
          (k \in DOMAIN s /\ Append(s, r)[k] = s[k])
    BY Appended
  <1> QED
    BY <1>1 DEF PassedAll

\* The empty list, the head and the tail.
LEMMA EmptyList ==
    /\ Ascends(<<>>) /\ PassedAll(<<>>)
    /\ \A s : Precedes(s, <<>>) /\ Precedes(<<>>, s)
    /\ \A r : Above(<<>>, r) /\ Below(r, <<>>)
  <1>1. DOMAIN <<>> = {}
    BY EmptySeq, LenProperties
  <1> QED
    BY <1>1 DEF Ascends, Precedes, Above, Below, PassedAll

LEMMA TailLists ==
    ASSUME NEW s \in Seq(Records), s # <<>>
    PROVE  /\ Head(s) \in Records /\ Tail(s) \in Seq(Records)
           /\ Head(s) = s[1] /\ 1 \in DOMAIN s
           /\ \A k \in DOMAIN Tail(s) : k \in Nat /\ k >= 1 /\ k + 1 \in DOMAIN s /\ Tail(s)[k] = s[k + 1]
  BY HeadTailProperties, LenProperties, EmptySeq

LEMMA HeadMoves ==
    ASSUME NEW o \in Seq(Records), NEW f \in Seq(Records), NEW p \in Seq(Records),
           f # <<>>, Lists(o, f, p)
    PROVE  Lists(Append(o, Head(f)), Tail(f), p)
  <1> DEFINE h == Head(f)
             t == Tail(f)
  <1>1. /\ h \in Records /\ h = f[1] /\ 1 \in DOMAIN f
        /\ \A k \in DOMAIN t : k \in Nat /\ k >= 1 /\ k + 1 \in DOMAIN f /\ t[k] = f[k + 1]
    BY TailLists
  <1> HIDE DEF h, t
  <1>2. Above(o, h) /\ Below(h, p) /\ Precedes(o, t) /\ Precedes(t, p)
    BY <1>1 DEF Lists, Precedes, Above, Below
  <1>3. Below(h, t)
    <2> SUFFICES ASSUME NEW k \in DOMAIN t, SameChat(h, t[k]) PROVE h.n < t[k].n
      BY DEF Below
    <2>1. 1 < k + 1 /\ k + 1 \in DOMAIN f /\ t[k] = f[k + 1]
      BY <1>1
    <2> QED
      BY <1>1, <2>1 DEF Lists, Ascends
  <1>4. Ascends(t)
    <2> SUFFICES ASSUME NEW j \in DOMAIN t, NEW k \in DOMAIN t, j < k, SameChat(t[j], t[k])
                 PROVE  t[j].n < t[k].n
      BY DEF Ascends
    <2>1. /\ j + 1 < k + 1 /\ j + 1 \in DOMAIN f /\ k + 1 \in DOMAIN f
          /\ t[j] = f[j + 1] /\ t[k] = f[k + 1]
      BY <1>1
    <2> QED
      BY <2>1 DEF Lists, Ascends
  <1>5. Ascends(Append(o, h)) /\ Precedes(Append(o, h), t) /\ Precedes(Append(o, h), p)
    BY <1>1, <1>2, <1>3, AppendAscends, AppendPrecedes DEF Lists
  <1> QED
    BY <1>2, <1>4, <1>5 DEF Lists, h, t
-----------------------------------------------------------------------------
(***************************************************************************)
(* Steps of the main thread.  All but two write no message and leave the   *)
(* lists as they are or empty.                                             *)
(***************************************************************************)
Plain(r) == r \in Records /\ r.what # "message"

PlainStep ==
    /\ UNCHANGED out \/ \E r : Plain(r) /\ Write(r)
    /\ flush' = <<>> \/ (flush' = flush /\ (main # "listen.flushing" \/ main' = main))
    /\ pending' = <<>> \/ (pending' = pending /\ (eventsReady' => eventsReady))

LEMMA ServerPlain ==
    ASSUME ServerTypeOK
    PROVE  /\ \A what \in Whats \ {"message"} :
                 /\ Plain(Response(what)) /\ Plain(Exported(what))
                 /\ Plain(Error(what)) /\ Plain(ExportEvent(what))
           /\ \A g \in Nat : Plain(Accepted(g)) /\ Plain(LiveError(g))
           /\ Plain(SessionError)
           /\ Plain(Record("error", 0, "zeroId", 0, 0, requestId + 1))
  <1>1. /\ \A what \in Whats \ {"message"} :
              /\ Response(what).what # "message" /\ Exported(what).what # "message"
              /\ Error(what).what # "message" /\ ExportEvent(what).what # "message"
        /\ \A g \in Nat : Accepted(g).what # "message" /\ LiveError(g).what # "message"
        /\ SessionError.what # "message"
        /\ Record("error", 0, "zeroId", 0, 0, requestId + 1).what # "message"
    BY DEF Response, Exported, Error, ExportEvent, Accepted, LiveError, SessionError, Record
  <1> QED
    BY <1>1, ServerRecords DEF Plain

LEMMA ReadsPlain ==
    ASSUME ServerTypeOK, Reads
    PROVE  PlainStep
  <1> USE DEF PlainStep, local, flags, LoopTop
  <1>1. ASSUME NEW op \in Operations, ReadRequest(op) PROVE PlainStep
    BY <1>1 DEF ReadRequest
  <1>2. CASE ReadZeroId \/ ReadGarbage \/ ReadEof
    BY <1>2, ServerPlain DEF ReadZeroId, ReadGarbage, ReadEof
  <1> QED
    BY <1>1, <1>2 DEF Reads

LEMMA HandlesPlain ==
    ASSUME ServerTypeOK, ExcKnown, LiveTypeOK, HandlesRequest, ~ListenFlush, ~FlushRecord
    PROVE  PlainStep
  <1> USE DEF PlainStep, Goto, Return, local, flags
  <1>1. ASSUME NEW r, Plain(r), Answer(r) PROVE PlainStep
    BY <1>1 DEF Answer
  <1>2. ASSUME NEW kind \in {"error", "fatal", "refused"}, AnswerBackendError(kind),
               main # "listen.flushing"
        PROVE  PlainStep
    BY <1>2, ServerPlain DEF AnswerBackendError, Whats
  <1>3. ASSUME TooLong, main # "listen.flushing" PROVE PlainStep
    BY <1>3 DEF TooLong
  <1>4. CASE AnswerHello \/ StopReply \/ Fallback \/ ExportInvalid \/ ListenInvalid
               \/ ListenRefused \/ ExportTruncate \/ ExportEnd
    BY <1>1, <1>4, ServerPlain DEF AnswerHello, StopReply, Fallback, ExportInvalid,
       ListenInvalid, ListenRefused, ExportTruncate, ExportEnd, Whats
  <1>5. CASE AnswerQuery
    BY <1>1, <1>2, <1>3, <1>5, ServerPlain DEF AnswerQuery, Whats
  <1>6. CASE AnswerUnknown
    BY <1>1, <1>6, ServerPlain DEF AnswerUnknown, Whats
  <1>7. CASE AnswerShutdown \/ ExportStart \/ ExportMessage
    BY <1>7, ServerPlain DEF AnswerShutdown, ExportStart, ExportMessage, Whats
  <1>8. CASE ExportFails
    <2>1. CASE AnswerCrash
      BY <1>8, <2>1, ServerPlain DEF AnswerCrash, ExportFails, Whats
    <2> QED
      BY <1>2, <1>3, <1>8, <2>1 DEF ExportFails
  <1>9. CASE ListenFailed
    <2>1. exc \in {"error", "fatal", "refused"} /\ main # "listen.flushing"
      BY <1>9 DEF ListenFailed, ExcKnown, ServerTypeOK
    <2> QED
      BY <1>2, <1>3, <1>9, <2>1 DEF ListenFailed
  <1>10. CASE ListenReply(liveGeneration)
    <2>1. liveGeneration \in Nat /\ main # "listen.flushing"
      BY <1>10, LiveAssumption DEF LiveTypeOK, ListenReply
    <2> QED
      BY <1>3, <1>10, <2>1, ServerPlain DEF ListenReply
  <1>11. CASE ListenArm \/ ListenFlag \/ FlushRaises \/ FlushDone \/ StopCheck \/ LoopEnds
    BY <1>11 DEF ListenArm, ListenFlag, FlushRaises, FlushDone, StopCheck, LoopEnds
  <1> QED
    BY <1>4, <1>5, <1>6, <1>7, <1>8, <1>9, <1>10, <1>11 DEF HandlesRequest

LEMMA CallsPlain ==
    ASSUME CallsBackend
    PROVE  PlainStep
  <1> USE DEF PlainStep, Goto, local, flags, serverVars
  <1>1. CASE CallStart \/ CallStop \/ CallStopSignals
    BY <1>1 DEF CallStart, CallStop, CallStopSignals, InStop
  <1>2. CASE CallStartRefused \/ CallStartFails \/ CallStartReturns
    BY <1>2 DEF CallStartRefused, CallStartFails, CallStartReturns, ListenAborted, ListenStarted
  <1>3. CASE CallStopReturns
    BY <1>3 DEF CallStopReturns, StopReturned, CloseReturned
  <1> QED
    BY <1>1, <1>2, <1>3 DEF CallsBackend

\* What a plain step does to the lists.
LEMMA PlainLists ==
    ASSUME ServerTypeOK, Lists(out, flush, pending), KeptInv, PlainStep
    PROVE  /\ Lists(out, flush, pending)' /\ KeptInv'
           /\ \/ UNCHANGED out
              \/ \E r \in Records : r.what # "message" /\ out' = Append(out, r)
           /\ flush' \in {flush, <<>>} /\ pending' \in {pending, <<>>}
  <1>1. KeptInv'
    BY DEF KeptInv, PlainStep
  <1>2. flush' \in {flush, <<>>} /\ pending' \in {pending, <<>>}
    BY DEF PlainStep
  <1>3. /\ UNCHANGED out \/ \E r \in Records : r.what # "message" /\ out' = Append(out, r)
    BY DEF PlainStep, Plain, Write
  <1>4. Ascends(out') /\ Precedes(out', flush) /\ Precedes(out', pending)
    <2>1. CASE UNCHANGED out
      BY <2>1 DEF Lists
    <2>2. ASSUME NEW r \in Records, r.what # "message", out' = Append(out, r)
          PROVE  Ascends(out') /\ Precedes(out', flush) /\ Precedes(out', pending)
      <3>1. out \in Seq(Records) /\ Above(out, r) /\ Below(r, flush) /\ Below(r, pending)
        BY <2>2 DEF ServerTypeOK, Above, Below, SameChat
      <3> QED
        BY <2>2, <3>1, AppendAscends, AppendPrecedes DEF Lists
    <2> QED
      BY <1>3, <2>1, <2>2
  <1>5. Lists(out', flush', pending')
    BY <1>2, <1>4, EmptyList DEF Lists
  <1> QED
    BY <1>1, <1>2, <1>3, <1>5
-----------------------------------------------------------------------------
(***************************************************************************)
(* Steps of the backend.  What was handed over stays so, and what a thread *)
(* hands over comes after it.                                              *)
(***************************************************************************)
BackOrder == BatchOrder /\ MarksInv

\* All that Passed, BatchOrder and MarksInv look at.
backMarks == <<liveGeneration, poller, turn, batch, watches, baseline>>

LEMMA SameMarks ==
    ASSUME BackOrder, UNCHANGED backMarks
    PROVE  BackOrder' /\ \A r : Passed(r) => Passed(r)'
  BY DEF BackOrder, BatchOrder, MarksInv, Passed, backMarks

LEMMA BackendOrder ==
    ASSUME BackendInv, BackOrder, BackendStep
    PROVE  BackOrder' /\ \A r : Passed(r) => Passed(r)'
  <1>1. CASE UNCHANGED backMarks
    BY <1>1, SameMarks
  <1>2. CASE StartThread
    <2> DEFINE g == liveGeneration + 1
    <2>1. /\ g \in Gens /\ liveGeneration \in Nat /\ liveGeneration' = g
          /\ watches' = [watches EXCEPT ![g] = latest]
          /\ baseline' = [baseline EXCEPT ![g] = latest]
          /\ poller' = [poller EXCEPT ![g] = "top"]
          /\ UNCHANGED <<turn, batch>>
      BY <1>2, LiveAssumption DEF StartThread, BackendInv, LiveTypeOK, Gens
    <2>2. /\ watches \in [Gens -> [Chats -> Ids]] /\ baseline \in [Gens -> [Chats -> Ids]]
          /\ latest \in [Chats -> Ids] /\ DOMAIN poller = Gens
          /\ Ids \subseteq Nat /\ Gens \subseteq Nat
      BY LiveSets DEF BackendInv, LiveTypeOK
    <2> HIDE DEF g
    <2>3. /\ \A h \in Gens \ {g} : /\ watches'[h] = watches[h] /\ baseline'[h] = baseline[h]
                                   /\ poller'[h] = poller[h]
          /\ watches'[g] = latest /\ baseline'[g] = latest /\ poller'[g] = "top"
      BY <2>1, <2>2
    <2>4. \A c \in Chats : latest[c] <= latest[c]
      <3>1. \A c \in Chats : latest[c] \in Nat
        BY <2>2
      <3> QED
        BY <3>1
    <2>5. \A h \in Gens : h <= liveGeneration => h # g /\ h <= g
      BY <2>1, <2>2 DEF g
    <2>6. g <= g
      BY <2>1, <2>2
    <2>7. BatchOrder'
      BY <2>1, <2>3 DEF BackOrder, BatchOrder
    <2>8. MarksInv'
      BY <2>1, <2>3, <2>4, <2>5, <2>6 DEF BackOrder, MarksInv
    <2>9. \A r : Passed(r) => Passed(r)'
      BY <2>1, <2>3, <2>5 DEF Passed
    <2> QED
      BY <2>7, <2>8, <2>9 DEF BackOrder
  <1> QED
    BY <1>1, <1>2 DEF BackendStep, StartRefused, StartPrepare, StartFails, StopNothing, StopSwap,
       StopSet, StopJoined, liveVars, threadVars, backMarks

\* What is fetched is newer than the mark, in order, and reaches the new mark.
LEMMA NewerIdsOrder ==
    ASSUME LiveTypeOK, NEW c \in Chats, NEW mark \in Ids, latest[c] > mark
    PROVE  LET ids == NewerIds(c, mark)
           IN  /\ \A i, j \in DOMAIN ids : i < j => ids[i] < ids[j]
               /\ \A i \in DOMAIN ids : mark < ids[i] /\ ids[i] <= ids[Len(ids)]
               /\ mark <= ids[Len(ids)]
  <1> DEFINE n   == Lowest(FetchLimit, latest[c] - mark)
             ids == [k \in 1..n |-> mark + k]
  <1>1. latest[c] \in Nat /\ mark \in Nat /\ FetchLimit \in Nat \ {0}
    BY LiveAssumption, LiveSets DEF LiveTypeOK
  <1>2. n \in Nat /\ n >= 1
    BY <1>1 DEF Lowest
  <1>3. NewerIds(c, mark) = ids
    BY DEF NewerIds
  <1> HIDE DEF n
  <1>4. Len(ids) = n /\ DOMAIN ids = 1..n
    BY <1>2
  <1>5. \A i \in 1..n : ids[i] = mark + i
    OBVIOUS
  <1>6. /\ \A i, j \in 1..n : i < j => mark + i < mark + j
        /\ \A i \in 1..n : mark < mark + i /\ mark + i <= mark + n
        /\ mark <= mark + n /\ n \in 1..n
    BY <1>1, <1>2
  <1> HIDE DEF ids
  <1> QED
    BY <1>3, <1>4, <1>5, <1>6

\* The head of a batch is behind everything that was handed over.
LEMMA HeadIsNew ==
    ASSUME BackendInv, BackOrder, NEW g \in Gens, poller[g] = "emit"
    PROVE  /\ Found(g).what = "message" /\ Found(g).gen = g /\ Found(g).chat = turn[g]
           /\ Found(g).n = batch[g][1] /\ Found(g) \in [type : {"event"}, id : {0},
                what : {"message"}, gen : Gens, chat : Chats, n : Ids]
           /\ \A s : PassedAll(s) => Above(s, Found(g))
  <1>1. /\ batch[g] \in Seq(Ids) /\ batch[g] # <<>> /\ turn[g] \in Chats
    BY DEF BackendInv, BatchFilled, LiveTypeOK
  <1>2. Head(batch[g]) = batch[g][1] /\ Head(batch[g]) \in Ids /\ 1 \in DOMAIN batch[g]
    BY <1>1, HeadTailProperties, LenProperties, EmptySeq
  <1>3. /\ Found(g).what = "message" /\ Found(g).gen = g /\ Found(g).chat = turn[g]
        /\ Found(g).n = batch[g][1]
        /\ Found(g) \in [type : {"event"}, id : {0}, what : {"message"}, gen : Gens,
                          chat : Chats, n : Ids]
    BY <1>1, <1>2 DEF Found, LiveMessage, Record
  <1>4. \A s : PassedAll(s) => Above(s, Found(g))
    BY <1>2, <1>3 DEF PassedAll, Passed, Above, SameChat
  <1> QED
    BY <1>3, <1>4

LEMMA HeadPasses ==
    ASSUME BackendInv, BackOrder, NEW g \in Gens, HeadDone(g)
    PROVE  /\ BackOrder' /\ \A r : Passed(r) => Passed(r)'
           /\ \A f : f = Found(g) => Passed(f)'
  <1> DEFINE b == batch[g]
             t == Tail(batch[g])
  <1>1. /\ b \in Seq(Ids) /\ b # <<>> /\ poller[g] = "emit" /\ turn[g] \in Chats
        /\ batch' = [batch EXCEPT ![g] = t]
        /\ UNCHANGED <<watches, baseline, liveGeneration>>
    BY DEF BackendInv, BatchFilled, LiveTypeOK, HeadDone
  <1>2. /\ 1 \in DOMAIN b
        /\ \A k \in DOMAIN t : k \in Nat /\ 1 < k + 1 /\ k + 1 \in DOMAIN b /\ t[k] = b[k + 1]
    BY <1>1, HeadTailProperties, LenProperties, EmptySeq
  <1>3. /\ batch'[g] = t /\ \A h \in Gens \ {g} : batch'[h] = batch[h]
    BY <1>1 DEF BackendInv, LiveTypeOK
  <1>4. /\ \A h \in Gens \ {g} : poller'[h] = poller[h] /\ turn'[h] = turn[h]
        /\ \/ poller'[g] = "emit" /\ turn'[g] = turn[g]
           \/ poller'[g] \in {"fetch", "top"}
    BY <1>1 DEF HeadDone, NextChat, BackendInv, LiveTypeOK
  <1> HIDE DEF b, t
  <1>6. /\ \A i, j \in DOMAIN b : i < j => b[i] < b[j]
        /\ \A i \in DOMAIN b : baseline[g][turn[g]] < b[i] /\ b[i] <= watches[g][turn[g]]
    BY <1>1 DEF BackOrder, BatchOrder, b
  <1>7. /\ \A i, j \in DOMAIN t : i < j => t[i] < t[j]
        /\ \A i \in DOMAIN t : baseline[g][turn[g]] < t[i] /\ t[i] <= watches[g][turn[g]]
        /\ \A i \in DOMAIN t : b[1] < t[i]
    <2>1. \A i, j \in DOMAIN t : i < j => i + 1 < j + 1
      BY <1>2
    <2> QED
      BY <1>2, <1>6, <2>1
  <1>8. BatchOrder'
    <2> SUFFICES ASSUME NEW h \in Gens, poller'[h] = "emit"
                 PROVE  /\ \A i, j \in DOMAIN batch'[h] : i < j => batch'[h][i] < batch'[h][j]
                        /\ \A i \in DOMAIN batch'[h] : baseline'[h][turn'[h]] < batch'[h][i]
                                                     /\ batch'[h][i] <= watches'[h][turn'[h]]
      BY DEF BatchOrder
    <2>1. CASE h = g
      BY <1>1, <1>3, <1>4, <1>7, <2>1
    <2>2. CASE h # g
      BY <1>1, <1>3, <1>4, <2>2 DEF BackOrder, BatchOrder
    <2> QED
      BY <2>1, <2>2
  <1>9. MarksInv'
    BY <1>1, <1>4 DEF BackOrder, MarksInv
  <1>10. \A r : Passed(r) => Passed(r)'
    <2> SUFFICES ASSUME NEW r, Passed(r), r.what = "message" PROVE Passed(r)'
      BY DEF Passed
    <2>1. CASE r.gen = g
      BY <1>1, <1>2, <1>3, <1>4, <2>1 DEF Passed, b
    <2>2. CASE r.gen # g
      BY <1>1, <1>3, <1>4, <2>2 DEF Passed
    <2> QED
      BY <2>1, <2>2
  <1>11. ASSUME NEW f, f = Found(g) PROVE Passed(f)'
    <2>1. f.what = "message" /\ f.gen = g /\ f.chat = turn[g] /\ f.n = b[1]
      BY <1>1, <1>11, HeadIsNew DEF b
    <2>2. f.gen \in Gens /\ f.gen <= liveGeneration' /\ f.chat \in Chats /\ f.n \in Nat
      <3>1. f.n \in Ids
        BY <1>1, <1>11, HeadIsNew
      <3> QED
        BY <1>1, <2>1, <3>1, LiveSets DEF BackOrder, MarksInv
    <2>3. baseline'[f.gen][f.chat] < f.n /\ f.n <= watches'[f.gen][f.chat]
      BY <1>1, <1>2, <1>6, <2>1
    <2>4. poller'[f.gen] = "emit" /\ turn'[f.gen] = f.chat =>
            \A i \in DOMAIN batch'[f.gen] : f.n < batch'[f.gen][i]
      BY <1>3, <1>7, <2>1
    <2> QED
      BY <2>2, <2>3, <2>4 DEF Passed
  <1> QED
    BY <1>8, <1>9, <1>10, <1>11 DEF BackOrder

LEMMA FetchOrder ==
    ASSUME BackendInv, BackOrder, NEW g \in Gens, PollFetch(g)
    PROVE  BackOrder' /\ \A r : Passed(r) => Passed(r)'
  <1> DEFINE c   == turn[g]
             ids == NewerIds(c, watches[g][c])
             top == ids[Len(ids)]
  <1>1. /\ c \in Chats /\ watches[g][c] \in Ids /\ latest[c] > watches[g][c]
        /\ batch' = [batch EXCEPT ![g] = ids]
        /\ watches' = [watches EXCEPT ![g][c] = top]
        /\ poller' = [poller EXCEPT ![g] = "emit"] /\ poller[g] = "fetch"
        /\ UNCHANGED <<turn, baseline, liveGeneration>>
    BY DEF PollFetch, BackendInv, LiveTypeOK
  <1>2. /\ \A i, j \in DOMAIN ids : i < j => ids[i] < ids[j]
        /\ \A i \in DOMAIN ids : watches[g][c] < ids[i] /\ ids[i] <= top
        /\ watches[g][c] <= top
    BY <1>1, NewerIdsOrder DEF BackendInv
  <1>3. ids \in Seq(Ids) /\ top \in Ids
    BY <1>1, NewerIdsType DEF BackendInv
  <1> HIDE DEF ids, top
  <1>4. \A h \in Gens, d \in Chats : baseline[h][d] \in Nat /\ watches[h][d] \in Nat
    <2>1. \A h \in Gens, d \in Chats : baseline[h][d] \in Ids /\ watches[h][d] \in Ids
      BY DEF BackendInv, LiveTypeOK
    <2> QED
      BY <2>1, LiveSets
  <1>5. \A i \in DOMAIN ids : ids[i] \in Nat
    <2>1. \A i \in DOMAIN ids : ids[i] \in Ids
      BY <1>3, LenProperties, ElementOfSeq
    <2> QED
      BY <2>1, LiveSets
  <1>6. top \in Nat
    BY <1>3, LiveSets
  <1>7. /\ \A h \in Gens \ {g} : /\ batch'[h] = batch[h] /\ watches'[h] = watches[h]
                                 /\ poller'[h] = poller[h]
        /\ batch'[g] = ids /\ poller'[g] = "emit"
        /\ watches'[g][c] = top /\ \A d \in Chats \ {c} : watches'[g][d] = watches[g][d]
    BY <1>1 DEF BackendInv, LiveTypeOK
  <1>8. baseline[g][c] <= watches[g][c]
    BY <1>1 DEF BackOrder, MarksInv
  <1>9. \A i \in DOMAIN ids : baseline[g][c] < ids[i]
    BY <1>1, <1>2, <1>4, <1>5, <1>8
  <1>10. BatchOrder'
    <2> SUFFICES ASSUME NEW h \in Gens, poller'[h] = "emit"
                 PROVE  /\ \A i, j \in DOMAIN batch'[h] : i < j => batch'[h][i] < batch'[h][j]
                        /\ \A i \in DOMAIN batch'[h] : baseline'[h][turn'[h]] < batch'[h][i]
                                                     /\ batch'[h][i] <= watches'[h][turn'[h]]
      BY DEF BatchOrder
    <2>1. CASE h = g
      BY <1>1, <1>2, <1>7, <1>9, <2>1
    <2>2. CASE h # g
      BY <1>1, <1>7, <2>2 DEF BackOrder, BatchOrder
    <2> QED
      BY <2>1, <2>2
  <1>11. MarksInv'
    <2>1. baseline[g][c] <= top
      BY <1>1, <1>2, <1>4, <1>6, <1>8
    <2> QED
      BY <1>1, <1>7, <2>1 DEF BackOrder, MarksInv
  <1>12. ASSUME NEW r, Passed(r), r.what = "message" PROVE Passed(r)'
    <2>1. CASE r.gen = g /\ r.chat = c
      <3>1. r.n <= watches[g][c] /\ baseline[g][c] < r.n
        BY <1>12, <2>1 DEF Passed
      <3>2. r.n <= top /\ \A i \in DOMAIN ids : r.n < ids[i]
        <4>1. r.n \in Nat
          BY <1>12 DEF Passed
        <4> QED
          BY <1>1, <1>2, <1>4, <1>5, <1>6, <3>1, <4>1
      <3> QED
        BY <1>1, <1>7, <1>12, <2>1, <3>1, <3>2 DEF Passed
    <2>2. CASE r.gen = g /\ r.chat # c
      BY <1>1, <1>7, <1>12, <2>2 DEF Passed
    <2>3. CASE r.gen # g
      BY <1>1, <1>7, <1>12, <2>3 DEF Passed
    <2> QED
      BY <2>1, <2>2, <2>3
  <1> QED
    BY <1>10, <1>11, <1>12 DEF BackOrder, Passed

LEMMA PollerOrder ==
    ASSUME BackendInv, BackOrder, NEW g \in Gens, PollerStep(g)
    PROVE  BackOrder' /\ \A r : Passed(r) => Passed(r)'
  <1>1. ASSUME poller'[g] # "emit", poller[g] # "unborn",
               \A h \in Gens \ {g} : poller'[h] = poller[h] /\ turn'[h] = turn[h],
               UNCHANGED <<batch, watches, baseline, liveGeneration>>
        PROVE  BackOrder' /\ \A r : Passed(r) => Passed(r)'
    <2>1. BatchOrder'
      BY <1>1 DEF BackOrder, BatchOrder
    <2>2. MarksInv'
      BY <1>1 DEF BackOrder, MarksInv
    <2>3. \A r : Passed(r) => Passed(r)'
      BY <1>1 DEF Passed
    <2> QED
      BY <2>1, <2>2, <2>3 DEF BackOrder
  <1> USE DEF BackendInv, LiveTypeOK
  <1>2. CASE PollTop(g)
    BY <1>1, <1>2 DEF PollTop
  <1>3. CASE PollNothingNew(g)
    BY <1>1, <1>3 DEF PollNothingNew, NextChat
  <1>4. CASE PollFault(g) \/ PollDeliverRaises(g)
    BY <1>1, <1>4 DEF PollFault, PollDeliverRaises
  <1>5. CASE PollClear(g)
    BY <1>1, <1>5 DEF PollClear
  <1>6. CASE PollCheck(g)
    BY <1>1, <1>6 DEF PollCheck
  <1>7. CASE PollReported(g) \/ PollReportRaises(g) \/ \E to : PollFlagCleared(g, to)
    <2>1. PICK from, to : from # "unborn" /\ to # "emit" /\ PollMoves(g, from, to)
      BY <1>7 DEF PollReported, PollReportRaises, PollFlagCleared, Over
    <2> QED
      BY <1>1, <2>1 DEF PollMoves
  <1>8. CASE PollFetch(g)
    BY <1>8, FetchOrder
  <1>9. CASE PollSkip(g) \/ PollDeliver(g)
    BY <1>9, HeadPasses DEF PollSkip, PollDeliver
  <1> QED
    BY <1>2, <1>3, <1>4, <1>5, <1>6, <1>7, <1>8, <1>9 DEF PollerStep
-----------------------------------------------------------------------------
(***************************************************************************)
(* Every step keeps the order.                                             *)
(***************************************************************************)
LEMMA PlainPassed ==
    ASSUME ServerTypeOK, PassedAll(out), PassedAll(flush), PassedAll(pending),
           \/ UNCHANGED out
           \/ \E r \in Records : r.what # "message" /\ out' = Append(out, r),
           flush' \in {flush, <<>>}, pending' \in {pending, <<>>}
    PROVE  PassedAll(out') /\ PassedAll(flush') /\ PassedAll(pending')
  <1>1. PassedAll(flush') /\ PassedAll(pending')
    BY EmptyList
  <1>2. ASSUME NEW r \in Records, r.what # "message", out' = Append(out, r)
        PROVE  PassedAll(out')
    <2>1. out \in Seq(Records) /\ Passed(r)
      BY <1>2 DEF ServerTypeOK, Passed
    <2> QED
      BY <1>2, <2>1, AppendPassed
  <1> QED
    BY <1>1, <1>2

\* The lists of the next state hold what was handed over before it.
LEMMA PassedNext ==
    ASSUME PassedAll(out'), PassedAll(flush'), PassedAll(pending'),
           \A r : Passed(r) => Passed(r)'
    PROVE  (PassedAll(out) /\ PassedAll(flush) /\ PassedAll(pending))'
  <1>1. \A k \in DOMAIN out' : Passed(out'[k])
    BY DEF PassedAll
  <1>2. \A k \in DOMAIN flush' : Passed(flush'[k])
    BY DEF PassedAll
  <1>3. \A k \in DOMAIN pending' : Passed(pending'[k])
    BY DEF PassedAll
  <1> QED
    BY <1>1, <1>2, <1>3 DEF PassedAll, Passed

\* A plain step, with whatever the backend does.
LEMMA OrderPlain ==
    ASSUME ServerTypeOK, OrderInv, PlainStep, BackOrder', \A r : Passed(r) => Passed(r)'
    PROVE  OrderInv'
  <1>1. /\ Lists(out, flush, pending)' /\ KeptInv'
        /\ \/ UNCHANGED out
           \/ \E r \in Records : r.what # "message" /\ out' = Append(out, r)
        /\ flush' \in {flush, <<>>} /\ pending' \in {pending, <<>>}
    BY PlainLists DEF OrderInv
  <1>2. PassedAll(out') /\ PassedAll(flush') /\ PassedAll(pending')
    BY <1>1, PlainPassed DEF OrderInv
  <1> QED
    BY <1>1, <1>2, PassedNext DEF OrderInv, BackOrder

LEMMA OrderFlush ==
    ASSUME ServerTypeOK, OrderInv, ListenFlush \/ FlushRecord, BackOrder',
           \A r : Passed(r) => Passed(r)'
    PROVE  OrderInv'
  <1>1. CASE ListenFlush
    <2>1. flush = <<>> /\ flush' = pending /\ pending' = <<>> /\ out' = out
          /\ main' = "listen.flushing"
      BY <1>1 DEF ListenFlush, OrderInv, KeptInv, Goto
    <2>2. Lists(out', flush', pending') /\ KeptInv'
      BY <2>1, EmptyList DEF OrderInv, Lists, KeptInv
    <2>3. PassedAll(out') /\ PassedAll(flush') /\ PassedAll(pending')
      BY <2>1, EmptyList DEF OrderInv
    <2> QED
      BY <2>2, <2>3, PassedNext DEF OrderInv, BackOrder
  <1>2. CASE FlushRecord
    <2>1. /\ flush # <<>> /\ out' = Append(out, Head(flush)) /\ flush' = Tail(flush)
          /\ UNCHANGED <<main, pending, eventsReady>> /\ main = "listen.flushing"
          /\ out \in Seq(Records) /\ flush \in Seq(Records) /\ pending \in Seq(Records)
      BY <1>2 DEF FlushRecord, Write, flags, ServerTypeOK
    <2>2. Lists(out', flush', pending') /\ KeptInv'
      BY <2>1, HeadMoves DEF OrderInv, KeptInv
    <2>3. PassedAll(flush')
      BY <2>1, TailLists DEF OrderInv, PassedAll
    <2>4. Head(flush) \in Records /\ Passed(Head(flush))
      BY <2>1, TailLists DEF OrderInv, PassedAll
    <2>5. PassedAll(out') /\ PassedAll(pending')
      BY <2>1, <2>4, AppendPassed DEF OrderInv
    <2> QED
      BY <2>2, <2>3, <2>5, PassedNext DEF OrderInv, BackOrder
  <1> QED
    BY <1>1, <1>2

\* The live thread writes a record, or keeps it back.
LEMMA EmitLists ==
    ASSUME ServerTypeOK, Lists(out, flush, pending), KeptInv, NEW r \in Records, EmitLive(r),
           Above(out, r), Above(pending, r)
    PROVE  /\ Lists(out, flush, pending)' /\ KeptInv'
           /\ out' = out \/ out' = Append(out, r)
           /\ pending' = pending \/ pending' = Append(pending, r)
           /\ flush' = flush
  <1>1. flush = <<>> /\ flush' = flush /\ UNCHANGED <<main, eventsReady>>
    BY DEF EmitLive, OutputFree, KeptInv, local
  <1>2. out \in Seq(Records) /\ pending \in Seq(Records)
    BY DEF ServerTypeOK
  <1>3. CASE eventsReady
    <2>1. pending = <<>> /\ pending' = pending /\ out' = Append(out, r)
      BY <1>3 DEF EmitLive, KeptInv, Write
    <2>2. Ascends(out')
      BY <1>2, <2>1, AppendAscends DEF Lists
    <2> QED
      BY <1>1, <2>1, <2>2, EmptyList DEF Lists, KeptInv
  <1>4. CASE ~eventsReady
    <2>1. pending' = Append(pending, r) /\ out' = out
      BY <1>4 DEF EmitLive
    <2>2. Ascends(pending') /\ Precedes(out, pending')
      BY <1>2, <2>1, AppendAscends, AppendPrecedes DEF Lists
    <2> QED
      BY <1>1, <1>4, <2>1, <2>2, EmptyList DEF Lists, KeptInv
  <1> QED
    BY <1>3, <1>4

LEMMA OrderEmit ==
    ASSUME ServerTypeOK, OrderInv, NEW r \in Records, EmitLive(r),
           Above(out, r), Above(pending, r), BackOrder', \A q : Passed(q) => Passed(q)',
           \A q : q = r => Passed(q)'
    PROVE  OrderInv'
  <1>1. /\ Lists(out, flush, pending)' /\ KeptInv'
        /\ out' = out \/ out' = Append(out, r)
        /\ pending' = pending \/ pending' = Append(pending, r)
        /\ flush' = flush
    BY EmitLists DEF OrderInv
  <1>2. out \in Seq(Records) /\ pending \in Seq(Records)
    BY DEF ServerTypeOK
  <1>3. /\ \A k \in DOMAIN out' : out'[k] = r \/ (k \in DOMAIN out /\ out'[k] = out[k])
        /\ \A k \in DOMAIN pending' :
             pending'[k] = r \/ (k \in DOMAIN pending /\ pending'[k] = pending[k])
    <2>1. \A s \in Seq(Records) : \A k \in DOMAIN Append(s, r) :
            Append(s, r)[k] = r \/ (k \in DOMAIN s /\ Append(s, r)[k] = s[k])
      BY Appended
    <2> QED
      BY <1>1, <1>2, <2>1
  <1>4. /\ \A k \in DOMAIN out : Passed(out[k])
        /\ \A k \in DOMAIN pending : Passed(pending[k])
        /\ \A k \in DOMAIN flush : Passed(flush[k])
    BY DEF OrderInv, PassedAll
  <1>5. PassedAll(out)'
    <2> SUFFICES ASSUME NEW k \in DOMAIN out' PROVE Passed(out[k])'
      BY DEF PassedAll
    <2>1. out'[k] = r \/ Passed(out'[k])
      BY <1>3, <1>4
    <2> QED
      BY <2>1 DEF Passed
  <1>6. PassedAll(pending)'
    <2> SUFFICES ASSUME NEW k \in DOMAIN pending' PROVE Passed(pending[k])'
      BY DEF PassedAll
    <2>1. pending'[k] = r \/ Passed(pending'[k])
      BY <1>3, <1>4
    <2> QED
      BY <2>1 DEF Passed
  <1>7. PassedAll(flush)'
    <2> SUFFICES ASSUME NEW k \in DOMAIN flush' PROVE Passed(flush[k])'
      BY DEF PassedAll
    <2>1. Passed(flush'[k])
      BY <1>1, <1>4
    <2> QED
      BY <2>1 DEF Passed
  <1> QED
    BY <1>1, <1>5, <1>6, <1>7 DEF OrderInv, BackOrder

LEMMA OrderThread ==
    ASSUME TypeInv, OrderInv, NEW g \in Gens, LiveThread(g), PollerStep(g)
    PROVE  OrderInv'
  <1>1. ServerTypeOK /\ BackendInv /\ BackOrder
    BY DEF TypeInv, OrderInv, BackOrder
  <1>2. BackOrder' /\ \A r : Passed(r) => Passed(r)'
    BY <1>1, PollerOrder
  <1>3. CASE Polls(g) \/ OnMessageRaises(g) \/ OnErrorRaises(g) \/ OnErrorClearFlag(g)
    <2>1. PlainStep
      BY <1>3 DEF Polls, OnMessageRaises, OnErrorRaises, OnErrorClearFlag, EmitRaises,
         ClearListenFlag, PlainStep, serverVars, local, flags
    <2> QED
      BY <1>1, <1>2, <2>1, OrderPlain
  <1>4. CASE OnMessage(g)
    <2>1. EmitLive(Found(g)) /\ HeadDone(g) /\ poller[g] = "emit"
      BY <1>4 DEF OnMessage, PollDeliver
    <2>2. Above(out, Found(g)) /\ Above(pending, Found(g))
      BY <1>1, <2>1, HeadIsNew DEF OrderInv
    <2>3. \A f : f = Found(g) => Passed(f)'
      BY <1>1, <2>1, HeadPasses
    <2>4. Found(g) \in Records
      <3>1. Found(g) \in [type : {"event"}, id : {0}, what : {"message"}, gen : Gens,
                          chat : Chats, n : Ids]
        BY <1>1, <2>1, HeadIsNew
      <3> QED
        BY <3>1, LiveSets DEF Records, Whats
    <2> QED
      BY <1>1, <1>2, <2>1, <2>2, <2>3, <2>4, OrderEmit
  <1>5. CASE OnError(g)
    <2>1. LiveError(g) \in Records /\ LiveError(g).what # "message" /\ EmitLive(LiveError(g))
      BY <1>1, <1>5, ServerPlain, LiveSets DEF OnError, Plain
    <2>2. Above(out, LiveError(g)) /\ Above(pending, LiveError(g))
      BY <2>1 DEF Above, SameChat
    <2>3. \A q : q = LiveError(g) => Passed(q)'
      BY <2>1 DEF Passed
    <2> QED
      BY <1>1, <1>2, <2>1, <2>2, <2>3, OrderEmit
  <1> QED
    BY <1>3, <1>4, <1>5 DEF LiveThread

LEMMA OrderStep ==
    ASSUME TypeInv, OrderInv, [Next]_vars
    PROVE  OrderInv'
  <1>1. ServerTypeOK /\ ExcKnown /\ LiveTypeOK /\ BackendInv /\ BackOrder
    BY DEF TypeInv, BackendInv, OrderInv, BackOrder
  <1>2. ASSUME UNCHANGED backMarks, PlainStep \/ ListenFlush \/ FlushRecord PROVE OrderInv'
    <2>1. BackOrder' /\ \A r : Passed(r) => Passed(r)'
      BY <1>1, <1>2, SameMarks
    <2> QED
      BY <1>1, <1>2, <2>1, OrderPlain, OrderFlush
  <1>3. CASE (Reads \/ HandlesRequest) /\ UNCHANGED liveVars
    <2>1. UNCHANGED backMarks
      BY <1>3 DEF liveVars, threadVars, backMarks
    <2>2. PlainStep \/ ListenFlush \/ FlushRecord
      BY <1>1, <1>3, ReadsPlain, HandlesPlain
    <2> QED
      BY <1>2, <2>1, <2>2
  <1>4. CASE CallsBackend /\ BackendStep
    <2>1. BackOrder' /\ \A r : Passed(r) => Passed(r)'
      BY <1>1, <1>4, BackendOrder
    <2> QED
      BY <1>1, <1>4, <2>1, CallsPlain, OrderPlain
  <1>5. CASE \E g \in Gens : LiveThread(g) /\ PollerStep(g)
    BY <1>5, OrderThread
  <1>6. CASE Telegram \/ UNCHANGED vars
    <2>1. UNCHANGED backMarks /\ UNCHANGED serverVars
      BY <1>6 DEF Telegram, NewMessage, vars, liveVars, threadVars, backMarks
    <2>2. PlainStep
      BY <2>1 DEF PlainStep, serverVars, local, flags
    <2> QED
      BY <1>2, <2>1, <2>2
  <1> QED
    BY <1>3, <1>4, <1>5, <1>6, StepKinds

LEMMA OrderInit == Init => OrderInv
  <1> SUFFICES ASSUME Init PROVE OrderInv
    OBVIOUS
  <1>1. out = <<>> /\ flush = <<>> /\ pending = <<>>
    BY DEF Init, ServerInit
  <1>2. Lists(out, flush, pending) /\ PassedAll(out) /\ PassedAll(flush) /\ PassedAll(pending)
    BY <1>1, EmptyList DEF Lists
  <1>3. \A g \in Gens, c \in Chats : baseline[g][c] = 0 /\ watches[g][c] = 0
    BY DEF Init, LiveInit, NoMarks
  <1>4. BatchOrder /\ MarksInv /\ KeptInv
    BY <1>1, <1>3 DEF Init, LiveInit, BatchOrder, MarksInv, KeptInv
  <1> QED
    BY <1>2, <1>4 DEF OrderInv

(***************************************************************************)
(* The messages of one listener reach the host in order, each once and     *)
(* none older than the listener, whichever thread writes them, whatever    *)
(* fails and whatever is too long to be written.                           *)
(***************************************************************************)
THEOREM MessagesInOrder == Spec => []InOrder
  <1>1. TypeInv /\ OrderInv => InOrder
    <2> SUFFICES ASSUME TypeInv, OrderInv, NEW k \in Places, out[k].what = "message"
                 PROVE  /\ out[k].n > baseline[out[k].gen][out[k].chat]
                        /\ \A j \in 1..(k - 1) :
                             out[j].what = "message" /\ out[j].gen = out[k].gen
                               /\ out[j].chat = out[k].chat
                             => out[j].n < out[k].n
      BY DEF InOrder
    <2>1. Passed(out[k]) /\ Ascends(out) /\ Places = DOMAIN out
      BY DEF OrderInv, PassedAll, Lists, Places
    <2>2. \A g \in Gens, c \in Chats : baseline[g][c] \in Nat
      <3>1. \A g \in Gens, c \in Chats : baseline[g][c] \in Ids
        BY DEF TypeInv, BackendInv, LiveTypeOK
      <3> QED
        BY <3>1, LiveSets
    <2>3. out[k].n > baseline[out[k].gen][out[k].chat]
      BY <2>1, <2>2 DEF Passed
    <2>4. DOMAIN out = 1..Len(out) /\ Len(out) \in Nat
      BY LenProperties DEF TypeInv, ServerTypeOK
    <2>5. \A j \in 1..(k - 1) : j \in DOMAIN out /\ j < k
      BY <2>1, <2>4
    <2> QED
      BY <2>1, <2>3, <2>5 DEF Ascends, SameChat
  <1>2. (TypeInv /\ OrderInv) /\ [Next]_vars => (TypeInv /\ OrderInv)'
    BY TypeStep, OrderStep
  <1> QED
    BY <1>1, <1>2, TypeInit, OrderInit, PTL DEF Spec
-----------------------------------------------------------------------------
(***************************************************************************)
(* The live thread writes live records only, and only they are kept back:  *)
(* they answer no request, belong to no export and are not fatal.          *)
(***************************************************************************)
LiveRecord(r) == r.id = 0 /\ r.what \in {"message", "liveError"}

KeptLive ==
    /\ \A k \in DOMAIN flush : LiveRecord(flush[k])
    /\ \A k \in DOMAIN pending : LiveRecord(pending[k])

mainVars == <<main, requestId, exc, limit, count, fate>>

LiveWrite ==
    /\ UNCHANGED mainVars
    /\ UNCHANGED out \/ \E r \in Records : LiveRecord(r) /\ out' = Append(out, r)

LEMMA EmitsLive ==
    ASSUME ServerTypeOK, KeptLive, NEW r \in Records, LiveRecord(r), EmitLive(r)
    PROVE  LiveWrite /\ KeptLive'
  <1>1. UNCHANGED mainVars /\ flush' = flush
    BY DEF EmitLive, mainVars, local
  <1>2. CASE eventsReady
    BY <1>1, <1>2 DEF EmitLive, Write, LiveWrite, KeptLive
  <1>3. CASE ~eventsReady
    <2>1. out' = out /\ pending' = Append(pending, r) /\ pending \in Seq(Records)
      BY <1>3 DEF EmitLive, ServerTypeOK
    <2>2. \A k \in DOMAIN pending' : pending'[k] = r \/ (k \in DOMAIN pending /\ pending'[k] = pending[k])
      BY <2>1, Appended
    <2> QED
      BY <1>1, <2>1, <2>2 DEF LiveWrite, KeptLive
  <1> QED
    BY <1>2, <1>3

LEMMA ThreadWrites ==
    ASSUME TypeInv, KeptLive, NEW g \in Gens, LiveThread(g)
    PROVE  LiveWrite /\ KeptLive'
  <1>1. CASE Polls(g) \/ OnMessageRaises(g) \/ OnErrorRaises(g) \/ OnErrorClearFlag(g)
    BY <1>1 DEF Polls, OnMessageRaises, OnErrorRaises, OnErrorClearFlag, EmitRaises,
       ClearListenFlag, LiveWrite, KeptLive, serverVars, local, flags, mainVars
  <1>2. CASE OnMessage(g)
    <2>1. batch[g] \in Seq(Ids) /\ batch[g] # <<>> /\ turn[g] \in Nat
      BY <1>2, LiveSets DEF OnMessage, PollDeliver, TypeInv, BackendInv, BatchFilled, LiveTypeOK
    <2>2. Head(batch[g]) \in Nat
      BY <2>1, HeadTailProperties, LiveSets
    <2>3. Found(g) \in Records /\ LiveRecord(Found(g))
      BY <2>1, <2>2, ServerRecords, LiveSets DEF Found, LiveMessage, Record, LiveRecord, TypeInv
    <2> QED
      BY <1>2, <2>3, EmitsLive DEF OnMessage, TypeInv
  <1>3. CASE OnError(g)
    <2>1. LiveError(g) \in Records /\ LiveRecord(LiveError(g))
      BY ServerRecords, LiveSets DEF LiveError, Record, LiveRecord, TypeInv
    <2> QED
      BY <1>3, <2>1, EmitsLive DEF OnError, TypeInv
  <1> QED
    BY <1>1, <1>2, <1>3 DEF LiveThread

\* The flush loop writes what was kept back.
LEMMA FlushWrites ==
    ASSUME ServerTypeOK, KeptLive, FlushRecord
    PROVE  LiveWrite /\ KeptLive'
  <1>1. /\ flush # <<>> /\ flush \in Seq(Records) /\ flush' = Tail(flush)
        /\ out' = Append(out, Head(flush)) /\ UNCHANGED mainVars /\ pending' = pending
    BY DEF FlushRecord, Write, flags, ServerTypeOK, mainVars
  <1>2. /\ Head(flush) \in Records /\ LiveRecord(Head(flush))
        /\ \A k \in DOMAIN flush' : LiveRecord(flush'[k])
    BY <1>1, TailLists DEF KeptLive
  <1> QED
    BY <1>1, <1>2 DEF LiveWrite, KeptLive

LEMMA KeptLiveStep ==
    ASSUME TypeInv, KeptLive, [Next]_vars
    PROVE  KeptLive'
  <1>1. ServerTypeOK /\ ExcKnown /\ LiveTypeOK
    BY DEF TypeInv, BackendInv
  <1>2. \A k \in DOMAIN <<>> : FALSE
    BY EmptySeq, LenProperties
  <1>3. CASE PlainStep
    BY <1>2, <1>3 DEF PlainStep, KeptLive
  <1>4. CASE ListenFlush
    BY <1>2, <1>4 DEF ListenFlush, KeptLive
  <1>5. CASE FlushRecord
    BY <1>1, <1>5, FlushWrites
  <1>6. CASE \E g \in Gens : LiveThread(g)
    BY <1>6, ThreadWrites
  <1>7. CASE Telegram \/ UNCHANGED vars
    BY <1>7 DEF Telegram, vars, serverVars, local, flags, KeptLive
  <1> QED
    BY <1>1, <1>3, <1>4, <1>5, <1>6, <1>7, StepKinds, ReadsPlain, HandlesPlain, CallsPlain

LEMMA KeptLiveInit == Init => KeptLive
  <1>1. \A k \in DOMAIN <<>> : FALSE
    BY EmptySeq, LenProperties
  <1> QED
    BY <1>1 DEF Init, ServerInit, KeptLive
-----------------------------------------------------------------------------
(***************************************************************************)
(* The exit code.  A fatal record sets it, or ends the loop at once; and   *)
(* once it is set the loop has no more requests to read.                   *)
(***************************************************************************)
Ended == main \in {"close.stop", "close.backend", "exited"}
HasFatal == \E k \in Places : out[k].what = "fatal"

CodeInv ==
    /\ status = "running" <=> ~Ended
    /\ status = "0" => exitCode = 0
    /\ exitCode = 1 => shutdownRequested
    /\ shutdownRequested => main = "read" \/ Ended
    /\ HasFatal <=> exitCode = 1 \/ status = "1"

LEMMA FatalAppend ==
    ASSUME ServerTypeOK, NEW r \in Records, out' = Append(out, r)
    PROVE  HasFatal' <=> HasFatal \/ r.what = "fatal"
  <1>1. out \in Seq(Records)
    BY DEF ServerTypeOK
  <1>2. /\ \A k \in DOMAIN out : out'[k] = out[k] /\ k \in DOMAIN out'
        /\ \A k \in DOMAIN out' : k \in DOMAIN out \/ out'[k] = r
        /\ out'[Len(out) + 1] = r /\ Len(out) + 1 \in DOMAIN out'
    BY <1>1, Appended
  <1> QED
    BY <1>2 DEF HasFatal, Places

LEMMA CodeLive ==
    ASSUME ServerTypeOK, CodeInv, LiveWrite
    PROVE  CodeInv'
  <1>1. HasFatal' <=> HasFatal
    <2>1. ASSUME NEW r \in Records, LiveRecord(r), out' = Append(out, r)
          PROVE  HasFatal' <=> HasFatal
      BY <2>1, FatalAppend DEF LiveRecord
    <2> QED
      BY <2>1 DEF LiveWrite, HasFatal, Places
  <1> QED
    BY <1>1 DEF CodeInv, LiveWrite, mainVars, fate, Ended

\* What the records of the main thread are.
LEMMA Labels ==
    /\ \A what : /\ Response(what).what = what /\ Response(what).id = requestId
                 /\ Response(what).type = "response"
                 /\ Exported(what).what = what /\ Exported(what).id = requestId
                 /\ Exported(what).type = "response" /\ Exported(what).n = count
                 /\ Error(what).what = what /\ Error(what).id = requestId
                 /\ Error(what).type = "error"
                 /\ ExportEvent(what).what = what /\ ExportEvent(what).id = requestId
                 /\ ExportEvent(what).type = "event"
    /\ \A g : /\ Accepted(g).what = "accepted" /\ Accepted(g).id = requestId
              /\ Accepted(g).type = "response"
  BY DEF Response, Exported, Error, ExportEvent, Accepted, Record

\* The ends of a handler.
LEMMA CodeAnswer ==
    ASSUME ServerTypeOK, CodeInv, ~Ended, NEW r \in Records, r.what # "fatal", Answer(r)
    PROVE  CodeInv'
  <1>1. HasFatal' <=> HasFatal
    BY FatalAppend DEF Answer, Write
  <1> QED
    BY <1>1 DEF CodeInv, Answer, Goto, fate, Ended

LEMMA CodeReport ==
    ASSUME ServerTypeOK, CodeInv, ~Ended, main # "read",
           NEW kind \in {"error", "fatal", "refused"}, AnswerBackendError(kind)
    PROVE  CodeInv'
  <1>1. /\ shutdownRequested = FALSE /\ exitCode = 0 /\ status = "running" /\ ~HasFatal
    BY DEF CodeInv, ServerTypeOK
  <1>2. Error(kind) \in Records /\ Error(kind).what = kind
    BY ServerRecords, Labels DEF Whats
  <1>3. HasFatal' <=> kind = "fatal"
    BY <1>1, <1>2, FatalAppend DEF AnswerBackendError, Write
  <1>4. /\ shutdownRequested' = (kind = "fatal")
        /\ exitCode' = IF kind = "fatal" THEN 1 ELSE 0
        /\ main' = "read" /\ status' = "running"
    BY <1>1 DEF AnswerBackendError, Goto
  <1>5. CASE kind = "fatal"
    BY <1>3, <1>4, <1>5 DEF CodeInv, Ended
  <1>6. CASE kind # "fatal"
    <2>1. ~shutdownRequested' /\ exitCode' = 0 /\ ~HasFatal'
      BY <1>3, <1>4, <1>6
    <2> QED
      BY <1>4, <2>1 DEF CodeInv, Ended
  <1> QED
    BY <1>5, <1>6

LEMMA CodeCrash ==
    ASSUME ServerTypeOK, CodeInv, AnswerCrash
    PROVE  CodeInv'
  <1>1. Error("fatal") \in Records /\ Error("fatal").what = "fatal"
    BY ServerRecords, Labels DEF Whats
  <1>2. HasFatal'
    BY <1>1, FatalAppend DEF AnswerCrash, Write
  <1> QED
    BY <1>2 DEF CodeInv, AnswerCrash, Return, Goto, Ended

\* A step that writes nothing and stays in the loop.
LEMMA CodeMoves ==
    ASSUME CodeInv, UNCHANGED <<out, fate>>, ~Ended, ~Ended', main # "read"
    PROVE  CodeInv'
  BY DEF CodeInv, fate, HasFatal, Places

LEMMA CodeReads ==
    ASSUME ~LongTexts, ServerTypeOK, CodeInv, Reads
    PROVE  CodeInv'
  <1>1. ~shutdownRequested /\ status = "running" /\ exitCode = 0 /\ ~HasFatal /\ ~Ended
    BY DEF CodeInv, ServerTypeOK, Reads, ReadRequest, ReadZeroId, ReadGarbage, ReadEof, LoopTop, Ended
  <1>2. ASSUME NEW op \in Operations, ReadRequest(op) PROVE CodeInv'
    BY <1>1, <1>2 DEF ReadRequest, Goto, fate, CodeInv, Ended, HasFatal, Places, Requests
  <1>3. CASE ReadZeroId
    <2>1. /\ Record("error", 0, "zeroId", 0, 0, requestId + 1) \in Records
          /\ Record("error", 0, "zeroId", 0, 0, requestId + 1).what = "zeroId"
      BY ServerRecords DEF Record
    <2>2. ~HasFatal'
      BY <1>1, <1>3, <2>1, FatalAppend DEF ReadZeroId, Write
    <2>3. main' = main /\ UNCHANGED <<shutdownRequested, exitCode, status>>
      BY <1>3 DEF ReadZeroId
    <2> QED
      BY <1>1, <2>2, <2>3 DEF CodeInv, Ended
  <1>4. CASE ReadGarbage
    <2>1. SessionError \in Records /\ SessionError.what = "fatal"
      BY ServerRecords DEF SessionError, Record
    <2>2. HasFatal'
      BY <1>4, <2>1, FatalAppend DEF ReadGarbage, Write
    <2> QED
      BY <1>1, <1>4, <2>2 DEF ReadGarbage, Return, Goto, CodeInv, Ended
  <1>5. CASE ReadEof
    BY <1>1, <1>5 DEF ReadEof, Return, Goto, CodeInv, Ended, HasFatal, Places
  <1> QED
    BY <1>2, <1>3, <1>4, <1>5 DEF Reads

LEMMA CodeHandles ==
    ASSUME ~LongTexts, ServerTypeOK, ExcKnown, LiveTypeOK, KeptLive, CodeInv, HandlesRequest
    PROVE  CodeInv'
  <1> USE DEF Goto
  <1>1. ASSUME NEW what \in Whats \ {"fatal"}, main # "read", ~Ended,
               Answer(Response(what)) \/ Answer(Error(what)) \/ Answer(Exported(what))
        PROVE  CodeInv'
    <2>1. Response(what) \in Records /\ Error(what) \in Records /\ Exported(what) \in Records
      BY ServerRecords
    <2> QED
      BY <1>1, <2>1, Labels, CodeAnswer
  <1>2. ~TooLong
    BY DEF TooLong
  <1>3. CASE AnswerHello \/ StopReply \/ Fallback \/ ExportInvalid \/ ListenInvalid
               \/ ListenRefused \/ ExportTruncate \/ ExportEnd \/ AnswerUnknown
    <2>1. main # "read" /\ ~Ended
      BY <1>3 DEF AnswerHello, StopReply, Fallback, ExportInvalid, ListenInvalid,
         ListenRefused, ExportTruncate, ExportEnd, AnswerUnknown, Ended
    <2>2. \E what \in Whats \ {"fatal"} :
             Answer(Response(what)) \/ Answer(Error(what)) \/ Answer(Exported(what))
      BY <1>3 DEF AnswerHello, StopReply, Fallback, ExportInvalid, ListenInvalid,
         ListenRefused, ExportTruncate, ExportEnd, AnswerUnknown, Whats
    <2> QED
      BY <1>1, <2>1, <2>2
  <1>4. CASE AnswerQuery
    <2>1. main # "read" /\ ~Ended
      BY <1>4 DEF AnswerQuery, Ended
    <2>2. Answer(Response("result")) \/ \E kind \in {"error", "fatal"} : AnswerBackendError(kind)
      BY <1>2, <1>4 DEF AnswerQuery
    <2> QED
      BY <1>1, <2>1, <2>2, CodeReport DEF Whats
  <1>5. CASE AnswerShutdown
    <2>1. main # "read" /\ ~Ended
      BY <1>5 DEF AnswerShutdown, Ended
    <2>2. /\ ~shutdownRequested /\ exitCode = 0 /\ status = "running" /\ ~HasFatal
      BY <2>1 DEF CodeInv, ServerTypeOK
    <2>3. Response("bye") \in Records /\ Response("bye").what = "bye"
      BY ServerRecords, Labels DEF Whats
    <2>4. ~HasFatal'
      BY <1>5, <2>2, <2>3, FatalAppend DEF AnswerShutdown, Write
    <2> QED
      BY <1>5, <2>2, <2>4 DEF AnswerShutdown, CodeInv, Ended
  <1>6. CASE ExportStart \/ ExportMessage
    <2>1. /\ ExportEvent("export.started") \in Records /\ ExportEvent("export.message") \in Records
          /\ ExportEvent("export.started").what # "fatal" /\ ExportEvent("export.message").what # "fatal"
      BY ServerRecords, Labels DEF Whats
    <2>2. HasFatal' <=> HasFatal
      BY <1>6, <2>1, FatalAppend DEF ExportStart, ExportMessage, Write
    <2> QED
      BY <1>6, <2>2 DEF ExportStart, ExportMessage, CodeInv, Ended, fate
  <1>7. CASE ExportFails
    <2>1. main # "read" /\ ~Ended
      BY <1>7 DEF ExportFails, Ended
    <2> QED
      BY <1>2, <1>7, <2>1, CodeReport, CodeCrash DEF ExportFails
  <1>8. CASE ListenFailed
    <2>1. main # "read" /\ ~Ended /\ exc \in {"error", "fatal", "refused"} /\ AnswerBackendError(exc)
      BY <1>2, <1>8 DEF ListenFailed, Ended, ExcKnown, ServerTypeOK
    <2> QED
      BY <2>1, CodeReport
  <1>9. CASE ListenReply(liveGeneration)
    <2>1. liveGeneration \in Nat
      BY LiveAssumption DEF LiveTypeOK
    <2>2. Accepted(liveGeneration) \in Records /\ Accepted(liveGeneration).what = "accepted"
      BY <2>1, ServerRecords, Labels
    <2>3. HasFatal' <=> HasFatal
      BY <1>2, <1>9, <2>2, FatalAppend DEF ListenReply, Write
    <2> QED
      BY <1>2, <1>9, <2>3 DEF ListenReply, CodeInv, Ended, fate
  <1>10. CASE ListenArm \/ ListenFlag \/ ListenFlush \/ FlushRaises \/ FlushDone \/ StopCheck
    <2>1. ~Ended /\ ~Ended' /\ main # "read" /\ UNCHANGED <<out, fate>>
      BY <1>10 DEF ListenArm, ListenFlag, ListenFlush, FlushRaises, FlushDone, StopCheck, Ended
    <2> QED
      BY <2>1, CodeMoves
  <1>11. CASE FlushRecord
    BY <1>11, FlushWrites, CodeLive
  <1>12. CASE LoopEnds
    BY <1>12 DEF LoopEnds, Return, CodeInv, Ended, HasFatal, Places, ServerTypeOK
  <1> QED
    BY <1>3, <1>4, <1>5, <1>6, <1>7, <1>8, <1>9, <1>10, <1>11, <1>12 DEF HandlesRequest

LEMMA CodeCalls ==
    ASSUME CodeInv, CallsBackend
    PROVE  CodeInv'
  <1>1. ASSUME main \in {"listen.start", "stop.call"}, main' \notin {"close.stop", "close.backend", "exited"},
               UNCHANGED <<out, fate>>
        PROVE  CodeInv'
    BY <1>1, CodeMoves DEF Ended
  <1>2. ASSUME UNCHANGED serverVars PROVE CodeInv'
    BY <1>2 DEF serverVars, fate, CodeInv, Ended, HasFatal, Places
  <1>3. ASSUME CloseReturned PROVE CodeInv'
    BY <1>3 DEF CloseReturned, Goto, fate, CodeInv, Ended, HasFatal, Places
  <1> QED
    BY <1>1, <1>2, <1>3 DEF CallsBackend, CallStart, CallStartRefused, CallStartFails,
       CallStartReturns, CallStop, CallStopSignals, CallStopReturns, ListenAborted,
       ListenStarted, StopReturned, Goto

(***************************************************************************)
(* When every record fits, the process ends with code 1 exactly when a     *)
(* fatal record was written: by a crash, by garbage, or by the backend in  *)
(* any operation, whatever the live thread writes in between.              *)
(***************************************************************************)
THEOREM CodeTellsFatal ==
    ASSUME ~LongTexts
    PROVE  Spec => []ExitCodeTellsFatal
  <1> DEFINE Inv == TypeInv /\ KeptLive /\ CodeInv
  <1>1. Init => Inv
    <2>1. Init => ~HasFatal
      BY EmptySeq, LenProperties DEF Init, ServerInit, HasFatal, Places
    <2> QED
      BY <2>1, TypeInit, KeptLiveInit DEF Init, ServerInit, CodeInv, Ended
  <1>2. Inv /\ [Next]_vars => Inv'
    <2> SUFFICES ASSUME Inv, [Next]_vars PROVE CodeInv'
      BY TypeStep, KeptLiveStep
    <2>1. ServerTypeOK /\ ExcKnown /\ LiveTypeOK
      BY DEF TypeInv, BackendInv
    <2>2. CASE Reads \/ HandlesRequest
      BY <2>1, <2>2, CodeReads, CodeHandles
    <2>3. CASE CallsBackend
      BY <2>3, CodeCalls
    <2>4. CASE \E g \in Gens : LiveThread(g)
      BY <2>1, <2>4, ThreadWrites, CodeLive
    <2>5. CASE Telegram \/ UNCHANGED vars
      BY <2>5 DEF Telegram, vars, serverVars, fate, CodeInv, Ended, HasFatal, Places
    <2> QED
      BY <2>2, <2>3, <2>4, <2>5, StepKinds
  <1>3. Inv => ExitCodeTellsFatal
    BY DEF CodeInv, ExitCodeTellsFatal, HasFatal, TypeInv, ServerTypeOK, Ended
  <1> HIDE DEF Inv
  <1> QED
    BY <1>1, <1>2, <1>3, PTL DEF Spec
-----------------------------------------------------------------------------
(***************************************************************************)
(* Live records that fit.  The flush loop raises only for one that does    *)
(* not, and then the request it serves gets a second terminal record.      *)
(***************************************************************************)
NoReports == \A g \in Gens : failed[g] = FALSE /\ poller[g] \notin {"check", "report", "clearFlag"}

FitInv ==
    /\ \A k \in DOMAIN flush : ~MayRaise(flush[k])
    /\ \A k \in DOMAIN pending : ~MayRaise(pending[k])
    /\ LongTexts => NoReports

Fits == Oversized = {} /\ (LongTexts => ~PollFaults)

LEMMA EmitsFit ==
    ASSUME ServerTypeOK, FitInv, NEW r \in Records, ~MayRaise(r), EmitLive(r)
    PROVE  /\ \A k \in DOMAIN flush' : ~MayRaise(flush'[k])
           /\ \A k \in DOMAIN pending' : ~MayRaise(pending'[k])
  <1>1. pending \in Seq(Records) /\ flush' = flush
        /\ (pending' = pending \/ pending' = Append(pending, r))
    BY DEF ServerTypeOK, EmitLive, local
  <1>2. \A k \in DOMAIN pending' : pending'[k] = r \/ (k \in DOMAIN pending /\ pending'[k] = pending[k])
    BY <1>1, Appended
  <1> QED
    BY <1>1, <1>2 DEF FitInv

LEMMA ReportsStep ==
    ASSUME Fits, LongTexts, TypeInv, NoReports, [Next]_vars
    PROVE  NoReports'
  <1>1. ASSUME UNCHANGED <<poller, failed>> PROVE NoReports'
    BY <1>1 DEF NoReports
  <1>2. CASE UNCHANGED liveVars \/ Telegram
    BY <1>1, <1>2 DEF liveVars, threadVars, Telegram, NewMessage
  <1>3. CASE BackendStep
    <2>1. CASE StartThread
      BY <2>1 DEF StartThread, NoReports, TypeInv, BackendInv, LiveTypeOK
    <2> QED
      BY <1>1, <1>3, <2>1 DEF BackendStep, StartRefused, StartPrepare, StartFails, StopNothing,
         StopSwap, StopSet, StopJoined, liveVars, threadVars
  <1>4. ASSUME NEW g \in Gens, LiveThread(g) PROVE NoReports'
    <2> USE DEF NoReports, TypeInv, BackendInv, LiveTypeOK
    <2>1. failed[g] = FALSE /\ poller[g] \notin {"check", "report", "clearFlag"}
      OBVIOUS
    <2>2. ~EmitRaises(Found(g))
      BY DEF EmitRaises, MayRaise, Overflows, Fits, Found, LiveMessage, Record
    <2>3. CASE PollTop(g) \/ PollFetch(g) \/ PollClear(g)
      BY <2>1, <2>3 DEF PollTop, PollFetch, PollClear
    <2>4. CASE PollNothingNew(g) \/ PollSkip(g) \/ PollDeliver(g)
      <3>1. failed' = failed /\ (UNCHANGED poller \/ NextChat(g))
        BY <2>4 DEF PollNothingNew, PollSkip, PollDeliver, HeadDone
      <3> QED
        BY <3>1 DEF NextChat
    <2> QED
      BY <1>4, <2>1, <2>2, <2>3, <2>4 DEF LiveThread, Polls, OnMessage, OnMessageRaises, OnError,
         OnErrorRaises, OnErrorClearFlag, PollFault, PollCheck, PollReported, PollReportRaises,
         PollFlagCleared, PollMoves, Fits
  <1> QED
    BY <1>2, <1>3, <1>4, StepKinds DEF vars

LEMMA FitStep ==
    ASSUME Fits, TypeInv, FitInv, [Next]_vars
    PROVE  FitInv'
  <1>1. ServerTypeOK /\ ExcKnown /\ LiveTypeOK
    BY DEF TypeInv, BackendInv
  <1>2. \A k \in DOMAIN <<>> : FALSE
    BY EmptySeq, LenProperties
  <1>3. (LongTexts => NoReports)'
    BY ReportsStep DEF FitInv
  <1>4. CASE PlainStep
    BY <1>2, <1>3, <1>4 DEF PlainStep, FitInv
  <1>5. CASE ListenFlush
    BY <1>2, <1>3, <1>5 DEF ListenFlush, FitInv
  <1>6. CASE FlushRecord
    <2>1. flush # <<>> /\ flush \in Seq(Records) /\ flush' = Tail(flush) /\ pending' = pending
      BY <1>1, <1>6 DEF FlushRecord, flags, ServerTypeOK
    <2> QED
      BY <1>3, <2>1, TailLists DEF FitInv
  <1>7. ASSUME NEW g \in Gens, LiveThread(g), PollerStep(g) PROVE FitInv'
    <2>1. CASE OnMessage(g)
      <3>1. batch[g] \in Seq(Ids) /\ batch[g] # <<>> /\ turn[g] \in Nat
        BY <2>1, LiveSets DEF OnMessage, PollDeliver, TypeInv, BackendInv, BatchFilled, LiveTypeOK
      <3>2. Head(batch[g]) \in Nat
        BY <3>1, HeadTailProperties, LiveSets
      <3>3. Found(g) \in Records /\ ~MayRaise(Found(g))
        BY <1>1, <3>1, <3>2, ServerRecords, LiveSets
           DEF Found, LiveMessage, Record, MayRaise, Overflows, Fits
      <3> QED
        BY <1>1, <1>3, <2>1, <3>3, EmitsFit DEF OnMessage, FitInv
    <2>2. CASE OnError(g)
      <3>1. LiveError(g) \in Records /\ ~MayRaise(LiveError(g))
        BY <1>1, <2>2, ServerRecords, LiveSets DEF OnError, PollReported, PollMoves, FitInv, NoReports,
           LiveError, Record, MayRaise, Overflows
      <3> QED
        BY <1>1, <1>3, <2>2, <3>1, EmitsFit DEF OnError, FitInv
    <2>3. CASE Polls(g) \/ OnMessageRaises(g) \/ OnErrorRaises(g) \/ OnErrorClearFlag(g)
      BY <1>3, <2>3 DEF Polls, OnMessageRaises, OnErrorRaises, OnErrorClearFlag, EmitRaises,
         ClearListenFlag, serverVars, local, flags, FitInv
    <2> QED
      BY <1>7, <2>1, <2>2, <2>3 DEF LiveThread
  <1>8. CASE Telegram \/ UNCHANGED vars
    BY <1>3, <1>8 DEF Telegram, vars, serverVars, local, flags, FitInv
  <1> QED
    BY <1>1, <1>4, <1>5, <1>6, <1>7, <1>8, StepKinds, ReadsPlain, HandlesPlain, CallsPlain

LEMMA FitInit == Init => FitInv
  <1>1. \A k \in DOMAIN <<>> : FALSE
    BY EmptySeq, LenProperties
  <1> QED
    BY <1>1 DEF Init, ServerInit, LiveInit, FitInv, NoReports
-----------------------------------------------------------------------------
(***************************************************************************)
(* One terminal record.  A request is unanswered from the moment it is     *)
(* read until its record is written; every step of the main thread writes  *)
(* no terminal record and answers nothing, or writes the one that is due.  *)
(***************************************************************************)
Unanswered == Requests \cup
    {"exporting", "listen.start", "listen.failed", "listen.flag", "listen.reply",
     "stop.call", "stop.reply", "fallback"}
Answered == {"read", "listen.flush", "listen.flushing"}

Names(k, id) == Terminal(out[k]) /\ out[k].id = id

OnceInv == \A j, k \in Places : Terminal(out[j]) /\ Names(k, out[j].id) => j = k

BoundInv ==
    /\ \A k \in Places : Terminal(out[k]) =>
         out[k].id <= requestId /\ (main \in Unanswered => out[k].id < requestId)
    /\ main \in Unanswered => requestId # 0

DoneInv ==
    \A id \in 1..requestId : id < requestId \/ main \in Answered =>
        Nameless(id) \/ \E k \in Places : Names(k, id)

TermInv == OnceInv /\ BoundInv /\ DoneInv

Silent ==
    /\ UNCHANGED requestId
    /\ UNCHANGED out \/ \E r \in Records : ~Terminal(r) /\ out' = Append(out, r)
    /\ main' \in Answered => main \in Answered
    /\ main' \in Unanswered => main \in Unanswered

Answers ==
    /\ UNCHANGED requestId
    /\ \E r \in Records : r.type # "event" /\ r.id = requestId /\ out' = Append(out, r)
    /\ main \in Unanswered /\ main' \notin Unanswered

\* What is written stays where it is.
LEMMA Grows ==
    ASSUME ServerTypeOK, NEW r \in Records, out' = Append(out, r)
    PROVE  /\ Len(out) \in Nat /\ Len(out) + 1 \notin Places /\ Len(out) + 1 \in Places'
           /\ out'[Len(out) + 1] = r
           /\ \A k \in Places : k \in Places' /\ out'[k] = out[k]
           /\ \A k \in Places' : k \in Places \/ k = Len(out) + 1
  <1>1. out \in Seq(Records) /\ DOMAIN out = 1..Len(out) /\ Len(out) \in Nat
    BY LenProperties DEF ServerTypeOK
  <1> QED
    BY <1>1, Appended DEF Places

LEMMA SilentTerms ==
    ASSUME ServerTypeOK, TermInv, Silent
    PROVE  TermInv'
  <1>1. CASE UNCHANGED out
    BY <1>1 DEF Silent, TermInv, OnceInv, BoundInv, DoneInv, Names, Nameless, Places
  <1>2. ASSUME NEW r \in Records, ~Terminal(r), out' = Append(out, r) PROVE TermInv'
    <2>1. /\ \A k \in Places : k \in Places' /\ out'[k] = out[k]
          /\ \A k \in Places' : k \in Places \/ ~Terminal(out'[k])
      BY <1>2, Grows
    <2>2. OnceInv'
      BY <2>1 DEF TermInv, OnceInv, Names
    <2>3. BoundInv'
      BY <2>1 DEF TermInv, BoundInv, Silent
    <2>4. DoneInv'
      <3> SUFFICES ASSUME NEW id \in 1..requestId', id < requestId' \/ main' \in Answered
                   PROVE  Nameless(id)' \/ \E k \in Places' : Names(k, id)'
        BY DEF DoneInv
      <3>1. Nameless(id) \/ \E k \in Places : Names(k, id)
        BY DEF Silent, TermInv, DoneInv
      <3> QED
        BY <2>1, <3>1 DEF Nameless, Names
    <2> QED
      BY <2>2, <2>3, <2>4 DEF TermInv
  <1> QED
    BY <1>1, <1>2 DEF Silent

LEMMA AnswersTerms ==
    ASSUME ServerTypeOK, TermInv, Answers
    PROVE  TermInv'
  <1>1. PICK r \in Records : r.type # "event" /\ r.id = requestId /\ out' = Append(out, r)
    BY DEF Answers
  <1>2. /\ Len(out) + 1 \in Places' /\ out'[Len(out) + 1] = r
        /\ \A k \in Places : k \in Places' /\ out'[k] = out[k]
        /\ \A k \in Places' : k \in Places \/ k = Len(out) + 1
    BY <1>1, Grows
  <1>3. Terminal(r) /\ requestId' = requestId /\ requestId \in Nat
    BY <1>1, ServerAssumption DEF Answers, TermInv, BoundInv, Terminal, Records, ServerTypeOK
  <1>4. \A k \in Places : Terminal(out[k]) => out[k].id # requestId
    <2>1. \A k \in Places : Terminal(out[k]) => out[k].id < requestId
      BY DEF Answers, TermInv, BoundInv
    <2> QED
      BY <1>3, <2>1
  <1>5. OnceInv'
    <2> SUFFICES ASSUME NEW j \in Places', NEW k \in Places', Terminal(out'[j]),
                        Terminal(out'[k]), out'[k].id = out'[j].id
                 PROVE  j = k
      BY DEF OnceInv, Names
    <2>1. j \in Places /\ k \in Places => j = k
      BY <1>2 DEF TermInv, OnceInv, Names
    <2> QED
      BY <1>1, <1>2, <1>4, <2>1
  <1>6. BoundInv'
    <2>1. \A k \in Places' : Terminal(out'[k]) => out'[k].id <= requestId
      <3> SUFFICES ASSUME NEW k \in Places', Terminal(out'[k]) PROVE out'[k].id <= requestId
        OBVIOUS
      <3>1. CASE k \in Places
        <4>1. out'[k] = out[k]
          BY <1>2, <3>1
        <4> QED
          BY <3>1, <4>1 DEF TermInv, BoundInv
      <3>2. CASE k = Len(out) + 1
        <4>1. out'[k].id = requestId
          BY <1>1, <1>2, <3>2
        <4> QED
          BY <1>3, <4>1
      <3> QED
        BY <1>2, <3>1, <3>2
    <2> QED
      BY <1>3, <2>1 DEF Answers, BoundInv
  <1>7. DoneInv'
    <2> SUFFICES ASSUME NEW id \in 1..requestId
                 PROVE  Nameless(id)' \/ \E k \in Places' : Names(k, id)'
      BY <1>3 DEF DoneInv
    <2>1. CASE id = requestId
      BY <1>1, <1>2, <1>3, <2>1 DEF Names
    <2>2. CASE id # requestId
      <3>1. id < requestId
        BY <1>3, <2>2
      <3>2. Nameless(id) \/ \E k \in Places : Names(k, id)
        BY <3>1 DEF TermInv, DoneInv
      <3> QED
        BY <1>2, <3>2 DEF Nameless, Names
    <2> QED
      BY <2>1, <2>2
  <1> QED
    BY <1>5, <1>6, <1>7 DEF TermInv

LEMMA ReadsTerms ==
    ASSUME ServerTypeOK, TermInv, Reads
    PROVE  TermInv'
  <1>1. main = "read" /\ requestId \in Nat /\ main \in Answered
    BY ServerAssumption DEF Reads, ReadRequest, ReadZeroId, ReadGarbage, ReadEof, LoopTop,
       ServerTypeOK, Answered
  <1>2. ASSUME NEW op \in Operations, ReadRequest(op) PROVE TermInv'
    <2>1. requestId' = requestId + 1 /\ out' = out /\ main' \in Requests
      BY <1>2 DEF ReadRequest, Goto
    <2>2. main' \notin Answered
      BY <2>1 DEF Requests, Answered
    <2>3. OnceInv'
      BY <2>1 DEF TermInv, OnceInv, Names, Places
    <2>4. BoundInv'
      <3>1. \A k \in Places : Terminal(out[k]) => out[k].id \in Nat /\ out[k].id <= requestId
        <4>1. \A k \in Places : out[k] \in Records
          BY LenProperties DEF ServerTypeOK, Places
        <4> QED
          BY <4>1 DEF Records, TermInv, BoundInv
      <3> QED
        BY <1>1, <2>1, <3>1 DEF BoundInv, Places
    <2>5. DoneInv'
      <3> SUFFICES ASSUME NEW id \in 1..(requestId + 1), id < requestId + 1
                   PROVE  Nameless(id) \/ \E k \in Places : Names(k, id)
        BY <2>1, <2>2 DEF DoneInv, Nameless, Names, Places
      <3>1. id \in 1..requestId
        BY <1>1
      <3> QED
        BY <1>1, <3>1 DEF TermInv, DoneInv
    <2> QED
      BY <2>3, <2>4, <2>5 DEF TermInv
  <1>3. CASE ReadZeroId
    <2> DEFINE z == Record("error", 0, "zeroId", 0, 0, requestId + 1)
    <2>l. CASE LongTexts /\ Return("1") /\ UNCHANGED out
      <3>1. requestId' = requestId + 1 /\ out' = out /\ main' \notin Answered \cup Unanswered
        BY <1>3, <2>l DEF ReadZeroId, Return, Goto, Answered, Unanswered, Requests
      <3>2. OnceInv'
        BY <3>1 DEF TermInv, OnceInv, Names, Places
      <3>3. \A k \in Places : Terminal(out[k]) => out[k].id \in Nat /\ out[k].id <= requestId
        <4>1. \A k \in Places : out[k] \in Records
          BY LenProperties DEF ServerTypeOK, Places
        <4> QED
          BY <4>1 DEF Records, TermInv, BoundInv
      <3>4. BoundInv'
        BY <1>1, <3>1, <3>3 DEF BoundInv, Places
      <3>5. \A id \in 1..(requestId + 1) : id < requestId + 1 => id \in 1..requestId
        BY <1>1
      <3>6. DoneInv'
        BY <1>1, <3>1, <3>5 DEF TermInv, DoneInv, Nameless, Names, Places
      <3> QED
        BY <3>2, <3>4, <3>6 DEF TermInv
    <2>w. CASE Write(z) /\ UNCHANGED <<main, status>>
      <3>1. /\ z \in Records /\ ~Terminal(z) /\ z.what = "zeroId" /\ z.n = requestId + 1
            /\ out' = Append(out, z) /\ main' = "read" /\ requestId' = requestId + 1
        BY <1>1, <1>3, <2>w, ServerRecords DEF ReadZeroId, Write, Terminal, Record
      <3> HIDE DEF z
      <3>2. /\ \A k \in Places : k \in Places' /\ out'[k] = out[k]
            /\ \A k \in Places' : k \in Places \/ ~Terminal(out'[k])
            /\ Len(out) + 1 \in Places' /\ out'[Len(out) + 1] = z
        BY <3>1, Grows
      <3>3. OnceInv'
        BY <3>2 DEF TermInv, OnceInv, Names
      <3>4. BoundInv'
        <4>1. \A k \in Places : Terminal(out[k]) => out[k].id \in Nat /\ out[k].id <= requestId
          <5>1. \A k \in Places : out[k] \in Records
            BY LenProperties DEF ServerTypeOK, Places
          <5> QED
            BY <5>1 DEF Records, TermInv, BoundInv
        <4>2. main' \notin Unanswered
          BY <3>1 DEF Unanswered, Requests
        <4>3. ASSUME NEW k \in Places', Terminal(out'[k]) PROVE out'[k].id <= requestId + 1
          <5>1. k \in Places /\ out'[k] = out[k]
            BY <3>2, <4>3
          <5>2. out[k].id \in Nat /\ out[k].id <= requestId
            BY <4>1, <4>3, <5>1
          <5> QED
            BY <1>1, <5>1, <5>2
        <4> QED
          BY <3>1, <4>2, <4>3 DEF BoundInv
      <3>5. DoneInv'
        <4> SUFFICES ASSUME NEW id \in 1..(requestId + 1)
                     PROVE  Nameless(id)' \/ \E k \in Places' : Names(k, id)'
          BY <3>1 DEF DoneInv
        <4>1. CASE id = requestId + 1
          BY <3>1, <3>2, <4>1 DEF Nameless
        <4>2. CASE id # requestId + 1
          <5>1. id \in 1..requestId
            BY <1>1, <4>2
          <5>2. Nameless(id) \/ \E k \in Places : Names(k, id)
            BY <1>1, <5>1 DEF TermInv, DoneInv
          <5> QED
            BY <3>2, <5>2 DEF Nameless, Names
        <4> QED
          BY <4>1, <4>2
      <3> QED
        BY <3>3, <3>4, <3>5 DEF TermInv
    <2> QED
      BY <1>3, <2>l, <2>w DEF ReadZeroId
  <1>4. CASE ReadGarbage \/ ReadEof
    <2>1. SessionError \in Records /\ ~Terminal(SessionError)
      BY ServerRecords DEF SessionError, Record, Terminal
    <2>2. Silent
      BY <1>4, <2>1 DEF ReadGarbage, ReadEof, Write, Return, Goto, Silent, local, flags,
         Answered, Unanswered, Requests
    <2> QED
      BY <2>2, SilentTerms
  <1> QED
    BY <1>2, <1>3, <1>4 DEF Reads

\* The flush loop ends with an answer still due only if a record is too long.
LEMMA HandlesTerms ==
    ASSUME ServerTypeOK, ExcKnown, LiveTypeOK, KeptLive, FitInv, HandlesRequest
    PROVE  Silent \/ Answers
  <1> USE DEF Goto, Return, local, flags, fate
  <1>1. ASSUME NEW what \in Whats, main \in Unanswered,
               Answer(Response(what)) \/ Answer(Error(what)) \/ Answer(Exported(what))
        PROVE  Answers
    <2>1. /\ Response(what) \in Records /\ Error(what) \in Records /\ Exported(what) \in Records
          /\ "read" \notin Unanswered
      BY ServerRecords DEF Unanswered, Requests
    <2> QED
      BY <1>1, <2>1, Labels DEF Answer, Write, Answers
  <1>2. ASSUME NEW kind \in {"error", "fatal", "refused"}, AnswerBackendError(kind),
               main \in Unanswered
        PROVE  Answers
    <2>1. Error(kind) \in Records /\ kind \in Whats /\ "read" \notin Unanswered
      BY ServerRecords DEF Unanswered, Requests, Whats
    <2> QED
      BY <1>2, <2>1, Labels DEF AnswerBackendError, Write, Answers
  <1>3. ASSUME TooLong, main \in Unanswered PROVE Silent
    BY <1>3 DEF TooLong, Silent, Answered
  <1>4. CASE AnswerHello \/ StopReply \/ Fallback \/ ExportInvalid \/ ListenInvalid
               \/ ListenRefused \/ ExportTruncate \/ ExportEnd
    <2>1. main \in Unanswered
      BY <1>4 DEF AnswerHello, StopReply, Fallback, ExportInvalid, ListenInvalid,
         ListenRefused, ExportTruncate, ExportEnd, Unanswered, Requests
    <2>2. \E what \in Whats :
             Answer(Response(what)) \/ Answer(Error(what)) \/ Answer(Exported(what))
      BY <1>4 DEF AnswerHello, StopReply, Fallback, ExportInvalid, ListenInvalid,
         ListenRefused, ExportTruncate, ExportEnd, Whats
    <2> QED
      BY <1>1, <2>1, <2>2
  <1>5. CASE AnswerQuery
    <2>1. main \in Unanswered
      BY <1>5 DEF AnswerQuery, Unanswered, Requests
    <2> QED
      BY <1>1, <1>2, <1>3, <1>5, <2>1 DEF AnswerQuery, Whats
  <1>6. CASE AnswerUnknown
    <2>1. main \in Unanswered
      BY <1>6 DEF AnswerUnknown, Unanswered, Requests
    <2>2. CASE Answer(Error("error"))
      BY <1>1, <2>1, <2>2 DEF Whats
    <2> QED
      BY <1>6, <2>2 DEF AnswerUnknown, Silent, Answered, Unanswered, Requests
  <1>7. CASE AnswerShutdown
    <2>1. Response("bye") \in Records
      BY ServerRecords DEF Whats
    <2> QED
      BY <1>7, <2>1, Labels DEF AnswerShutdown, Write, Answers, Unanswered, Requests
  <1>8. CASE ExportStart \/ ExportMessage
    <2>1. /\ ExportEvent("export.started") \in Records /\ ~Terminal(ExportEvent("export.started"))
          /\ ExportEvent("export.message") \in Records /\ ~Terminal(ExportEvent("export.message"))
      BY ServerRecords, Labels DEF Whats, Terminal
    <2> QED
      BY <1>8, <2>1 DEF ExportStart, ExportMessage, Write, Silent, Answered, Unanswered, Requests
  <1>9. CASE ExportFails
    <2>1. main \in Unanswered
      BY <1>9 DEF ExportFails, Unanswered
    <2>2. CASE AnswerCrash
      <3>1. Error("fatal") \in Records
        BY ServerRecords DEF Whats
      <3> QED
        BY <2>1, <2>2, <3>1, Labels DEF AnswerCrash, Write, Answers, Unanswered, Requests
    <2> QED
      BY <1>2, <1>3, <1>9, <2>1, <2>2 DEF ExportFails
  <1>10. CASE ListenFailed
    <2>1. main \in Unanswered /\ exc \in {"error", "fatal", "refused"}
      BY <1>10 DEF ListenFailed, Unanswered, ExcKnown, ServerTypeOK
    <2> QED
      BY <1>2, <1>3, <1>10, <2>1 DEF ListenFailed
  <1>11. CASE ListenReply(liveGeneration)
    <2>1. liveGeneration \in Nat /\ main \in Unanswered
      BY <1>11, LiveAssumption DEF LiveTypeOK, ListenReply, Unanswered
    <2>2. Accepted(liveGeneration) \in Records
      BY <2>1, ServerRecords
    <2> QED
      BY <1>3, <1>11, <2>1, <2>2, Labels DEF ListenReply, Write, Answers, Unanswered, Requests
  <1>12. CASE ListenArm \/ ListenFlag \/ ListenFlush \/ FlushDone \/ StopCheck \/ LoopEnds
    BY <1>12 DEF ListenArm, ListenFlag, ListenFlush, FlushDone, StopCheck, LoopEnds,
       Silent, Answered, Unanswered, Requests
  <1>13. CASE FlushRecord
    <2>1. LiveWrite
      BY <1>13, FlushWrites
    <2> QED
      BY <2>1 DEF LiveWrite, LiveRecord, mainVars, Silent, Terminal
  <1>14. ~FlushRaises
    <2>1. flush # <<>> => Head(flush) = flush[1] /\ 1 \in DOMAIN flush
      BY TailLists DEF ServerTypeOK
    <2> QED
      BY <2>1 DEF FlushRaises, FitInv
  <1> QED
    BY <1>4, <1>5, <1>6, <1>7, <1>8, <1>9, <1>10, <1>11, <1>12, <1>13, <1>14 DEF HandlesRequest

LEMMA CallsSilent ==
    ASSUME CallsBackend
    PROVE  Silent
  <1> USE DEF Silent, Goto, local, serverVars, Answered, Unanswered, Requests
  <1>1. CASE CallStart \/ CallStop \/ CallStopSignals
    BY <1>1 DEF CallStart, CallStop, CallStopSignals, InStop
  <1>2. CASE CallStartRefused \/ CallStartFails \/ CallStartReturns
    BY <1>2 DEF CallStartRefused, CallStartFails, CallStartReturns, ListenAborted, ListenStarted
  <1>3. CASE CallStopReturns
    BY <1>3 DEF CallStopReturns, StopReturned, CloseReturned
  <1> QED
    BY <1>1, <1>2, <1>3 DEF CallsBackend

LEMMA TermStep ==
    ASSUME TypeInv, KeptLive, FitInv, TermInv, [Next]_vars
    PROVE  TermInv'
  <1>1. ServerTypeOK /\ ExcKnown /\ LiveTypeOK
    BY DEF TypeInv, BackendInv
  <1>2. CASE Reads \/ HandlesRequest
    BY <1>1, <1>2, ReadsTerms, HandlesTerms, SilentTerms, AnswersTerms
  <1>3. CASE CallsBackend
    BY <1>1, <1>3, CallsSilent, SilentTerms
  <1>4. CASE \E g \in Gens : LiveThread(g)
    <2>1. LiveWrite
      BY <1>4, ThreadWrites
    <2>2. Silent
      BY <2>1 DEF LiveWrite, LiveRecord, mainVars, Silent, Terminal
    <2> QED
      BY <1>1, <2>2, SilentTerms
  <1>5. CASE Telegram \/ UNCHANGED vars
    <2>1. Silent
      BY <1>5 DEF Telegram, vars, serverVars, Silent
    <2> QED
      BY <1>1, <2>1, SilentTerms
  <1> QED
    BY <1>2, <1>3, <1>4, <1>5, StepKinds

LEMMA TermInit == Init => TermInv
  <1> SUFFICES ASSUME Init PROVE TermInv
    OBVIOUS
  <1>1. Places = {} /\ requestId = 0 /\ main = "read" /\ "read" \notin Unanswered /\ 1..requestId = {}
    BY EmptySeq, LenProperties DEF Init, ServerInit, Places, Unanswered, Requests
  <1> QED
    BY <1>1 DEF TermInv, OnceInv, BoundInv, DoneInv

(***************************************************************************)
(* When every live record fits, each request gets exactly one terminal     *)
(* record before the next is read: whatever the operation, whether it      *)
(* succeeds, fails, or its own record is too long, and whatever the live   *)
(* thread writes in between.                                               *)
(***************************************************************************)
THEOREM AnsweredOnce ==
    ASSUME Fits
    PROVE  Spec => []OneTerminal
  <1> DEFINE Inv == TypeInv /\ KeptLive /\ FitInv /\ TermInv
  <1>1. Init => Inv
    BY TypeInit, KeptLiveInit, FitInit, TermInit
  <1>2. Inv /\ [Next]_vars => Inv'
    BY TypeStep, KeptLiveStep, FitStep, TermStep
  <1>3. Inv => OneTerminal
    <2> SUFFICES ASSUME Inv, NEW id \in 1..requestId
                 PROVE  /\ Terminals(id) <= 1
                        /\ id < requestId \/ main = "read" => Terminals(id) = 1 \/ Nameless(id)
      BY DEF OneTerminal
    <2> DEFINE T == {k \in Places : Terminal(out[k]) /\ out[k].id = id}
    <2>1. Terminals(id) = Cardinality(T)
      BY DEF Terminals
    <2>2. id < requestId \/ main = "read" => Nameless(id) \/ T # {}
      BY DEF TermInv, DoneInv, Names, Answered
    <2>3. \A j, k \in T : j = k
      BY DEF TermInv, OnceInv, Names
    <2>4. CASE T = {}
      <3>1. Cardinality(T) = 0
        BY <2>4, FS_EmptySet
      <3> QED
        BY <2>1, <2>2, <2>4, <3>1
    <2>5. CASE T # {}
      <3>1. PICK k : T = {k}
        BY <2>3, <2>5
      <3>2. Cardinality(T) = 1
        BY <3>1, FS_Singleton
      <3> QED
        BY <2>1, <3>2
    <2> QED
      BY <2>4, <2>5
  <1> HIDE DEF Inv
  <1> QED
    BY <1>1, <1>2, <1>3, PTL DEF Spec
-----------------------------------------------------------------------------
(***************************************************************************)
(* The frame of an export.  While one runs, `count` is the number of its   *)
(* messages on the wire and its "started" precedes them; elsewhere it is   *)
(* 0, and ids of earlier exports are not used again.                       *)
(***************************************************************************)
Summaries == {"complete", "truncated"}
Framing   == {"export.started", "export.message"} \cup Summaries

Of(what, id)     == {j \in Places : out[j].what = what /\ out[j].id = id}
OfNext(what, id) == {j \in Places' : out'[j].what = what /\ out'[j].id = id}

FramedAt(k) ==
    /\ Cardinality(Of("export.message", out[k].id)) = out[k].n
    /\ \E s \in Of("export.started", out[k].id) :
         \A j \in Of("export.message", out[k].id) : s < j /\ j < k

FrameIds ==
    \A k \in Places : out[k].what \in Framing =>
        /\ out[k].id <= requestId
        /\ main \in Requests \/ (main = "exporting" /\ out[k].what \in Summaries)
             => out[k].id < requestId

OpenFrame ==
    /\ main \notin {"exporting", "fallback"} /\ ~Ended => count = 0
    /\ main = "exporting" =>
         /\ Cardinality(Of("export.message", requestId)) = count
         /\ \E s \in Of("export.started", requestId) :
              \A j \in Of("export.message", requestId) : s < j

FrameInv ==
    /\ FrameIds /\ OpenFrame
    /\ \A k \in Places : out[k].what \in Summaries => FramedAt(k)

\* A step that is no part of an export.
Aside ==
    /\ UNCHANGED requestId
    /\ UNCHANGED out \/ \E r \in Records : r.what \notin Framing /\ out' = Append(out, r)
    /\ \/ UNCHANGED <<main, count>>
       \/ /\ main' \notin Requests \cup {"exporting"}
          /\ \/ count' = 0
             \/ main' \in {"fallback", "close.stop", "close.backend", "exited"}
             \/ count' = count /\ main \notin {"exporting", "fallback"} /\ ~Ended

LEMMA RecordIds ==
    ASSUME ServerTypeOK
    PROVE  /\ requestId \in Nat /\ count \in Nat
           /\ \A k \in Places : k \in Nat /\ out[k] \in Records /\ out[k].id \in Nat
  <1>1. requestId \in Nat /\ count \in Nat /\ out \in Seq(Records)
    BY ServerAssumption DEF ServerTypeOK
  <1>2. \A k \in Places : k \in Nat /\ out[k] \in Records
    BY <1>1, LenProperties DEF Places
  <1> QED
    BY <1>1, <1>2 DEF Records

LEMMA OfGrows ==
    ASSUME ServerTypeOK, NEW r \in Records, out' = Append(out, r), NEW what, NEW id
    PROVE  /\ ~(r.what = what /\ r.id = id) => OfNext(what, id) = Of(what, id)
           /\ r.what = what /\ r.id = id => OfNext(what, id) = Of(what, id) \cup {Len(out) + 1}
           /\ Of(what, id) \subseteq OfNext(what, id)
  <1>1. /\ Len(out) + 1 \in Places' /\ out'[Len(out) + 1] = r
        /\ \A k \in Places : k \in Places' /\ out'[k] = out[k]
        /\ \A k \in Places' : k \in Places \/ k = Len(out) + 1
    BY Grows
  <1> QED
    BY <1>1 DEF Of, OfNext

LEMMA FramedStays ==
    ASSUME ServerTypeOK, NEW r \in Records, out' = Append(out, r), NEW k \in Places,
           FramedAt(k), r.what = "export.message" => r.id # out[k].id
    PROVE  FramedAt(k)'
  <1> DEFINE id == out[k].id
             M  == OfNext("export.message", id)
             S  == OfNext("export.started", id)
  <1>1. out'[k] = out[k]
    BY Grows
  <1>2. M = Of("export.message", id)
    BY OfGrows
  <1>3. Of("export.started", id) \subseteq S
    BY OfGrows
  <1>4. Cardinality(M) = out[k].n /\ \E s \in S : \A j \in M : s < j /\ j < k
    BY <1>2, <1>3 DEF FramedAt
  <1>5. Of("export.message", out[k].id)' = M /\ Of("export.started", out[k].id)' = S
    BY <1>1 DEF Of, OfNext
  <1> HIDE DEF M, S
  <1> QED
    BY <1>1, <1>4, <1>5 DEF FramedAt

LEMMA AsideFrame ==
    ASSUME ServerTypeOK, FrameInv, Aside
    PROVE  FrameInv'
  <1>1. UNCHANGED out \/ \E r \in Records : r.what \notin Framing /\ out' = Append(out, r)
    BY DEF Aside
  <1>2. main' \in Requests \cup {"exporting"} => UNCHANGED main
    BY DEF Aside
  <1>3. requestId' = requestId
    BY DEF Aside
  <1>4. main' \notin {"exporting", "fallback"} /\ ~Ended' => count' = 0
    BY DEF Aside, FrameInv, OpenFrame, Ended
  <1>5. main' = "exporting" => main = "exporting" /\ count' = count
    BY DEF Aside
  <1>6. CASE UNCHANGED out
    <2>2. OpenFrame'
      BY <1>3, <1>4, <1>5, <1>6 DEF FrameInv, OpenFrame, Of, Places
    <2>3. FrameIds'
      BY <1>2, <1>3, <1>6 DEF FrameInv, FrameIds, Places
    <2> QED
      BY <1>6, <2>2, <2>3 DEF FrameInv, FramedAt, Of, Places
  <1>7. ASSUME NEW r \in Records, r.what \notin Framing, out' = Append(out, r)
        PROVE  FrameInv'
    <2>1. /\ \A k \in Places : k \in Places' /\ out'[k] = out[k]
          /\ \A k \in Places' : k \in Places \/ out'[k] = r
      BY <1>7, Grows
    <2>2. FrameIds'
      BY <1>2, <1>3, <1>7, <2>1 DEF FrameInv, FrameIds
    <2>3. ASSUME main' = "exporting"
          PROVE  /\ Cardinality(Of("export.message", requestId)') = count'
                 /\ \E s \in Of("export.started", requestId)' :
                      \A j \in Of("export.message", requestId)' : s < j
      <3>1. /\ Of("export.message", requestId)' = Of("export.message", requestId)
            /\ Of("export.started", requestId)' = Of("export.started", requestId)
        <4>1. /\ OfNext("export.message", requestId) = Of("export.message", requestId)
              /\ OfNext("export.started", requestId) = Of("export.started", requestId)
          BY <1>7, OfGrows DEF Framing
        <4> QED
          BY <1>3, <4>1 DEF Of, OfNext
      <3> QED
        BY <1>5, <2>3, <3>1 DEF FrameInv, OpenFrame
    <2>4. OpenFrame'
      BY <1>4, <2>3 DEF OpenFrame
    <2>5. \A k \in Places' : out'[k].what \in Summaries => FramedAt(k)'
      <3> SUFFICES ASSUME NEW k \in Places', out'[k].what \in Summaries PROVE FramedAt(k)'
        OBVIOUS
      <3>1. k \in Places /\ out'[k] = out[k]
        BY <1>7, <2>1 DEF Framing
      <3>2. FramedAt(k)
        BY <3>1 DEF FrameInv
      <3> QED
        BY <1>7, <3>1, <3>2, FramedStays DEF Framing
    <2> QED
      BY <2>2, <2>4, <2>5 DEF FrameInv
  <1> QED
    BY <1>1, <1>6, <1>7

LEMMA StartFrame ==
    ASSUME ServerTypeOK, FrameInv, ExportStart
    PROVE  FrameInv'
  <1> DEFINE r == ExportEvent("export.started")
  <1>1. /\ main = "messages.export" /\ main' = "exporting" /\ requestId' = requestId
        /\ count' = count /\ out' = Append(out, r)
        /\ r \in Records /\ r.what = "export.started" /\ r.id = requestId
    BY ServerRecords, Labels DEF ExportStart, Goto, Write, Whats
  <1>2. requestId \in Nat
    BY RecordIds
  <1> HIDE DEF r
  <1>3. /\ \A k \in Places : k \in Places' /\ out'[k] = out[k] /\ out[k].id \in Nat
        /\ \A k \in Places' : k \in Places \/ k = Len(out) + 1
        /\ out'[Len(out) + 1] = r /\ Len(out) + 1 \in Places'
    BY <1>1, Grows, RecordIds
  <1>4. \A k \in Places : out[k].what \in Framing => out[k].id < requestId
    BY <1>1 DEF FrameInv, FrameIds, Requests
  <1>5. FrameIds'
    <2> SUFFICES ASSUME NEW k \in Places', out'[k].what \in Framing
                 PROVE  /\ out'[k].id <= requestId
                        /\ out'[k].what \in Summaries => out'[k].id < requestId
      BY <1>1 DEF FrameIds, Requests
    <2>1. CASE k \in Places
      <3>1. out'[k] = out[k] /\ out[k].id \in Nat /\ out[k].id < requestId
        BY <1>3, <1>4, <2>1
      <3> QED
        BY <1>2, <3>1
    <2>2. CASE k = Len(out) + 1
      BY <1>1, <1>2, <1>3, <2>2 DEF Summaries
    <2> QED
      BY <1>3, <2>1, <2>2
  <1>6. OpenFrame'
    <2>1. Of("export.message", requestId) = {}
      <3>1. \A k \in Places : out[k].what = "export.message" => out[k].id # requestId
        BY <1>2, <1>3, <1>4 DEF Framing
      <3> QED
        BY <3>1 DEF Of
    <2>2. OfNext("export.message", requestId) = {}
      BY <1>1, <2>1, OfGrows
    <2>3. Len(out) + 1 \in OfNext("export.started", requestId)
      BY <1>1, <1>3 DEF OfNext
    <2>4. count = 0
      BY <1>1 DEF FrameInv, OpenFrame, Ended
    <2>5. Cardinality(OfNext("export.message", requestId)) = 0
      BY <2>2, FS_EmptySet
    <2>6. /\ Of("export.message", requestId)' = OfNext("export.message", requestId)
          /\ Of("export.started", requestId)' = OfNext("export.started", requestId)
      BY <1>1 DEF Of, OfNext
    <2> QED
      BY <1>1, <2>2, <2>3, <2>4, <2>5, <2>6 DEF OpenFrame
  <1>7. ASSUME NEW k \in Places', out'[k].what \in Summaries PROVE FramedAt(k)'
    <2>1. k \in Places /\ out'[k] = out[k]
      BY <1>1, <1>3, <1>7 DEF Summaries
    <2>2. FramedAt(k)
      BY <1>7, <2>1 DEF FrameInv
    <2> QED
      BY <1>1, <2>1, <2>2, FramedStays
  <1> QED
    BY <1>5, <1>6, <1>7 DEF FrameInv

LEMMA MessageFrame ==
    ASSUME ServerTypeOK, FrameInv, ExportMessage
    PROVE  FrameInv'
  <1> DEFINE r == ExportEvent("export.message")
  <1>1. /\ main = "exporting" /\ main' = main /\ requestId' = requestId
        /\ count' = count + 1 /\ out' = Append(out, r)
        /\ r \in Records /\ r.what = "export.message" /\ r.id = requestId
    BY ServerRecords, Labels DEF ExportMessage, Write, Whats
  <1>2. requestId \in Nat /\ count \in Nat
    BY RecordIds
  <1> HIDE DEF r
  <1>3. /\ \A k \in Places : k \in Places' /\ out'[k] = out[k] /\ out[k].id \in Nat
        /\ \A k \in Places' : k \in Places \/ k = Len(out) + 1
        /\ out'[Len(out) + 1] = r /\ Len(out) + 1 \in Places' /\ Len(out) + 1 \notin Places
    BY <1>1, Grows, RecordIds
  <1>4. FrameIds'
    <2> SUFFICES ASSUME NEW k \in Places', out'[k].what \in Framing
                 PROVE  /\ out'[k].id <= requestId
                        /\ out'[k].what \in Summaries => out'[k].id < requestId
      BY <1>1 DEF FrameIds, Requests
    <2>1. CASE k \in Places
      <3>1. out'[k] = out[k]
        BY <1>3, <2>1
      <3> QED
        BY <1>1, <2>1, <3>1 DEF FrameInv, FrameIds
    <2>2. CASE k = Len(out) + 1
      BY <1>1, <1>2, <1>3, <2>2 DEF Summaries
    <2> QED
      BY <1>3, <2>1, <2>2
  <1>5. OpenFrame'
    <2> DEFINE M == Of("export.message", requestId)
    <2>1. OfNext("export.message", requestId) = M \cup {Len(out) + 1}
      BY <1>1, OfGrows
    <2>2. IsFiniteSet(M) /\ Len(out) + 1 \notin M
      <3>1. Places = 1..Len(out) /\ Len(out) \in Nat
        BY LenProperties DEF ServerTypeOK, Places
      <3>2. IsFiniteSet(Places)
        BY <3>1, FS_Interval
      <3>3. M \subseteq Places
        BY DEF Of
      <3>4. IsFiniteSet(M)
        BY <3>2, <3>3, FS_Subset
      <3> QED
        BY <1>3, <3>3, <3>4
    <2>3. Cardinality(OfNext("export.message", requestId)) = count + 1
      <3>1. Cardinality(M) = count
        BY <1>1 DEF FrameInv, OpenFrame
      <3>2. Cardinality(M \cup {Len(out) + 1}) = Cardinality(M) + 1
        BY <2>2, FS_AddElement
      <3> QED
        BY <2>1, <3>1, <3>2
    <2>4. PICK s \in Of("export.started", requestId) : \A j \in M : s < j
      BY <1>1 DEF FrameInv, OpenFrame
    <2>5. s \in OfNext("export.started", requestId) /\ s < Len(out) + 1
      <3>1. Of("export.started", requestId) \subseteq OfNext("export.started", requestId)
        BY <1>1, OfGrows
      <3>2. s \in Places
        BY DEF Of
      <3>3. s <= Len(out) /\ s \in Nat /\ Len(out) \in Nat
        BY <3>2, LenProperties DEF ServerTypeOK, Places
      <3> QED
        BY <2>4, <3>1, <3>3
    <2>6. /\ Of("export.message", requestId)' = OfNext("export.message", requestId)
          /\ Of("export.started", requestId)' = OfNext("export.started", requestId)
      BY <1>1 DEF Of, OfNext
    <2>7. \A j \in OfNext("export.message", requestId) : s < j
      BY <2>1, <2>4, <2>5
    <2> QED
      BY <1>1, <2>3, <2>5, <2>6, <2>7 DEF OpenFrame
  <1>6. ASSUME NEW k \in Places', out'[k].what \in Summaries PROVE FramedAt(k)'
    <2>1. k \in Places /\ out'[k] = out[k]
      BY <1>1, <1>3, <1>6 DEF Summaries
    <2>2. FramedAt(k) /\ out[k].id < requestId /\ out[k].id \in Nat
      BY <1>1, <1>3, <1>6, <2>1 DEF FrameInv, FrameIds, Framing
    <2>3. r.id # out[k].id
      BY <1>1, <1>2, <2>2
    <2> QED
      BY <1>1, <2>1, <2>2, <2>3, FramedStays
  <1> QED
    BY <1>4, <1>5, <1>6 DEF FrameInv

LEMMA SummaryFrame ==
    ASSUME ServerTypeOK, FrameInv, main = "exporting", NEW what \in Summaries,
           Answer(Exported(what))
    PROVE  FrameInv'
  <1> DEFINE r == Exported(what)
  <1>1. /\ main' = "read" /\ requestId' = requestId /\ count' = 0 /\ out' = Append(out, r)
        /\ r \in Records /\ r.what \in Summaries /\ r.id = requestId /\ r.n = count
    BY ServerRecords, Labels DEF Answer, Goto, Write, Whats, Summaries
  <1>2. requestId \in Nat /\ count \in Nat
    BY RecordIds
  <1> HIDE DEF r
  <1>3. /\ \A k \in Places : k \in Places' /\ out'[k] = out[k]
        /\ \A k \in Places' : k \in Places \/ k = Len(out) + 1
        /\ out'[Len(out) + 1] = r
    BY <1>1, Grows
  <1>4. FrameIds'
    <2> SUFFICES ASSUME NEW k \in Places', out'[k].what \in Framing
                 PROVE  out'[k].id <= requestId
      BY <1>1 DEF FrameIds, Requests
    <2>1. CASE k \in Places
      <3>1. out'[k] = out[k]
        BY <1>3, <2>1
      <3> QED
        BY <2>1, <3>1 DEF FrameInv, FrameIds
    <2>2. CASE k = Len(out) + 1
      BY <1>1, <1>2, <1>3, <2>2
    <2> QED
      BY <1>3, <2>1, <2>2
  <1>5. OpenFrame'
    BY <1>1 DEF OpenFrame
  <1>6. ASSUME NEW k \in Places, out[k].what \in Summaries PROVE FramedAt(k)'
    <2>1. FramedAt(k) /\ r.what # "export.message"
      BY <1>1, <1>6 DEF FrameInv, Summaries
    <2> QED
      BY <1>1, <2>1, FramedStays
  <1>7. ASSUME NEW k, k = Len(out) + 1 PROVE FramedAt(k)'
    <2>1. out'[k].id = requestId /\ out'[k].n = count
      BY <1>1, <1>3, <1>7
    <2>2. /\ OfNext("export.message", requestId) = Of("export.message", requestId)
          /\ OfNext("export.started", requestId) = Of("export.started", requestId)
      BY <1>1, OfGrows DEF Summaries
    <2>3. /\ Of("export.message", out[k].id)' = Of("export.message", requestId)
          /\ Of("export.started", out[k].id)' = Of("export.started", requestId)
      BY <2>1, <2>2 DEF Of, OfNext
    <2>4. \A j \in Of("export.message", requestId) : j < k
      <3>1. \A j \in Places : j \in Nat /\ j <= Len(out)
        BY LenProperties DEF ServerTypeOK, Places
      <3>2. Len(out) \in Nat
        BY LenProperties DEF ServerTypeOK
      <3>3. \A j \in Places : j < k
        BY <1>7, <3>1, <3>2
      <3> QED
        BY <3>3 DEF Of
    <2>5. /\ Cardinality(Of("export.message", requestId)) = count
          /\ \E s \in Of("export.started", requestId) :
               \A j \in Of("export.message", requestId) : s < j
      BY DEF FrameInv, OpenFrame
    <2> QED
      BY <2>1, <2>3, <2>4, <2>5 DEF FramedAt
  <1>8. \A k \in Places' : out'[k].what \in Summaries => FramedAt(k)'
    BY <1>3, <1>6, <1>7
  <1> QED
    BY <1>4, <1>5, <1>8 DEF FrameInv

LEMMA ReadsFrame ==
    ASSUME ServerTypeOK, FrameInv, Reads
    PROVE  FrameInv'
  <1>1. main = "read" /\ requestId \in Nat /\ count = 0
    BY RecordIds DEF Reads, ReadRequest, ReadZeroId, ReadGarbage, ReadEof, LoopTop,
       FrameInv, OpenFrame, Ended
  <1>2. \A k \in Places : out[k].what \in Framing => out[k].id < requestId + 1
    <2>1. \A k \in Places : out[k].what \in Framing => out[k].id <= requestId /\ out[k].id \in Nat
      BY RecordIds DEF FrameInv, FrameIds
    <2> QED
      BY <1>1, <2>1
  <1>3. \A k \in Places : out[k].what \in Framing =>
          out[k].id <= requestId + 1 /\ out[k].id < requestId + 1
    <2>1. \A k \in Places : out[k].id \in Nat
      BY RecordIds
    <2> QED
      BY <1>1, <1>2, <2>1
  <1>4. ASSUME NEW op \in Operations, ReadRequest(op) PROVE FrameInv'
    <2>1. /\ requestId' = requestId + 1 /\ out' = out /\ count' = 0 /\ main' # "exporting"
      BY <1>1, <1>4 DEF ReadRequest, Goto, local, Requests
    <2> QED
      BY <1>3, <2>1 DEF FrameInv, FrameIds, OpenFrame, FramedAt, Of, Places
  <1>5. CASE ReadZeroId
    <2> DEFINE z == Record("error", 0, "zeroId", 0, 0, requestId + 1)
    <2>l. CASE LongTexts /\ Return("1") /\ UNCHANGED out
      <3>1. /\ requestId' = requestId + 1 /\ out' = out /\ count' = 0
            /\ main' \notin Requests \cup {"exporting"}
        BY <1>1, <1>5, <2>l DEF ReadZeroId, Return, Goto, local, Requests
      <3> QED
        BY <1>3, <3>1 DEF FrameInv, FrameIds, OpenFrame, FramedAt, Of, Places
    <2>w. CASE Write(z) /\ UNCHANGED <<main, status>>
      <3>1. /\ z \in Records /\ z.what = "zeroId" /\ out' = Append(out, z) /\ main' = "read"
            /\ requestId' = requestId + 1 /\ count' = 0
        BY <1>1, <1>5, <2>w, ServerRecords DEF ReadZeroId, Write, Record, local
      <3> HIDE DEF z
      <3>2. /\ \A k \in Places : k \in Places' /\ out'[k] = out[k]
            /\ \A k \in Places' : k \in Places \/ out'[k] = z
        BY <3>1, Grows
      <3>3. FrameIds'
        BY <1>3, <3>1, <3>2 DEF FrameIds, Framing, Summaries, Requests
      <3>4. ASSUME NEW k \in Places', out'[k].what \in Summaries PROVE FramedAt(k)'
        <4>1. k \in Places /\ out'[k] = out[k]
          BY <3>1, <3>2, <3>4 DEF Summaries
        <4>2. FramedAt(k)
          BY <3>4, <4>1 DEF FrameInv
        <4> QED
          BY <3>1, <4>1, <4>2, FramedStays
      <3> QED
        BY <3>1, <3>3, <3>4 DEF FrameInv, OpenFrame
    <2> QED
      BY <1>5, <2>l, <2>w DEF ReadZeroId
  <1>6. CASE ReadGarbage \/ ReadEof
    <2>1. SessionError \in Records /\ SessionError.what \notin Framing
      BY ServerRecords DEF SessionError, Record, Framing, Summaries
    <2>2. Aside
      BY <1>6, <2>1 DEF ReadGarbage, ReadEof, Write, Return, Goto, Aside, Requests
    <2> QED
      BY <2>2, AsideFrame
  <1> QED
    BY <1>4, <1>5, <1>6 DEF Reads

LEMMA HandlesFrame ==
    ASSUME ServerTypeOK, ExcKnown, LiveTypeOK, KeptLive, FrameInv, HandlesRequest
    PROVE  FrameInv'
  <1> USE DEF Goto, Return, local
  <1>1. ASSUME NEW what \in Whats \ Framing, Answer(Response(what)) \/ Answer(Error(what))
        PROVE  Aside
    <2>1. Response(what) \in Records /\ Error(what) \in Records
      BY ServerRecords
    <2> QED
      BY <1>1, <2>1, Labels DEF Answer, Write, Aside, Requests
  <1>2. ASSUME NEW kind \in {"error", "fatal", "refused"}, AnswerBackendError(kind)
        PROVE  Aside
    <2>1. Error(kind) \in Records /\ kind \notin Framing
      BY ServerRecords DEF Whats, Framing, Summaries
    <2> QED
      BY <1>2, <2>1, Labels DEF AnswerBackendError, Write, Aside, Requests
  <1>3. ASSUME TooLong PROVE Aside
    BY <1>3 DEF TooLong, Aside, Requests
  <1>4. ASSUME UNCHANGED <<requestId, out>>, main' \in {"close.stop", "close.backend", "exited"}
        PROVE  Aside
    BY <1>4 DEF Aside, Requests
  <1>5. CASE AnswerHello \/ StopReply \/ Fallback \/ ExportInvalid \/ ListenInvalid
               \/ ListenRefused
    <2>1. \E what \in Whats \ Framing : Answer(Response(what)) \/ Answer(Error(what))
      BY <1>5 DEF AnswerHello, StopReply, Fallback, ExportInvalid, ListenInvalid,
         ListenRefused, Whats, Framing, Summaries
    <2> QED
      BY <1>1, <2>1, AsideFrame
  <1>6. CASE AnswerQuery
    <2>1. Aside
      BY <1>1, <1>2, <1>3, <1>6 DEF AnswerQuery, Whats, Framing, Summaries
    <2> QED
      BY <2>1, AsideFrame
  <1>7. CASE AnswerUnknown
    <2>1. Aside
      BY <1>1, <1>4, <1>7 DEF AnswerUnknown, Whats, Framing, Summaries
    <2> QED
      BY <2>1, AsideFrame
  <1>8. CASE AnswerShutdown
    <2>1. Response("bye") \in Records /\ "bye" \notin Framing
      BY ServerRecords DEF Whats, Framing, Summaries
    <2>2. Aside
      BY <1>8, <2>1, Labels DEF AnswerShutdown, Write, Aside, Requests, Ended
    <2> QED
      BY <2>2, AsideFrame
  <1>9. CASE ExportStart \/ ExportMessage
    BY <1>9, StartFrame, MessageFrame
  <1>10. CASE ExportTruncate \/ ExportEnd
    <2>1. main = "exporting" /\ \E what \in Summaries : Answer(Exported(what))
      BY <1>10 DEF ExportTruncate, ExportEnd, Summaries
    <2> QED
      BY <2>1, SummaryFrame
  <1>11. CASE ExportFails
    <2>1. CASE AnswerCrash
      <3>1. Error("fatal") \in Records /\ "fatal" \notin Framing
        BY ServerRecords DEF Whats, Framing, Summaries
      <3>2. Aside
        BY <2>1, <3>1, Labels DEF AnswerCrash, Write, Aside, Requests
      <3> QED
        BY <3>2, AsideFrame
    <2>2. CASE ~AnswerCrash
      <3>1. Aside
        BY <1>2, <1>3, <1>11, <2>2 DEF ExportFails
      <3> QED
        BY <3>1, AsideFrame
    <2> QED
      BY <2>1, <2>2
  <1>12. CASE ListenFailed
    <2>1. exc \in {"error", "fatal", "refused"}
      BY <1>12 DEF ListenFailed, ExcKnown, ServerTypeOK
    <2>2. Aside
      BY <1>2, <1>3, <1>12, <2>1 DEF ListenFailed
    <2> QED
      BY <2>2, AsideFrame
  <1>13. CASE ListenReply(liveGeneration)
    <2>1. liveGeneration \in Nat
      BY LiveAssumption DEF LiveTypeOK
    <2>2. Accepted(liveGeneration) \in Records /\ "accepted" \notin Framing
      BY <2>1, ServerRecords DEF Framing, Summaries
    <2>3. Aside
      BY <1>3, <1>13, <2>2, Labels DEF ListenReply, Write, Aside, Requests, Ended
    <2> QED
      BY <2>3, AsideFrame
  <1>14. CASE ListenArm \/ ListenFlag \/ ListenFlush \/ FlushRaises \/ FlushDone \/ StopCheck
    <2>1. Aside
      BY <1>14 DEF ListenArm, ListenFlag, ListenFlush, FlushRaises, FlushDone, StopCheck,
         Aside, Requests, Ended
    <2> QED
      BY <2>1, AsideFrame
  <1>15. CASE FlushRecord
    <2>1. LiveWrite
      BY <1>15, FlushWrites
    <2>2. Aside
      BY <2>1 DEF LiveWrite, LiveRecord, mainVars, Aside, Framing, Summaries
    <2> QED
      BY <2>2, AsideFrame
  <1>16. CASE LoopEnds
    <2>1. Aside
      BY <1>4, <1>16 DEF LoopEnds
    <2> QED
      BY <2>1, AsideFrame
  <1> QED
    BY <1>5, <1>6, <1>7, <1>8, <1>9, <1>10, <1>11, <1>12, <1>13, <1>14, <1>15, <1>16
       DEF HandlesRequest

LEMMA CallsAside ==
    ASSUME CallsBackend
    PROVE  Aside
  <1> USE DEF Aside, Goto, local, serverVars, Ended, Requests
  <1>1. CASE CallStart \/ CallStop \/ CallStopSignals
    BY <1>1 DEF CallStart, CallStop, CallStopSignals, InStop
  <1>2. CASE CallStartRefused \/ CallStartFails \/ CallStartReturns
    BY <1>2 DEF CallStartRefused, CallStartFails, CallStartReturns, ListenAborted, ListenStarted
  <1>3. CASE CallStopReturns
    BY <1>3 DEF CallStopReturns, StopReturned, CloseReturned
  <1> QED
    BY <1>1, <1>2, <1>3 DEF CallsBackend

(***************************************************************************)
(* A completed or truncated export counts exactly the messages it wrote,   *)
(* all of them between its "started" and its summary, whatever is exported *)
(* before and after it and whatever the live thread writes in between.     *)
(***************************************************************************)
THEOREM ExportsFramed == Spec => []ExportFramed
  <1> DEFINE Inv == TypeInv /\ KeptLive /\ FrameInv
  <1>1. Init => FrameInv
    <2> SUFFICES ASSUME Init PROVE FrameInv
      OBVIOUS
    <2>1. Places = {} /\ main = "read" /\ count = 0
      BY EmptySeq, LenProperties DEF Init, ServerInit, Places
    <2> QED
      BY <2>1 DEF FrameInv, FrameIds, OpenFrame
  <1>2. Init => Inv
    BY <1>1, TypeInit, KeptLiveInit
  <1>3. Inv /\ [Next]_vars => Inv'
    <2> SUFFICES ASSUME Inv, [Next]_vars PROVE FrameInv'
      BY TypeStep, KeptLiveStep
    <2>1. ServerTypeOK /\ ExcKnown /\ LiveTypeOK
      BY DEF TypeInv, BackendInv
    <2>2. CASE Reads \/ HandlesRequest
      BY <2>1, <2>2, ReadsFrame, HandlesFrame
    <2>3. CASE CallsBackend
      BY <2>1, <2>3, CallsAside, AsideFrame
    <2>4. CASE \E g \in Gens : LiveThread(g)
      <3>1. LiveWrite
        BY <2>4, ThreadWrites
      <3>2. Aside
        BY <3>1 DEF LiveWrite, LiveRecord, mainVars, Aside, Framing, Summaries
      <3> QED
        BY <2>1, <3>2, AsideFrame
    <2>5. CASE Telegram \/ UNCHANGED vars
      <3>1. Aside
        BY <2>5 DEF Telegram, vars, serverVars, local, Aside
      <3> QED
        BY <2>1, <3>1, AsideFrame
    <2> QED
      BY <2>2, <2>3, <2>4, <2>5, StepKinds
  <1>4. Inv => ExportFramed
    BY DEF FrameInv, FramedAt, Summaries, ExportFramed, Of
  <1> HIDE DEF Inv
  <1> QED
    BY <1>2, <1>3, <1>4, PTL DEF Spec
-----------------------------------------------------------------------------
(***************************************************************************)
(* The refinement.  While the promise is not void, four invariants relate  *)
(* the wire to the threads.                                                *)
(*                                                                         *)
(* FlagInv: while the feed is on, the flag is set, or the report that      *)
(* cleared it is still kept back; and what polls with events on is the     *)
(* accepted listener.                                                      *)
(* TidyInv: what is kept back is of the newest listener, on topic, and no  *)
(* message of a listener comes after its report.                           *)
(* WireInv: what was written since the last change of the feed.            *)
(* CoverInv: a message on topic that is older than the mark of its chat    *)
(* was given, is kept back, or is in the batch of its thread; only those   *)
(* behind everything kept back are lost when the thread fails.             *)
(***************************************************************************)
Void == Overtaken \/ FlushTorn

\* Always true: the newest thread is the one that polls, and it has not failed.
ThreadInv ==
    /\ \A g \in Gens : poller[g] \in Live => g = liveGeneration
    /\ \A g \in Gens : poller[g] \in Polling \cup {"unborn"} => ~failed[g]
    /\ \A g \in Gens, c \in Chats : watches[g][c] <= latest[c]

\* Always true: what is being accepted, or was, while pending records are flushed.
AnswerInv ==
    /\ Answering => liveGeneration # 0
    /\ main \in {"listen.flush", "listen.flushing"} => AcceptsRequest(requestId)

IsReport(r) == r.what = "liveError" /\ r.gen = liveGeneration
ReportIn(s) == \E k \in DOMAIN s : IsReport(s[k])
ReportKept  == ReportIn(pending) \/ ReportIn(flush)

FlagInv ==
    /\ \A g \in Gens : poller[g] \in Live => listenActive \/ main = "listen.flag"
    /\ main \in {"listen.start", "listen.flag", "stop.reply"} => ~listenActive
    /\ main \in {"listen.start", "listen.flag", "listen.reply"} => ~FeedOn
    /\ main = "listen.flush" => FeedOn
    /\ FeedOn \/ main = "listen.reply" => listenActive \/ ReportKept \/ main = "stop.reply"
    /\ \A g \in Gens : g = liveGeneration /\ poller[g] = "clearFlag"
          /\ (FeedOn \/ main \in {"listen.flag", "listen.reply"}) => ReportKept
    /\ \A g \in Gens : poller[g] \in Polling /\ eventsReady => FeedOn
    /\ ReportKept => \A g \in Gens : g = liveGeneration => poller[g] \in {"clearFlag"} \cup Over

Tidy(s) ==
    \A k \in DOMAIN s :
        /\ s[k].gen <= liveGeneration
        /\ s[k].what = "message" =>
             /\ s[k].gen = liveGeneration
             /\ <<s[k].chat, s[k].n>> \notin OffTopic
             /\ \A j \in DOMAIN s : j < k => ~IsReport(s[j])

TidyInv ==
    /\ Tidy(pending) /\ Tidy(flush)
    /\ main = "listen.start" => \A k \in DOMAIN pending : pending[k].what # "message"
    /\ \A k \in DOMAIN flush : flush[k].what = "message" => FeedOn

HasLargest(S) == \E n \in S : \A m \in S : m <= n

WireInv ==
    /\ HasLargest(Controls \cup {0})
    /\ \A k \in Places : out[k].what = "accepted" =>
         out[k].gen \in Gens /\ out[k].gen <= liveGeneration
    /\ FeedOn => out[LastControl].gen = liveGeneration
    /\ \A k \in Places : k > LastControl /\ out[k].what = "message" =>
         FeedOn /\ out[k].gen = liveGeneration
    /\ \A c \in Chats : GivenOf(c) = {} \/ HasLargest(GivenOf(c))

MessageOf(r, c) == r.what = "message" /\ r.chat = c
Holds(s, c, n)  == \E k \in DOMAIN s : MessageOf(s[k], c) /\ s[k].n = n
Before(s, c, n) == \A k \in DOMAIN s : MessageOf(s[k], c) => s[k].n < n

Covered(g, c, n) ==
    \/ FeedOn /\ n <= Given(c)
    \/ Holds(flush, c, n) \/ Holds(pending, c, n)
    \/ poller[g] = "emit" /\ turn[g] = c /\ \E i \in DOMAIN batch[g] : batch[g][i] = n
    \/ failed[g] /\ Before(flush, c, n) /\ Before(pending, c, n)

CoverInv ==
    FeedOn \/ main \in {"listen.flag", "listen.reply"} =>
      \A g \in Gens, c \in Chats, n \in Ids :
        /\ g = liveGeneration /\ <<c, n>> \notin OffTopic
        /\ baseline[g][c] < n /\ n <= watches[g][c]
        => Covered(g, c, n)
-----------------------------------------------------------------------------
(***************************************************************************)
(* The wire, seen through the mapping.  A record on the wire is a turn of  *)
(* the feed, a message, or neither.                                        *)
(***************************************************************************)
GivenIn(o, last, c) ==
    {o[k].n : k \in {j \in (last + 1)..Len(o) : o[j].what = "message" /\ o[j].chat = c}}

LEMMA GivenIs ==
    ASSUME NEW o \in Seq(Records), NEW last \in Nat, NEW c, NEW n
    PROVE  n \in GivenIn(o, last, c) <=>
             \E k \in DOMAIN o : /\ k > last /\ o[k].what = "message" /\ o[k].chat = c
                                 /\ n = o[k].n
  <1>1. DOMAIN o = 1..Len(o) /\ Len(o) \in Nat
    BY LenProperties
  <1>2. \A k : k \in DOMAIN o /\ k > last <=> k \in (last + 1)..Len(o)
    BY <1>1
  <1> QED
    BY <1>2 DEF GivenIn

LEMMA GivenOfIs == \A c : GivenOf(c) = GivenIn(out, LastControl, c)
                          /\ GivenOf(c)' = GivenIn(out', LastControl', c)
  BY DEF GivenOf, GivenIn

LEMMA LargestIn ==
    ASSUME NEW S, HasLargest(S)
    PROVE  Largest(S) \in S /\ \A m \in S : m <= Largest(S)
  BY DEF HasLargest, Largest

LEMMA LargestIs ==
    ASSUME NEW S \in SUBSET Nat, NEW top \in S, \A m \in S : m <= top
    PROVE  HasLargest(S) /\ Largest(S) = top
  <1>1. HasLargest(S)
    BY DEF HasLargest
  <1>2. Largest(S) \in S /\ \A m \in S : m <= Largest(S)
    BY <1>1, LargestIn
  <1>3. Largest(S) \in Nat /\ top \in Nat /\ top <= Largest(S) /\ Largest(S) <= top
    BY <1>2
  <1> QED
    BY <1>1, <1>3

\* Where the last turn is.
LEMMA LastPlace ==
    ASSUME ServerTypeOK, WireInv
    PROVE  /\ LastControl \in Nat /\ LastControl <= Len(out) /\ Len(out) \in Nat
           /\ Places = 1..Len(out)
           /\ LastControl # 0 => LastControl \in Controls /\ LastControl \in Places
           /\ \A k \in Controls : k <= LastControl
  <1>1. Places = 1..Len(out) /\ Len(out) \in Nat
    BY LenProperties DEF ServerTypeOK, Places
  <1>2. LastControl \in Controls \cup {0} /\ \A m \in Controls \cup {0} : m <= LastControl
    BY LargestIn DEF WireInv, LastControl
  <1> QED
    BY <1>1, <1>2 DEF Controls

\* A record that is no turn: every place stays what it was.
NoTurn(r) ==
    /\ r \in Records /\ r.what \notin {"accepted", "stopped"}
    /\ r.what = "liveError" => \E j \in Places : out[j].what = "accepted" /\ out[j].gen > r.gen

LEMMA TurnsSame ==
    ASSUME ServerTypeOK, WireInv, NEW r, NoTurn(r), out' = Append(out, r)
    PROVE  /\ Controls' = Controls /\ LastControl' = LastControl /\ (FeedOn' <=> FeedOn)
           /\ FeedOn => out'[LastControl'] = out[LastControl]
  <1>1. /\ r \in Records /\ Len(out) \in Nat /\ Len(out) + 1 \notin Places
        /\ Len(out) + 1 \in Places' /\ out'[Len(out) + 1] = r
        /\ \A k \in Places : k \in Places' /\ out'[k] = out[k] /\ k < Len(out) + 1
        /\ \A k \in Places' : k \in Places \/ k = Len(out) + 1
    BY Grows, LastPlace DEF NoTurn
  <1>2. \A k \in Places : (\E j \in Places' : Supersedes(j, k)') <=> \E j \in Places : Supersedes(j, k)
    BY <1>1 DEF Supersedes, NoTurn
  <1>3. \A k \in Places : k \in Controls' <=> k \in Controls
    BY <1>1, <1>2 DEF Controls
  <1>4. Len(out) + 1 \notin Controls'
    BY <1>1 DEF Controls, Supersedes, NoTurn
  <1>5. Controls' = Controls
    BY <1>1, <1>3, <1>4 DEF Controls
  <1>6. LastControl' = LastControl
    BY <1>5 DEF LastControl
  <1>7. LastControl # 0 => out'[LastControl] = out[LastControl]
    BY <1>1, LastPlace
  <1> QED
    BY <1>5, <1>6, <1>7 DEF FeedOn

\* A record that is a turn: nothing comes after it.
LEMMA TurnsAt ==
    ASSUME ServerTypeOK, ServerTypeOK', WireInv, NEW r \in Records, out' = Append(out, r),
           \/ r.what \in {"accepted", "stopped"}
           \/ /\ r.what = "liveError"
              /\ ~\E j \in Places : out[j].what = "accepted" /\ out[j].gen > r.gen
    PROVE  /\ HasLargest((Controls \cup {0})')
           /\ LastControl' = Len(out) + 1 /\ out'[LastControl'] = r
           /\ FeedOn' <=> r.what = "accepted"
           /\ \A k \in Places' : ~(k > LastControl')
           /\ \A c : GivenOf(c)' = {}
  <1> SUFFICES ASSUME NEW L, L = Len(out) + 1
               PROVE  /\ HasLargest((Controls \cup {0})')
                      /\ LastControl' = L /\ out'[LastControl'] = r
                      /\ FeedOn' <=> r.what = "accepted"
                      /\ \A k \in Places' : ~(k > LastControl')
                      /\ \A c : GivenOf(c)' = {}
    OBVIOUS
  <1>1. /\ Len(out) \in Nat /\ L \notin Places /\ L \in Places' /\ out'[L] = r
        /\ Places = 1..Len(out)
        /\ \A k \in Places : k \in Places' /\ out'[k] = out[k] /\ k <= L
        /\ \A k \in Places' : k \in Places \/ k = L
    BY Grows, LastPlace
  <1>2. \A k \in Places' : k \in Nat /\ k <= L
    BY <1>1
  <1>3. L \in Nat /\ L # 0
    BY <1>1
  <1>4. \A j \in Places' : ~Supersedes(j, L)' \/ r.what \in {"accepted", "stopped"}
    BY <1>1, <1>2, <1>3 DEF Supersedes
  <1>5. L \in Controls'
    BY <1>1, <1>4 DEF Controls
  <1>6. Controls' \subseteq Places'
    BY DEF Controls
  <1>7. HasLargest(Controls' \cup {0}) /\ LastControl' = L
    <2> DEFINE S == Controls' \cup {0}
    <2>1. S \in SUBSET Nat /\ L \in S /\ \A m \in S : m <= L
      BY <1>2, <1>3, <1>5, <1>6
    <2>2. LastControl' = Largest(S)
      BY DEF LastControl
    <2> HIDE DEF S
    <2>3. HasLargest(S) /\ LastControl' = L
      BY <2>1, <2>2, LargestIs
    <2> QED
      BY <2>3 DEF S
  <1>8. FeedOn' <=> r.what = "accepted"
    BY <1>1, <1>3, <1>7 DEF FeedOn
  <1>9. \A k \in Places' : ~(k > L)
    BY <1>2, <1>3
  <1>10. ASSUME NEW c PROVE GivenOf(c)' = {}
    <2>1. out' \in Seq(Records)
      BY DEF ServerTypeOK
    <2>2. \A n : n \notin GivenIn(out', L, c)
      BY <1>3, <1>9, <2>1, GivenIs DEF Places
    <2> QED
      BY <1>7, <2>2, GivenOfIs
  <1> QED
    BY <1>1, <1>7, <1>8, <1>9, <1>10

LEMMA GivenGrows ==
    ASSUME ServerTypeOK, ServerTypeOK', WireInv, NEW r, NoTurn(r), out' = Append(out, r), NEW c
    PROVE  GivenOf(c)' = IF r.what = "message" /\ r.chat = c THEN GivenOf(c) \cup {r.n}
                                                             ELSE GivenOf(c)
  <1> DEFINE At(o, k, n) == /\ k > LastControl /\ o[k].what = "message" /\ o[k].chat = c
                            /\ n = o[k].n
  <1>1. /\ Len(out) \in Nat /\ Len(out) + 1 \in Places' /\ out'[Len(out) + 1] = r
        /\ LastControl \in Nat /\ LastControl <= Len(out)
        /\ \A k \in Places : k \in Places' /\ out'[k] = out[k]
        /\ \A k \in Places' : k \in Places \/ k = Len(out) + 1
    BY Grows, LastPlace DEF NoTurn
  <1>2. LastControl' = LastControl
    BY TurnsSame
  <1>3. \A n : /\ n \in GivenOf(c) <=> \E k \in Places : At(out, k, n)
               /\ n \in GivenOf(c)' <=> \E k \in Places' : At(out', k, n)
    <2>1. out \in Seq(Records) /\ out' \in Seq(Records) /\ LastControl \in Nat
      BY <1>1 DEF ServerTypeOK
    <2>2. GivenOf(c) = GivenIn(out, LastControl, c) /\ GivenOf(c)' = GivenIn(out', LastControl, c)
      BY <1>2, GivenOfIs
    <2>3. \A o \in Seq(Records) : \A n : n \in GivenIn(o, LastControl, c) <=> \E k \in DOMAIN o : At(o, k, n)
      <3> SUFFICES ASSUME NEW o \in Seq(Records), NEW n
                   PROVE  n \in GivenIn(o, LastControl, c) <=> \E k \in DOMAIN o : At(o, k, n)
        OBVIOUS
      <3> QED
        BY <2>1, GivenIs
    <2> HIDE DEF At
    <2> QED
      BY <2>1, <2>2, <2>3 DEF Places
  <1>4. Len(out) + 1 > LastControl
    BY <1>1
  <1>5. \A n : (\E k \in Places' : At(out', k, n)) <=>
                 \/ \E k \in Places : At(out, k, n)
                 \/ r.what = "message" /\ r.chat = c /\ n = r.n
    BY <1>1, <1>4
  <1> HIDE DEF At
  <1>6. \A n : n \in GivenOf(c)' <=> n \in GivenOf(c) \/ (r.what = "message" /\ r.chat = c /\ n = r.n)
    BY <1>3, <1>5
  <1> QED
    BY <1>6

\* While the feed is off nothing is given.
LEMMA OffGiven ==
    ASSUME ServerTypeOK, WireInv, ~FeedOn, NEW c \in Chats
    PROVE  GivenOf(c) = {} /\ Given(c) = 0
  <1>1. \A n : n \notin GivenOf(c)
    <2>1. LastControl \in Nat /\ out \in Seq(Records)
      BY LastPlace DEF ServerTypeOK
    <2> QED
      BY <2>1, GivenIs, GivenOfIs DEF WireInv, Places
  <1>2. GivenOf(c) = {}
    BY <1>1
  <1> QED
    BY <1>2 DEF Given, FeedStart, NoMarks

\* A step that tells the host nothing of the feed.
LEMMA WireStill ==
    ASSUME ServerTypeOK, ServerTypeOK', WireInv,
           UNCHANGED out \/ \E r : NoTurn(r) /\ r.what # "message" /\ out' = Append(out, r),
           liveGeneration' = liveGeneration, baseline' = baseline
    PROVE  WireInv' /\ (FeedOn' <=> FeedOn) /\ \A c \in Chats : Given(c)' = Given(c)
  <1>1. CASE UNCHANGED out
    <2>1. Controls' = Controls
      BY <1>1 DEF Controls, Supersedes, Places
    <2>2. LastControl' = LastControl
      BY <2>1 DEF LastControl
    <2>3. FeedOn' <=> FeedOn
      BY <1>1, <2>2 DEF FeedOn
    <2>4. \A c \in Chats : GivenOf(c)' = GivenOf(c)
      BY <1>1, <2>2, GivenOfIs
    <2>5. FeedStart' = FeedStart
      BY <1>1, <2>2, <2>3 DEF FeedStart
    <2>6. \A c \in Chats : Given(c)' = Given(c)
      BY <2>4, <2>5 DEF Given
    <2>7. WireInv'
      BY <1>1, <2>1, <2>2, <2>3, <2>4 DEF WireInv, Places
    <2> QED
      BY <2>3, <2>6, <2>7
  <1>2. ASSUME NEW r, NoTurn(r), r.what # "message", out' = Append(out, r)
        PROVE  WireInv' /\ (FeedOn' <=> FeedOn) /\ \A c \in Chats : Given(c)' = Given(c)
    <2>1. /\ \A k \in Places : k \in Places' /\ out'[k] = out[k]
          /\ \A k \in Places' : k \in Places \/ out'[k] = r
      BY <1>2, Grows DEF NoTurn
    <2>2. /\ Controls' = Controls /\ LastControl' = LastControl /\ (FeedOn' <=> FeedOn)
          /\ FeedOn => out'[LastControl'] = out[LastControl]
      BY <1>2, TurnsSame
    <2>3. \A c \in Chats : GivenOf(c)' = GivenOf(c)
      BY <1>2, GivenGrows
    <2>4. FeedStart' = FeedStart
      BY <2>2 DEF FeedStart
    <2>5. \A c \in Chats : Given(c)' = Given(c)
      BY <2>3, <2>4 DEF Given
    <2>6. WireInv'
      BY <1>2, <2>1, <2>2, <2>3 DEF WireInv, NoTurn
    <2> QED
      BY <2>2, <2>5, <2>6
  <1> QED
    BY <1>1, <1>2

\* The feed is off, and the backend starts a listener.
LEMMA WireFresh ==
    ASSUME ServerTypeOK, WireInv, ~FeedOn, UNCHANGED out,
           ServerTypeOK',
           \A g \in Gens : g <= liveGeneration => g <= liveGeneration'
    PROVE  WireInv' /\ ~FeedOn' /\ \A c \in Chats : Given(c)' = 0
  <1>1. Controls' = Controls
    BY DEF Controls, Supersedes, Places
  <1>2. LastControl' = LastControl
    BY <1>1 DEF LastControl
  <1>3. ~FeedOn'
    BY <1>2 DEF FeedOn
  <1>4. \A c \in Chats : GivenOf(c)' = GivenOf(c)
    BY <1>2, GivenOfIs
  <1>5. \A c \in Chats : Given(c)' = 0
    <2>1. \A c \in Chats : GivenOf(c)' = {}
      BY <1>4, OffGiven
    <2>2. \A c \in Chats : FeedStart'[c] = 0
      BY <1>3 DEF FeedStart, NoMarks
    <2> QED
      BY <2>1, <2>2 DEF Given
  <1> QED
    BY <1>1, <1>2, <1>3, <1>4, <1>5 DEF WireInv, Places

\* A record that turns the feed.
LEMMA WireTurns ==
    ASSUME ServerTypeOK, ServerTypeOK', WireInv, NEW r \in Records, out' = Append(out, r),
           \/ r.what = "accepted" /\ r.gen = liveGeneration /\ r.gen \in Gens
           \/ r.what = "stopped"
           \/ /\ r.what = "liveError"
              /\ ~\E j \in Places : out[j].what = "accepted" /\ out[j].gen > r.gen,
           liveGeneration' = liveGeneration, baseline' = baseline
    PROVE  /\ WireInv' /\ (FeedOn' <=> r.what = "accepted")
           /\ \A c \in Chats :
                Given(c)' = IF FeedOn' THEN baseline[liveGeneration][c] ELSE 0
  <1>1. /\ HasLargest((Controls \cup {0})') /\ out'[LastControl'] = r
        /\ FeedOn' <=> r.what = "accepted"
        /\ \A k \in Places' : ~(k > LastControl')
        /\ \A c : GivenOf(c)' = {}
    BY TurnsAt
  <1>2. /\ \A k \in Places : k \in Places' /\ out'[k] = out[k]
        /\ \A k \in Places' : k \in Places \/ out'[k] = r
    BY Grows
  <1>3. liveGeneration \in Gens => liveGeneration <= liveGeneration
    BY LiveSets
  <1>4. WireInv'
    BY <1>1, <1>2, <1>3 DEF WireInv
  <1>5. \A c \in Chats : Given(c)' = IF FeedOn' THEN baseline[liveGeneration][c] ELSE 0
    <2>1. \A c \in Chats : FeedStart'[c] = IF FeedOn' THEN baseline[liveGeneration][c] ELSE 0
      BY <1>1 DEF FeedStart, NoMarks
    <2> QED
      BY <1>1, <2>1 DEF Given
  <1> QED
    BY <1>1, <1>4, <1>5

\* The report of a listener that is still the accepted one turns the feed off.
LEMMA WireReports ==
    ASSUME ServerTypeOK, ServerTypeOK', WireInv, NEW r \in Records, out' = Append(out, r),
           r.what = "liveError", r.gen <= liveGeneration,
           liveGeneration \in Nat, liveGeneration' = liveGeneration, baseline' = baseline
    PROVE  /\ WireInv' /\ (FeedOn' <=> FeedOn /\ r.gen # liveGeneration)
           /\ \A c \in Chats : Given(c)' = IF FeedOn' THEN Given(c) ELSE 0
  <1> DEFINE Superseded == \E j \in Places : out[j].what = "accepted" /\ out[j].gen > r.gen
  <1>1. r.gen \in Nat
    BY DEF Records
  <1>2. FeedOn /\ r.gen # liveGeneration => Superseded
    <2>1. FeedOn => /\ LastControl \in Places /\ out[LastControl].what = "accepted"
                    /\ out[LastControl].gen = liveGeneration
      BY LastPlace DEF FeedOn, WireInv
    <2>2. r.gen # liveGeneration => liveGeneration > r.gen
      BY <1>1
    <2> QED
      BY <2>1, <2>2
  <1>3. r.gen = liveGeneration => ~Superseded
    <2>1. \A j \in Places : out[j].what = "accepted" =>
            out[j].gen \in Nat /\ out[j].gen <= liveGeneration
      BY LiveSets DEF WireInv
    <2> QED
      BY <1>1, <2>1
  <1> HIDE DEF Superseded
  <1>4. CASE Superseded
    <2>1. NoTurn(r)
      BY <1>4 DEF NoTurn, Superseded
    <2>2. WireInv' /\ (FeedOn' <=> FeedOn) /\ \A c \in Chats : Given(c)' = Given(c)
      BY <2>1, WireStill
    <2>3. ~FeedOn => \A c \in Chats : Given(c) = 0
      BY OffGiven
    <2> QED
      BY <1>3, <1>4, <2>2, <2>3
  <1>5. CASE ~Superseded
    <2>1. WireInv' /\ ~FeedOn' /\ \A c \in Chats : Given(c)' = 0
      BY <1>5, WireTurns DEF Superseded
    <2> QED
      BY <1>2, <1>5, <2>1
  <1> QED
    BY <1>4, <1>5

\* What was given is older than what is still to come.
LEMMA GivenBounds ==
    ASSUME ServerTypeOK, LiveTypeOK, WireInv, PassedAll(out), FeedOn, NEW c \in Chats
    PROVE  /\ liveGeneration \in Gens /\ Given(c) \in Nat
           /\ baseline[liveGeneration][c] <= Given(c)
           /\ \A r : /\ r.what = "message" /\ r.gen = liveGeneration /\ r.chat = c
                     /\ Passed(r) \/ baseline[liveGeneration][c] < r.n
                     /\ Above(out, r)
                     => Given(c) < r.n
  <1>1. /\ LastControl \in Places /\ out[LastControl].what = "accepted"
        /\ out[LastControl].gen = liveGeneration
    BY LastPlace DEF FeedOn, WireInv
  <1>2. liveGeneration \in Gens /\ FeedStart = baseline[liveGeneration]
    BY <1>1 DEF WireInv, FeedStart
  <1>3. baseline[liveGeneration][c] \in Nat
    <2>1. baseline[liveGeneration][c] \in Ids
      BY <1>2 DEF LiveTypeOK
    <2> QED
      BY <2>1, LiveSets
  <1>4. CASE GivenOf(c) = {}
    <2>1. Given(c) = baseline[liveGeneration][c]
      BY <1>2, <1>4 DEF Given
    <2> QED
      BY <1>2, <1>3, <2>1 DEF Passed
  <1>5. CASE GivenOf(c) # {}
    <2>1. Given(c) \in GivenOf(c)
      BY <1>5, LargestIn DEF Given, WireInv
    <2>2. LastControl \in Nat /\ out \in Seq(Records)
      BY LastPlace DEF ServerTypeOK
    <2>3. PICK k \in Places : /\ k > LastControl /\ out[k].what = "message"
                              /\ out[k].chat = c /\ Given(c) = out[k].n
      BY <2>1, <2>2, GivenIs, GivenOfIs DEF Places
    <2>4. out[k].gen = liveGeneration /\ Passed(out[k])
      BY <2>3 DEF WireInv, PassedAll, Places
    <2>5. Given(c) \in Nat /\ baseline[liveGeneration][c] < Given(c)
      BY <2>3, <2>4 DEF Passed
    <2>6. \A r : r.what = "message" /\ r.gen = liveGeneration /\ r.chat = c /\ Above(out, r)
                 => Given(c) < r.n
      BY <2>3, <2>4 DEF Above, SameChat, Places
    <2> QED
      BY <1>2, <1>3, <2>5, <2>6
  <1> QED
    BY <1>4, <1>5

\* A message that is written while the feed is on.
LEMMA WireTold ==
    ASSUME ServerTypeOK, ServerTypeOK', LiveTypeOK, WireInv, PassedAll(out), FeedOn,
           NEW r \in Records, out' = Append(out, r), r.what = "message",
           r.gen = liveGeneration, r.chat \in Chats, Above(out, r),
           baseline[liveGeneration][r.chat] < r.n,
           liveGeneration' = liveGeneration, baseline' = baseline
    PROVE  /\ WireInv' /\ FeedOn' /\ Given(r.chat)' = r.n
           /\ \A c \in Chats \ {r.chat} : Given(c)' = Given(c)
  <1>1. NoTurn(r)
    BY DEF NoTurn
  <1>2. /\ \A k \in Places : k \in Places' /\ out'[k] = out[k]
        /\ \A k \in Places' : k \in Places \/ out'[k] = r
    BY Grows
  <1>3. /\ Controls' = Controls /\ LastControl' = LastControl /\ FeedOn'
        /\ out'[LastControl'] = out[LastControl]
    BY <1>1, TurnsSame
  <1>4. FeedStart' = FeedStart
    BY <1>3 DEF FeedStart
  <1>5. \A c \in Chats \ {r.chat} : GivenOf(c)' = GivenOf(c)
    BY <1>1, GivenGrows
  <1>6. HasLargest(GivenOf(r.chat)') /\ Largest(GivenOf(r.chat)') = r.n
    <2> DEFINE S == GivenOf(r.chat) \cup {r.n}
    <2>1. GivenOf(r.chat)' = S
      <3>1. ASSUME NEW c, c = r.chat PROVE GivenOf(c)' = GivenOf(c) \cup {r.n}
        BY <1>1, <3>1, GivenGrows
      <3> QED
        BY <3>1
    <2>2. \A m \in GivenOf(r.chat) : m \in Nat /\ m < r.n
      <3> SUFFICES ASSUME NEW m \in GivenOf(r.chat) PROVE m \in Nat /\ m < r.n
        OBVIOUS
      <3>1. LastControl \in Nat /\ out \in Seq(Records)
        BY LastPlace DEF ServerTypeOK
      <3>2. PICK k \in Places : /\ k > LastControl /\ out[k].what = "message"
                                /\ out[k].chat = r.chat /\ m = out[k].n
        <4>1. GivenOf(r.chat) = GivenIn(out, LastControl, r.chat)
          BY GivenOfIs
        <4> QED
          BY <3>1, <4>1, GivenIs DEF Places
      <3>3. out[k].gen = liveGeneration /\ Passed(out[k])
        BY <3>2 DEF WireInv, PassedAll, Places
      <3> QED
        BY <3>2, <3>3 DEF Above, SameChat, Places, Passed
    <2>3. r.n \in Nat
      BY DEF Records
    <2>4. S \in SUBSET Nat /\ r.n \in S /\ \A m \in S : m <= r.n
      BY <2>2, <2>3
    <2> HIDE DEF S
    <2>5. HasLargest(S) /\ Largest(S) = r.n
      BY <2>4, LargestIs
    <2> QED
      BY <2>1, <2>5
  <1>7. Given(r.chat)' = r.n
    <2>1. r.n \in GivenOf(r.chat)'
      BY <1>6, LargestIn
    <2> QED
      BY <1>6, <2>1 DEF Given
  <1>8. \A c \in Chats \ {r.chat} : Given(c)' = Given(c)
    BY <1>4, <1>5 DEF Given
  <1>9. WireInv'
    BY <1>2, <1>3, <1>5, <1>6 DEF WireInv
  <1> QED
    BY <1>3, <1>7, <1>8, <1>9
-----------------------------------------------------------------------------
(***************************************************************************)
(* Steps of the abstract feed.                                             *)
(***************************************************************************)
Calm == ~Void /\ ~Void'

SameFeed == (FeedOn' <=> FeedOn) /\ \A c \in Chats : Given(c)' = Given(c)

Follows == Feed!Next \/ UNCHANGED Feed!feedVars

LEMMA FeedRests ==
    ASSUME Calm, latest' = latest, SameFeed
    PROVE  Follows
  <1>1. FeedOn' = FeedOn
    BY DEF SameFeed, FeedOn
  <1>2. [c \in Chats |-> Given(c)]' = [c \in Chats |-> Given(c)]
    BY DEF SameFeed, Chats
  <1>3. (Overtaken \/ FlushTorn)' = (Overtaken \/ FlushTorn)
    BY DEF Calm, Void
  <1> QED
    BY <1>1, <1>2, <1>3 DEF Follows, Feed!feedVars

LEMMA FeedPosts ==
    ASSUME Calm, LiveTypeOK, SameFeed, NEW c \in Chats, latest' = [latest EXCEPT ![c] = @ + 1]
    PROVE  Follows
  <1>1. FeedOn' = FeedOn
    BY DEF SameFeed, FeedOn
  <1>2. [d \in Chats |-> Given(d)]' = [d \in Chats |-> Given(d)]
    BY DEF SameFeed, Chats
  <1>3. (Overtaken \/ FlushTorn)' = (Overtaken \/ FlushTorn) /\ ~(Overtaken \/ FlushTorn)
    BY DEF Calm, Void
  <1>4. Feed!Post(c)
    BY <1>1, <1>2, <1>3 DEF Feed!Post
  <1> QED
    BY <1>3, <1>4 DEF Follows, Feed!Next

LEMMA FeedStops ==
    ASSUME Calm, latest' = latest, FeedOn, ~FeedOn', \A c \in Chats : Given(c)' = 0
    PROVE  Follows
  <1>1. [c \in Chats |-> Given(c)]' = [c \in Chats |-> 0]
    BY DEF Chats
  <1>2. (Overtaken \/ FlushTorn)' = (Overtaken \/ FlushTorn) /\ ~(Overtaken \/ FlushTorn)
    BY DEF Calm, Void
  <1>3. FeedOn' = FALSE
    OBVIOUS
  <1>4. Feed!TurnOff
    BY <1>1, <1>2, <1>3 DEF Feed!TurnOff, Feed!Nothing
  <1> QED
    BY <1>2, <1>4 DEF Follows, Feed!Next

LEMMA FeedAccepts ==
    ASSUME Calm, LiveTypeOK, ThreadInv, MarksInv, latest' = latest, ~FeedOn, FeedOn',
           liveGeneration \in Gens, \A c \in Chats : Given(c)' = baseline[liveGeneration][c]
    PROVE  Follows
  <1>1. \A c \in Chats : baseline[liveGeneration][c] \in 0..MaxMsgs
                         /\ baseline[liveGeneration][c] <= latest[c]
    <2> SUFFICES ASSUME NEW c \in Chats
                 PROVE  baseline[liveGeneration][c] \in 0..MaxMsgs
                        /\ baseline[liveGeneration][c] <= latest[c]
      OBVIOUS
    <2>1. /\ baseline[liveGeneration][c] \in Ids /\ watches[liveGeneration][c] \in Ids
          /\ latest[c] \in Ids
      BY DEF LiveTypeOK
    <2>2. /\ baseline[liveGeneration][c] <= watches[liveGeneration][c]
          /\ watches[liveGeneration][c] <= latest[c]
      BY DEF ThreadInv, MarksInv
    <2> QED
      BY <2>1, <2>2, LiveAssumption DEF Ids
  <1>2. (Overtaken \/ FlushTorn)' = (Overtaken \/ FlushTorn) /\ ~(Overtaken \/ FlushTorn)
    BY DEF Calm, Void
  <1>3. FeedOn' = TRUE
    OBVIOUS
  <1> DEFINE now == [c \in Chats |-> Given(c)]'
  <1>4. now \in [Chats -> 0..MaxMsgs] /\ \A c \in Chats : now[c] <= latest[c]
    BY <1>1 DEF Chats
  <1>5. Feed!Accept
    BY <1>2, <1>3, <1>4 DEF Feed!Accept
  <1> QED
    BY <1>2, <1>5 DEF Follows, Feed!Next

LEMMA FeedGives ==
    ASSUME Calm, LiveTypeOK, latest' = latest, FeedOn, FeedOn',
           NEW c \in Chats, NEW n \in Nat, Given(c) \in Nat, Given(c)' = n,
           \A d \in Chats \ {c} : Given(d)' = Given(d),
           Given(c) < n, n <= latest[c], <<c, n>> \notin OffTopic,
           \A m \in Nat : Given(c) < m /\ m < n => <<c, m>> \in OffTopic
    PROVE  Follows
  <1>1. (Overtaken \/ FlushTorn)' = (Overtaken \/ FlushTorn) /\ ~(Overtaken \/ FlushTorn)
    BY DEF Calm, Void
  <1>2. FeedOn' = FeedOn
    OBVIOUS
  <1>3. latest[c] \in Nat
    BY LiveSets DEF LiveTypeOK
  <1> DEFINE was == [d \in Chats |-> Given(d)]
             now == [d \in Chats |-> Given(d)]'
  <1>4. now = [was EXCEPT ![c] = n] /\ was[c] = Given(c)
    BY DEF Chats
  <1>5. n \in (Given(c) + 1)..latest[c] /\ \A m \in (Given(c) + 1)..(n - 1) : <<c, m>> \in OffTopic
    <2>1. \A m \in (Given(c) + 1)..(n - 1) : m \in Nat /\ Given(c) < m /\ m < n
      OBVIOUS
    <2> QED
      BY <1>3, <2>1
  <1>6. Feed!Give(c)
    BY <1>1, <1>2, <1>4, <1>5 DEF Feed!Give
  <1> QED
    BY <1>1, <1>6 DEF Follows, Feed!Next
-----------------------------------------------------------------------------
(***************************************************************************)
(* The threads, whatever the promise is worth.                             *)
(***************************************************************************)
\* A page holds every message between the mark and its last.
LEMMA NewerIdsReach ==
    ASSUME LiveTypeOK, NEW c \in Chats, NEW mark \in Ids, latest[c] > mark
    PROVE  LET ids == NewerIds(c, mark)
           IN  /\ ids[Len(ids)] <= latest[c]
               /\ \A m \in Nat : mark < m /\ m <= ids[Len(ids)] =>
                    \E i \in DOMAIN ids : ids[i] = m
  <1> DEFINE n   == Lowest(FetchLimit, latest[c] - mark)
             ids == [k \in 1..n |-> mark + k]
  <1>1. latest[c] \in Nat /\ mark \in Nat /\ FetchLimit \in Nat \ {0}
    BY LiveAssumption, LiveSets DEF LiveTypeOK
  <1>2. n \in Nat /\ n >= 1 /\ mark + n <= latest[c]
    BY <1>1 DEF Lowest
  <1>3. NewerIds(c, mark) = ids
    BY DEF NewerIds
  <1> HIDE DEF n
  <1>4. Len(ids) = n /\ DOMAIN ids = 1..n /\ ids[n] = mark + n
    BY <1>2
  <1>5. ASSUME NEW m \in Nat, mark < m, m <= mark + n
        PROVE  \E i \in 1..n : ids[i] = m
    <2>1. m - mark \in 1..n /\ mark + (m - mark) = m
      BY <1>1, <1>2, <1>5
    <2>2. ids[m - mark] = m
      BY <2>1
    <2> QED
      BY <2>1, <2>2
  <1> HIDE DEF ids
  <1> QED
    BY <1>2, <1>3, <1>4, <1>5

\* What a step of thread g does to its place.
LEMMA PollerTurns ==
    ASSUME BackendInv, NEW g \in Gens, PollerStep(g)
    PROVE  /\ poller[g] \notin {"unborn"} \cup Over /\ poller'[g] # "unborn"
           /\ poller'[g] \in Polling => poller[g] \in Polling /\ failed'[g] = failed[g]
           /\ poller[g] \in {"check", "report", "clearFlag"} => poller'[g] \notin Live
           /\ poller[g] = "clearFlag" => poller'[g] \in Over
           /\ poller'[g] = "clearFlag" => poller[g] = "report"
           /\ \A h \in Gens : (h # g \/ failed[h]) => failed'[h] = failed[h]
           /\ UNCHANGED <<latest, baseline>>
  <1> USE DEF BackendInv, LiveTypeOK, Live, Over, Polling
  <1>1. CASE PollTop(g)
    BY <1>1 DEF PollTop
  <1>2. CASE PollNothingNew(g) \/ PollSkip(g) \/ PollDeliver(g)
    <2>1. /\ poller[g] \in {"fetch", "emit"} /\ UNCHANGED <<latest, baseline, failed>>
          /\ (UNCHANGED poller \/ NextChat(g))
      BY <1>2 DEF PollNothingNew, PollSkip, PollDeliver, HeadDone
    <2>2. poller'[g] \in {"fetch", "emit", "top"}
      BY <2>1, NextChatType
    <2> QED
      BY <2>1, <2>2
  <1>3. CASE PollFetch(g)
    BY <1>3 DEF PollFetch
  <1>4. CASE PollFault(g) \/ PollDeliverRaises(g)
    BY <1>4 DEF PollFault, PollDeliverRaises
  <1>5. CASE PollClear(g) \/ PollCheck(g)
    BY <1>5 DEF PollClear, PollCheck
  <1>6. CASE PollReported(g) \/ PollReportRaises(g) \/ \E to : PollFlagCleared(g, to)
    BY <1>6 DEF PollReported, PollReportRaises, PollFlagCleared, PollMoves
  <1> QED
    BY <1>1, <1>2, <1>3, <1>4, <1>5, <1>6 DEF PollerStep

\* When a listener starts nothing polls, and its place is free.
LEMMA StartsAlone ==
    ASSUME BackendInv, RegistryInv, MarksInv, StartThread
    PROVE  /\ liveGeneration \in Nat /\ liveGeneration + 1 \in Gens
           /\ liveGeneration' = liveGeneration + 1
           /\ poller[liveGeneration + 1] = "unborn"
           /\ \A h \in Gens : poller[h] \notin Live
           /\ poller'[liveGeneration + 1] = "top"
           /\ watches'[liveGeneration + 1] = latest /\ baseline'[liveGeneration + 1] = latest
           /\ \A h \in Gens : h # liveGeneration + 1 =>
                /\ poller'[h] = poller[h] /\ watches'[h] = watches[h]
                /\ baseline'[h] = baseline[h]
           /\ UNCHANGED <<latest, failed, turn, batch>>
  <1> DEFINE g == liveGeneration + 1
  <1>1. /\ liveGeneration \in Nat /\ g \in Gens /\ liveGeneration' = g
        /\ call = "prepare" /\ UNCHANGED <<latest, failed, turn, batch>>
        /\ watches' = [watches EXCEPT ![g] = latest]
        /\ baseline' = [baseline EXCEPT ![g] = latest]
        /\ poller' = [poller EXCEPT ![g] = "top"]
    BY LiveAssumption DEF StartThread, BackendInv, LiveTypeOK, Gens
  <1>2. \A h \in Gens : h # 0
    BY DEF Gens
  <1>3. \A h \in Gens : poller[h] \notin Live
    BY <1>1, <1>2 DEF RegistryInv
  <1>4. ~(g <= liveGeneration)
    BY <1>1
  <1>5. poller[g] = "unborn"
    BY <1>1, <1>4 DEF MarksInv
  <1> HIDE DEF g
  <1> QED
    BY <1>1, <1>3, <1>5 DEF g, BackendInv, LiveTypeOK

LEMMA ThreadStep ==
    ASSUME TypeInv, RegistryInv, OrderInv, ThreadInv, [Next]_vars
    PROVE  ThreadInv'
  <1>1. BackendInv /\ MarksInv /\ LiveTypeOK
    BY DEF TypeInv, BackendInv, OrderInv
  <1>2. ASSUME UNCHANGED <<poller, failed, watches, liveGeneration>>,
               \A c \in Chats : latest[c] <= latest'[c]
        PROVE  ThreadInv'
    <2>1. \A g \in Gens, c \in Chats : watches[g][c] <= latest'[c]
      <3> SUFFICES ASSUME NEW g \in Gens, NEW c \in Chats PROVE watches[g][c] <= latest'[c]
        OBVIOUS
      <3>1. watches[g][c] \in Nat /\ latest[c] \in Nat /\ latest'[c] \in Nat
        <4>1. watches[g][c] \in Ids /\ latest[c] \in Ids
          BY <1>1 DEF LiveTypeOK
        <4>2. latest'[c] \in Ids
          BY TypeStep DEF TypeInv, BackendInv, LiveTypeOK
        <4> QED
          BY <4>1, <4>2, LiveSets
      <3> QED
        BY <1>2, <3>1 DEF ThreadInv
    <2> QED
      BY <1>2, <2>1 DEF ThreadInv
  <1>3. ASSUME UNCHANGED <<poller, failed, watches, liveGeneration, latest>> PROVE ThreadInv'
    BY <1>3 DEF ThreadInv
  <1>4. CASE StartThread
    <2> DEFINE n == liveGeneration + 1
    <2>1. \A c \in Chats : latest[c] <= latest[c]
      <3>1. \A c \in Chats : latest[c] \in Nat
        BY <1>1, LiveSets DEF LiveTypeOK
      <3> QED
        BY <3>1
    <2>2. /\ n \in Gens /\ liveGeneration' = n /\ poller[n] = "unborn"
          /\ \A h \in Gens : poller[h] \notin Live
          /\ poller'[n] = "top" /\ watches'[n] = latest
          /\ \A h \in Gens : h # n => poller'[h] = poller[h] /\ watches'[h] = watches[h]
          /\ UNCHANGED <<latest, failed>>
      BY <1>1, <1>4, StartsAlone
    <2> HIDE DEF n
    <2>3. \A g \in Gens : poller'[g] \in Live => g = n
      BY <2>2
    <2>4. \A g \in Gens : poller'[g] \in Polling \cup {"unborn"} => ~failed'[g]
      <3>1. ASSUME NEW g \in Gens, poller'[g] \in Polling \cup {"unborn"} PROVE ~failed'[g]
        <4>1. CASE g = n
          BY <2>2, <4>1 DEF ThreadInv
        <4>2. CASE g # n
          BY <2>2, <3>1, <4>2 DEF ThreadInv
        <4> QED
          BY <4>1, <4>2
      <3> QED
        BY <3>1
    <2>5. \A g \in Gens, c \in Chats : watches'[g][c] <= latest'[c]
      BY <2>1, <2>2 DEF ThreadInv
    <2> QED
      BY <2>2, <2>3, <2>4, <2>5 DEF ThreadInv
  <1>5. CASE BackendStep /\ ~StartThread
    BY <1>3, <1>5 DEF BackendStep, StartRefused, StartPrepare, StartFails, StopNothing,
       StopSwap, StopSet, StopJoined, liveVars, threadVars
  <1>6. ASSUME NEW g \in Gens, PollerStep(g) PROVE ThreadInv'
    <2>1. /\ \A h \in Gens \ {g} : poller'[h] = poller[h]
          /\ poller'[g] \in Live => poller[g] \in Live
          /\ UNCHANGED liveGeneration
      BY <1>1, <1>6, PollerLocal
    <2>2. /\ poller'[g] # "unborn" /\ UNCHANGED latest
          /\ poller'[g] \in Polling => poller[g] \in Polling /\ failed'[g] = failed[g]
          /\ \A h \in Gens \ {g} : failed'[h] = failed[h]
      BY <1>1, <1>6, PollerTurns
    <2>3. \A h \in Gens, c \in Chats : watches'[h][c] <= latest[c]
      <3>1. CASE PollFetch(g)
        <4> DEFINE d   == turn[g]
                   ids == NewerIds(d, watches[g][d])
        <4>1. /\ d \in Chats /\ watches[g][d] \in Ids /\ latest[d] > watches[g][d]
              /\ watches' = [watches EXCEPT ![g][d] = ids[Len(ids)]]
          BY <1>1, <3>1 DEF PollFetch, LiveTypeOK
        <4>2. ids[Len(ids)] <= latest[d]
          BY <1>1, <4>1, NewerIdsReach
        <4> HIDE DEF ids
        <4>3. \A h \in Gens, c \in Chats :
                watches'[h][c] = IF h = g /\ c = d THEN ids[Len(ids)] ELSE watches[h][c]
          BY <1>1, <4>1 DEF LiveTypeOK
        <4> QED
          BY <4>2, <4>3 DEF ThreadInv
      <3>2. CASE ~PollFetch(g)
        <4>1. UNCHANGED watches
          BY <1>6, <3>2 DEF PollerStep, PollTop, PollNothingNew, PollFault, PollSkip, PollDeliver,
             HeadDone, PollDeliverRaises, PollClear, PollCheck, PollReported, PollReportRaises,
             PollFlagCleared, PollMoves
        <4> QED
          BY <4>1 DEF ThreadInv
      <3> QED
        BY <3>1, <3>2
    <2> QED
      BY <2>1, <2>2, <2>3 DEF ThreadInv
  <1>7. CASE Telegram
    <2>1. \A c \in Chats : latest[c] \in Nat
      BY <1>1, LiveSets DEF LiveTypeOK
    <2>2. /\ UNCHANGED <<poller, failed, watches, liveGeneration>>
          /\ \E c \in Chats : latest' = [latest EXCEPT ![c] = @ + 1]
      BY <1>7 DEF Telegram, NewMessage, threadVars
    <2>3. \A c \in Chats : latest[c] <= latest'[c]
      BY <1>1, <2>1, <2>2 DEF LiveTypeOK
    <2> QED
      BY <1>2, <2>2, <2>3
  <1>8. CASE UNCHANGED liveVars
    BY <1>3, <1>8 DEF liveVars, threadVars
  <1> QED
    BY <1>4, <1>5, <1>6, <1>7, <1>8, StepKinds DEF vars

LEMMA ThreadInit == Init => ThreadInv
  <1>1. \A c \in Chats : NoMarks[c] = 0
    BY DEF NoMarks
  <1> QED
    BY <1>1 DEF Init, LiveInit, ThreadInv, Live, Polling, NoMarks

\* The output only grows, and so does what it accepts.
LEMMA OutGrows ==
    ASSUME TypeInv, KeptLive, [Next]_vars
    PROVE  out' = out \/ \E r \in Records : out' = Append(out, r)
  <1>1. ServerTypeOK /\ ExcKnown /\ LiveTypeOK
    BY DEF TypeInv, BackendInv
  <1>2. CASE PlainStep
    BY <1>2 DEF PlainStep, Plain, Write
  <1>3. CASE ListenFlush
    BY <1>3 DEF ListenFlush
  <1>4. CASE FlushRecord \/ \E g \in Gens : LiveThread(g)
    BY <1>1, <1>4, FlushWrites, ThreadWrites DEF LiveWrite
  <1>5. CASE Telegram \/ UNCHANGED vars
    BY <1>5 DEF Telegram, vars, serverVars
  <1> QED
    BY <1>1, <1>2, <1>3, <1>4, <1>5, StepKinds, ReadsPlain, HandlesPlain, CallsPlain

LEMMA PlacesStay ==
    ASSUME TypeInv, KeptLive, [Next]_vars
    PROVE  /\ \A k \in Places : k \in Places' /\ out'[k] = out[k]
           /\ \A id : AcceptsRequest(id) => AcceptsRequest(id)'
  <1>1. \A k \in Places : k \in Places' /\ out'[k] = out[k]
    <2>1. CASE out' = out
      BY <2>1 DEF Places
    <2>2. CASE \E r \in Records : out' = Append(out, r)
      BY <2>2, Grows DEF TypeInv
    <2> QED
      BY <2>1, <2>2, OutGrows
  <1> QED
    BY <1>1 DEF AcceptsRequest

\* Where the promise is void it stays so.
LEMMA VoidStays ==
    ASSUME TypeInv, RegistryInv, OrderInv, KeptLive, Void, [Next]_vars
    PROVE  Void'
  <1>1. BackendInv /\ MarksInv /\ ServerTypeOK
    BY DEF TypeInv, OrderInv
  <1>2. ASSUME NEW g \in Gens, poller[g] = "late" PROVE Void'
    <2>1. CASE StartThread
      BY <1>1, <1>2, <2>1, StartsAlone DEF Void, Overtaken
    <2>2. CASE BackendStep /\ ~StartThread
      <3>1. UNCHANGED poller
        BY <2>2 DEF BackendStep, StartRefused, StartPrepare, StartFails, StopNothing,
           StopSwap, StopSet, StopJoined, liveVars, threadVars
      <3> QED
        BY <1>2, <3>1 DEF Void, Overtaken
    <2>3. ASSUME NEW h \in Gens, PollerStep(h) PROVE Void'
      <3>1. h # g
        BY <1>1, <1>2, <2>3, PollerTurns DEF Over
      <3>2. poller'[g] = poller[g]
        BY <1>1, <2>3, <3>1, PollerLocal
      <3> QED
        BY <1>2, <3>2 DEF Void, Overtaken
    <2>4. CASE Telegram \/ UNCHANGED liveVars
      BY <1>2, <2>4 DEF Telegram, NewMessage, liveVars, threadVars, Void, Overtaken
    <2> QED
      BY <2>1, <2>2, <2>3, <2>4, StepKinds DEF vars
  <1>3. ASSUME NEW k \in Places, NEW id, id = out[k].id, out[k].what = "error", AcceptsRequest(id)
        PROVE  Void'
    <2>1. k \in Places' /\ out'[k] = out[k] /\ AcceptsRequest(id)'
      BY <1>3, PlacesStay
    <2>2. k \in Places' /\ out'[k].what = "error" /\ AcceptsRequest(out[k].id)'
      BY <1>3, <2>1 DEF AcceptsRequest
    <2> QED
      BY <2>2 DEF Void, FlushTorn
  <1>4. CASE main = "fallback" /\ AcceptsRequest(requestId)
    <2>1. CASE UNCHANGED <<main, requestId>>
      <3>1. AcceptsRequest(requestId)'
        BY <1>4, <2>1, PlacesStay DEF AcceptsRequest
      <3> QED
        BY <1>4, <2>1, <3>1 DEF Void, FlushTorn
    <2>2. CASE Fallback
      <3>1. Error("error") \in Records /\ Error("error").what = "error"
            /\ Error("error").id = requestId /\ out' = Append(out, Error("error"))
        BY <1>1, <2>2, ServerRecords, Labels DEF Fallback, Answer, Write, Whats
      <3>2. \E k \in Places' : out'[k].what = "error" /\ out'[k].id = requestId
        <4>1. Len(out) + 1 \in Places' /\ out'[Len(out) + 1] = Error("error")
          BY <1>1, <3>1, Grows
        <4> QED
          BY <3>1, <4>1
      <3>3. \A id : AcceptsRequest(id) => AcceptsRequest(id)'
        BY PlacesStay
      <3> QED
        BY <1>4, <3>2, <3>3 DEF Void, FlushTorn, AcceptsRequest
    <2>3. ~(HandlesRequest /\ ~Fallback)
      BY <1>4 DEF HandlesRequest, AnswerHello, AnswerQuery, AnswerUnknown, AnswerShutdown,
         ExportInvalid, ExportStart, ExportMessage, ExportTruncate, ExportEnd, ExportFails,
         ListenInvalid, ListenRefused, ListenArm, ListenFailed, ListenFlag, ListenReply,
         ListenFlush, FlushRecord, FlushRaises, FlushDone, StopCheck, StopReply, LoopEnds
    <2>4. ~Reads /\ ~CallStartRefused /\ ~CallStartFails /\ ~CallStartReturns /\ ~CallStopReturns
      BY <1>4 DEF Reads, ReadRequest, ReadZeroId, ReadGarbage, ReadEof, LoopTop,
         CallStartRefused, CallStartFails, CallStartReturns, CallStopReturns, ListenAborted,
         ListenStarted, StopReturned, CloseReturned
    <2>5. CASE \E g \in Gens : LiveThread(g)
      <3>1. UNCHANGED <<main, requestId>>
        BY <1>1, <2>5, ThreadWrites DEF LiveWrite, mainVars
      <3> QED
        BY <2>1, <3>1
    <2>6. CASE CallStart \/ CallStop \/ CallStopSignals \/ Telegram \/ UNCHANGED vars
      BY <2>1, <2>6 DEF CallStart, CallStop, CallStopSignals, Telegram, vars, serverVars
    <2> QED
      BY <2>2, <2>3, <2>4, <2>5, <2>6, StepKinds DEF CallsBackend
  <1> QED
    BY <1>2, <1>3, <1>4 DEF Void, Overtaken, FlushTorn

LEMMA AnswerStep ==
    ASSUME TypeInv, KeptLive, AnswerInv, [Next]_vars
    PROVE  AnswerInv'
  <1>1. ServerTypeOK /\ LiveTypeOK /\ BackendInv
    BY DEF TypeInv, BackendInv
  <1> DEFINE In(m) == m \in {"listen.flag", "listen.reply", "listen.flush", "listen.flushing"}
  <1>2. ASSUME UNCHANGED <<requestId, liveGeneration>>,
               \/ main' = main
               \/ main = "listen.flag" /\ main' = "listen.reply"
               \/ main = "listen.flush" /\ main' = "listen.flushing"
        PROVE  AnswerInv'
    <2>1. CASE main \in {"listen.flush", "listen.flushing"}
      <3>1. AcceptsRequest(requestId)'
        <4>1. \A id : AcceptsRequest(id) => AcceptsRequest(id)'
          BY PlacesStay
        <4> QED
          BY <1>2, <2>1, <4>1 DEF AnswerInv, AcceptsRequest
      <3> QED
        BY <1>2, <2>1, <3>1 DEF AnswerInv, Answering
    <2>2. CASE main \notin {"listen.flush", "listen.flushing"}
      BY <1>2, <2>2 DEF AnswerInv, Answering
    <2> QED
      BY <2>1, <2>2
  <1>3. CASE ~In(main')
    BY <1>3 DEF AnswerInv, Answering
  <1>4. CASE ListenReply(liveGeneration)
    <2>1. CASE Write(Accepted(liveGeneration)) /\ UNCHANGED requestId
      <3>1. liveGeneration \in Nat /\ main' \notin {"listen.flag", "listen.reply"}
        BY <1>1, <1>4, LiveAssumption DEF LiveTypeOK, ListenReply, Goto, TooLong
      <3>2. /\ Accepted(liveGeneration) \in Records
            /\ Accepted(liveGeneration).what = "accepted" /\ Accepted(liveGeneration).id = requestId
            /\ out' = Append(out, Accepted(liveGeneration))
        BY <1>1, <2>1, <3>1, ServerRecords, Labels DEF Write
      <3>3. Len(out) + 1 \in Places' /\ out'[Len(out) + 1] = Accepted(liveGeneration)
        BY <1>1, <3>2, Grows
      <3>4. AcceptsRequest(requestId)'
        BY <2>1, <3>2, <3>3 DEF AcceptsRequest
      <3> QED
        BY <3>1, <3>4 DEF AnswerInv, Answering
    <2>2. CASE TooLong
      BY <1>3, <2>2 DEF TooLong, Goto
    <2> QED
      BY <1>4, <2>1, <2>2 DEF ListenReply
  <1>5. CASE (Reads \/ HandlesRequest) /\ UNCHANGED liveVars /\ ~ListenReply(liveGeneration)
    <2> USE DEF Goto, Return, Requests
    <2>1. CASE ListenFlag \/ ListenFlush \/ FlushRecord \/ FlushRaises \/ FlushDone
      <3>1. UNCHANGED liveGeneration
        BY <1>5 DEF liveVars
      <3> QED
        BY <1>2, <1>3, <2>1, <3>1 DEF ListenFlag, ListenFlush, FlushRecord, FlushRaises,
           FlushDone, local
    <2>2. CASE Reads
      BY <1>3, <2>2 DEF Reads, ReadRequest, ReadZeroId, ReadGarbage, ReadEof, LoopTop
    <2>3. CASE HandlesRequest /\ ~(ListenFlag \/ ListenFlush \/ FlushRecord \/ FlushRaises \/ FlushDone)
      <3>1. ~In(main')
        BY <1>5, <2>3 DEF HandlesRequest, AnswerHello, AnswerQuery, AnswerUnknown, AnswerShutdown,
           ExportInvalid, ExportStart, ExportMessage, ExportTruncate, ExportEnd, ExportFails,
           ListenInvalid, ListenRefused, ListenArm, ListenFailed,
           StopCheck, StopReply, LoopEnds, Fallback, Answer, AnswerBackendError, AnswerCrash, TooLong
      <3> QED
        BY <1>3, <3>1
    <2> QED
      BY <1>5, <2>1, <2>2, <2>3
  <1>6. CASE CallStartReturns
    <2>1. liveGeneration \in Nat /\ liveGeneration' = liveGeneration + 1 /\ main' = "listen.flag"
      BY <1>1, <1>6, LiveAssumption DEF CallStartReturns, StartThread, ListenStarted, Goto, LiveTypeOK
    <2> QED
      BY <2>1 DEF AnswerInv, Answering
  <1>7. CASE CallStartRefused \/ CallStartFails \/ CallStopReturns
    <2>1. ~In(main')
      BY <1>7 DEF CallStartRefused, CallStartFails, CallStopReturns,
         ListenAborted, StopReturned, CloseReturned, Goto
    <2> QED
      BY <1>3, <2>1
  <1>8. ASSUME NEW g \in Gens, LiveThread(g), PollerStep(g) PROVE AnswerInv'
    <2>1. UNCHANGED <<main, requestId>>
      BY <1>1, <1>8, ThreadWrites DEF LiveWrite, mainVars
    <2>2. UNCHANGED liveGeneration
      BY <1>1, <1>8, PollerLocal
    <2> QED
      BY <1>2, <2>1, <2>2
  <1>9. CASE CallStart \/ CallStop \/ CallStopSignals
    BY <1>2, <1>9 DEF CallStart, CallStop, CallStopSignals, serverVars,
       StartPrepare, StopSwap, StopSet
  <1>10. CASE Telegram \/ UNCHANGED vars
    BY <1>2, <1>10 DEF Telegram, NewMessage, vars, serverVars, liveVars
  <1> QED
    BY <1>4, <1>5, <1>6, <1>7, <1>8, <1>9, <1>10, StepKinds DEF CallsBackend
-----------------------------------------------------------------------------
(***************************************************************************)
(* Steps of the main thread, while the promise stands.                     *)
(***************************************************************************)
Base ==
    /\ TypeInv /\ RegistryInv /\ FeedInv /\ NoStrandedRecords /\ OrderInv /\ KeptLive
    /\ ThreadInv /\ AnswerInv

HostInv == FlagInv /\ TidyInv /\ WireInv /\ CoverInv

\* What the four invariants read of the threads and of the lists.
threadMarks == <<liveGeneration, poller, failed, watches, batch, turn, baseline>>
lists       == <<eventsReady, pending, flush>>

FeedStates == {"listen.start", "listen.flag", "listen.reply", "listen.flush", "stop.reply"}

Dull(r) == r \in Records /\ r.what \notin {"accepted", "stopped", "liveError", "message"}

QuietStep ==
    /\ UNCHANGED <<threadMarks, listenActive, lists>>
    /\ UNCHANGED out \/ \E r : Dull(r) /\ Write(r)
    /\ UNCHANGED main \/ (main \notin FeedStates /\ main' \notin FeedStates)

\* The parts that read only the feed, the lists and the threads.
LEMMA SameLists ==
    ASSUME UNCHANGED <<liveGeneration, pending, flush>>
    PROVE  (ReportKept' <=> ReportKept) /\ (Tidy(pending)' <=> Tidy(pending))
           /\ (Tidy(flush)' <=> Tidy(flush))
  BY DEF ReportKept, ReportIn, IsReport, Tidy

LEMMA SameCover ==
    ASSUME UNCHANGED threadMarks, UNCHANGED <<pending, flush>>, SameFeed, CoverInv,
           FeedOn' \/ main' \in {"listen.flag", "listen.reply"} =>
             FeedOn \/ main \in {"listen.flag", "listen.reply"}
    PROVE  CoverInv'
  <1>1. \A g \in Gens, c \in Chats, n \in Ids : Covered(g, c, n) => Covered(g, c, n)'
    BY DEF Covered, SameFeed, threadMarks, Holds, Before, MessageOf
  <1> QED
    BY <1>1 DEF CoverInv, SameFeed, threadMarks

LEMMA QuietHost ==
    ASSUME ServerTypeOK, ServerTypeOK', HostInv, QuietStep
    PROVE  HostInv' /\ SameFeed
  <1>1. WireInv' /\ SameFeed
    <2>1. \A r : Dull(r) => NoTurn(r) /\ r.what # "message"
      BY DEF Dull, NoTurn
    <2> QED
      BY <2>1, WireStill DEF HostInv, QuietStep, Write, threadMarks, SameFeed
  <1>2. /\ UNCHANGED <<threadMarks, liveGeneration, poller, listenActive, eventsReady, pending, flush>>
        /\ \A s \in FeedStates : main' = s <=> main = s
    BY DEF QuietStep, threadMarks, lists
  <1>3. (ReportKept' <=> ReportKept) /\ (FeedOn' <=> FeedOn)
    BY <1>1, <1>2, SameLists DEF SameFeed
  <1>4. FlagInv'
    BY <1>2, <1>3 DEF HostInv, FlagInv, FeedStates
  <1>5. TidyInv'
    BY <1>2, <1>3, SameLists DEF HostInv, TidyInv, FeedStates
  <1>6. CoverInv'
    BY <1>1, <1>2, <1>3, SameCover DEF HostInv, FeedStates
  <1> QED
    BY <1>1, <1>4, <1>5, <1>6 DEF HostInv

\* Which steps are quiet.
LEMMA Dulls ==
    ASSUME ServerTypeOK
    PROVE  /\ \A what \in Whats \ {"accepted", "stopped", "liveError", "message"} :
                 /\ Dull(Response(what)) /\ Dull(Exported(what))
                 /\ Dull(Error(what)) /\ Dull(ExportEvent(what))
           /\ Dull(SessionError)
           /\ Dull(Record("error", 0, "zeroId", 0, 0, requestId + 1))
  BY ServerRecords, Labels DEF Dull, SessionError, Record

LEMMA ReadsQuiet ==
    ASSUME ServerTypeOK, Reads, UNCHANGED liveVars
    PROVE  QuietStep
  <1> USE DEF QuietStep, local, flags, LoopTop, Goto, Return, liveVars, threadVars, threadMarks,
      lists, FeedStates, Requests
  <1>1. ASSUME NEW op \in Operations, ReadRequest(op) PROVE QuietStep
    BY <1>1 DEF ReadRequest
  <1>2. CASE ReadZeroId \/ ReadGarbage \/ ReadEof
    BY <1>2, Dulls DEF ReadZeroId, ReadGarbage, ReadEof
  <1> QED
    BY <1>1, <1>2 DEF Reads

\* The handlers that leave the feed, the flag and the lists alone.
QuietHandler ==
    \/ AnswerHello \/ AnswerQuery \/ AnswerUnknown \/ AnswerShutdown
    \/ ExportInvalid \/ ExportStart \/ ExportMessage \/ ExportTruncate
    \/ ExportEnd \/ ExportFails
    \/ ListenInvalid \/ ListenRefused \/ ListenFailed
    \/ FlushDone \/ Fallback \/ LoopEnds
    \/ StopCheck /\ listenActive

LEMMA HandlesQuiet ==
    ASSUME ~LongTexts, ServerTypeOK, ExcKnown, KeptInv, QuietHandler, UNCHANGED liveVars
    PROVE  QuietStep
  <1> USE DEF QuietStep, Goto, Return, local, flags, lists, FeedStates
  <1> DEFINE Away == main \notin FeedStates \cup {"listen.flushing"}
  <1>1. UNCHANGED threadMarks /\ (main # "listen.flushing" => flush = <<>>)
    BY DEF KeptInv, liveVars, threadVars, threadMarks
  <1>2. ASSUME NEW r, Dull(r), Answer(r), Away PROVE QuietStep
    BY <1>1, <1>2 DEF Answer
  <1>3. ASSUME NEW kind \in {"error", "fatal", "refused"}, AnswerBackendError(kind), Away
        PROVE  QuietStep
    BY <1>1, <1>3, Dulls DEF AnswerBackendError, Whats
  <1>4. ~TooLong
    BY DEF TooLong
  <1>5. CASE AnswerHello \/ Fallback \/ ExportInvalid \/ ListenInvalid
               \/ ListenRefused \/ ExportTruncate \/ ExportEnd
    BY <1>2, <1>5, Dulls DEF AnswerHello, Fallback, ExportInvalid,
       ListenInvalid, ListenRefused, ExportTruncate, ExportEnd, Whats
  <1>6. CASE AnswerQuery
    BY <1>2, <1>3, <1>4, <1>6, Dulls DEF AnswerQuery, Whats
  <1>7. CASE AnswerUnknown
    BY <1>2, <1>7, Dulls DEF AnswerUnknown, Whats
  <1>8. CASE AnswerShutdown \/ ExportStart \/ ExportMessage
    BY <1>1, <1>8, Dulls DEF AnswerShutdown, ExportStart, ExportMessage, Whats
  <1>9. CASE ExportFails
    <2>1. CASE AnswerCrash
      BY <1>1, <1>9, <2>1, Dulls DEF AnswerCrash, ExportFails, Whats
    <2> QED
      BY <1>3, <1>4, <1>9, <2>1 DEF ExportFails
  <1>10. CASE ListenFailed
    <2>1. exc \in {"error", "fatal", "refused"} /\ Away
      BY <1>10 DEF ListenFailed, ExcKnown, ServerTypeOK
    <2> QED
      BY <1>3, <1>4, <1>10, <2>1 DEF ListenFailed
  <1>11. CASE FlushDone \/ LoopEnds \/ (StopCheck /\ listenActive)
    BY <1>1, <1>11 DEF FlushDone, LoopEnds, StopCheck
  <1> QED
    BY <1>5, <1>6, <1>7, <1>8, <1>9, <1>10, <1>11 DEF QuietHandler

LEMMA CallsQuiet ==
    ASSUME \/ CallStart \/ CallStop \/ CallStopSignals
           \/ CallStopReturns /\ CloseReturned
    PROVE  QuietStep
  <1> USE DEF QuietStep, Goto, local, flags, serverVars, liveVars, threadVars, threadMarks,
      lists, FeedStates
  <1>1. CASE CallStart \/ CallStop \/ CallStopSignals
    BY <1>1 DEF CallStart, CallStop, CallStopSignals, StartPrepare, StopSwap, StopSet
  <1>2. CASE CallStopReturns /\ CloseReturned
    BY <1>2 DEF CallStopReturns, CloseReturned, StopNothing, StopJoined
  <1> QED
    BY <1>1, <1>2

\* What each step below may assume.
LEMMA BaseGives ==
    ASSUME Base
    PROVE  /\ ServerTypeOK /\ LiveTypeOK /\ BackendInv /\ ExcKnown
           /\ MarksInv /\ BatchOrder /\ KeptInv /\ PassedAll(out)
           /\ main \in {"listen.start", "listen.flag", "listen.reply", "listen.flush"} =>
                ~eventsReady
           /\ main # "listen.flushing" => flush = <<>>
           /\ liveGeneration \in Nat
  BY LiveAssumption DEF Base, TypeInv, BackendInv, LiveTypeOK, FeedInv, AcceptInv, OrderInv, KeptInv

LEMMA NothingIn ==
    ASSUME NEW s, s = <<>>
    PROVE  /\ ~ReportIn(s) /\ Tidy(s)
           /\ \A c, n : ~Holds(s, c, n) /\ Before(s, c, n)
           /\ \A k \in DOMAIN s : FALSE
  <1>1. DOMAIN <<>> = {}
    BY EmptySeq, LenProperties
  <1> QED
    BY <1>1 DEF ReportIn, Tidy, Holds, Before

LEMMA StopUnneeded ==
    ASSUME Base, Base', HostInv, Calm, StopCheck, ~listenActive, UNCHANGED liveVars
    PROVE  HostInv' /\ Follows
  <1>1. /\ main = "messages.stop" /\ main' = "stop.reply"
        /\ UNCHANGED <<threadMarks, listenActive, lists, out, latest>>
        /\ UNCHANGED <<liveGeneration, poller, eventsReady, pending, flush>>
    BY DEF StopCheck, Goto, local, flags, liveVars, threadVars, threadMarks, lists
  <1>2. WireInv' /\ SameFeed
    BY <1>1, WireStill, BaseGives DEF HostInv, threadMarks, SameFeed, Base, TypeInv
  <1>3. FlagInv'
    BY <1>1, <1>2, SameLists DEF HostInv, FlagInv, SameFeed
  <1>4. TidyInv'
    BY <1>1, <1>2, SameLists DEF HostInv, TidyInv, SameFeed
  <1>5. CoverInv'
    BY <1>1, <1>2, SameCover DEF HostInv, SameFeed
  <1> QED
    BY <1>1, <1>2, <1>3, <1>4, <1>5, FeedRests DEF HostInv

LEMMA StopAnswered ==
    ASSUME Base, Base', HostInv, Calm, StopReply, UNCHANGED liveVars
    PROVE  HostInv' /\ Follows
  <1> DEFINE r == Response("stopped")
  <1>1. ServerTypeOK /\ ServerTypeOK' /\ flush = <<>>
    BY BaseGives DEF StopReply, Base, TypeInv
  <1>2. /\ main = "stop.reply" /\ main' = "read" /\ flush' = flush
        /\ UNCHANGED <<threadMarks, listenActive, eventsReady, pending, latest>>
        /\ UNCHANGED <<liveGeneration, baseline, poller>>
        /\ out' = Append(out, r) /\ r \in Records /\ r.what = "stopped"
    BY <1>1, ServerRecords, Labels DEF StopReply, Answer, Write, Goto, flags, liveVars,
       threadVars, threadMarks, Whats
  <1> HIDE DEF r
  <1>3. WireInv' /\ ~FeedOn' /\ \A c \in Chats : Given(c)' = 0
    BY <1>1, <1>2, WireTurns DEF HostInv
  <1>4. ~listenActive /\ \A g \in Gens : poller[g] \notin Live
    BY <1>2 DEF HostInv, FlagInv
  <1>5. FlagInv'
    BY <1>2, <1>3, <1>4, SameLists DEF HostInv, FlagInv, Live
  <1>6. TidyInv'
    BY <1>1, <1>2, SameLists, NothingIn DEF HostInv, TidyInv
  <1>7. CoverInv'
    BY <1>2, <1>3 DEF CoverInv
  <1>8. Follows
    <2>1. CASE FeedOn
      BY <1>2, <1>3, <2>1, FeedStops
    <2>2. CASE ~FeedOn
      BY <1>1, <1>2, <1>3, <2>2, OffGiven, FeedRests DEF HostInv, SameFeed
    <2> QED
      BY <2>1, <2>2
  <1> QED
    BY <1>3, <1>5, <1>6, <1>7, <1>8 DEF HostInv

LEMMA ListenArms ==
    ASSUME Base, Base', HostInv, Calm, ListenArm, UNCHANGED liveVars
    PROVE  HostInv' /\ Follows
  <1>1. /\ main = "messages.listen" /\ main' = "listen.start" /\ ~listenActive /\ ~eventsReady'
        /\ UNCHANGED <<threadMarks, listenActive, pending, flush, out, latest>>
        /\ UNCHANGED <<liveGeneration, baseline, poller>>
    BY DEF ListenArm, Goto, local, liveVars, threadVars, threadMarks
  <1>2. WireInv' /\ SameFeed
    BY <1>1, WireStill, BaseGives DEF HostInv, SameFeed, Base, TypeInv
  <1>3. pending = <<>> /\ flush = <<>> /\ ~ReportKept
    <2>1. pending = <<>> /\ flush = <<>>
      BY <1>1, BaseGives DEF Base, NoStrandedRecords
    <2> QED
      BY <2>1, NothingIn DEF ReportKept
  <1>4. ~FeedOn
    BY <1>1, <1>3 DEF HostInv, FlagInv
  <1>5. FlagInv'
    BY <1>1, <1>2, <1>3, <1>4, SameLists DEF HostInv, FlagInv, SameFeed
  <1>6. TidyInv'
    BY <1>1, <1>3, SameLists, NothingIn DEF HostInv, TidyInv
  <1>7. CoverInv'
    BY <1>1, <1>2, <1>4 DEF CoverInv, SameFeed
  <1> QED
    BY <1>1, <1>2, <1>5, <1>6, <1>7, FeedRests DEF HostInv

LEMMA ListenFlags ==
    ASSUME Base, Base', HostInv, Calm, ListenFlag, UNCHANGED liveVars
    PROVE  HostInv' /\ Follows
  <1>1. /\ main = "listen.flag" /\ main' = "listen.reply" /\ listenActive' = TRUE
        /\ UNCHANGED <<threadMarks, lists, out, latest>>
        /\ UNCHANGED <<liveGeneration, baseline, poller, eventsReady, pending, flush>>
    BY DEF ListenFlag, Goto, local, liveVars, threadVars, threadMarks, lists
  <1>2. WireInv' /\ SameFeed
    BY <1>1, WireStill, BaseGives DEF HostInv, SameFeed, Base, TypeInv
  <1>3. FlagInv'
    BY <1>1, <1>2, SameLists DEF HostInv, FlagInv, SameFeed
  <1>4. TidyInv'
    BY <1>1, <1>2, SameLists DEF HostInv, TidyInv, SameFeed
  <1>5. CoverInv'
    BY <1>1, <1>2, SameCover DEF HostInv, SameFeed
  <1> QED
    BY <1>1, <1>2, <1>3, <1>4, <1>5, FeedRests DEF HostInv

LEMMA ListenAnswers ==
    ASSUME ~LongTexts, Base, Base', HostInv, Calm, ListenReply(liveGeneration),
           UNCHANGED liveVars
    PROVE  HostInv' /\ Follows
  <1> DEFINE r == Accepted(liveGeneration)
  <1>1. /\ ServerTypeOK /\ ServerTypeOK' /\ flush = <<>> /\ ~eventsReady
        /\ liveGeneration \in Gens /\ LiveTypeOK /\ MarksInv
    <2>1. main = "listen.reply" /\ liveGeneration # 0
      BY DEF ListenReply, Base, AnswerInv, Answering
    <2>2. liveGeneration \in Gens
      BY <2>1, BaseGives, LiveAssumption DEF LiveTypeOK, Gens
    <2> QED
      BY <2>1, <2>2, BaseGives DEF Base, TypeInv
  <1>2. /\ main = "listen.reply" /\ main' = "listen.flush"
        /\ UNCHANGED <<threadMarks, listenActive, lists, latest>>
        /\ UNCHANGED <<liveGeneration, baseline, poller, eventsReady, pending, flush>>
        /\ UNCHANGED <<watches, failed, batch, turn>>
        /\ out' = Append(out, r) /\ r \in Records /\ r.what = "accepted"
        /\ r.gen = liveGeneration
    <2>1. r \in Records /\ r.what = "accepted" /\ r.gen = liveGeneration
      BY <1>1, ServerRecords, LiveSets DEF Accepted, Record
    <2> QED
      BY <2>1 DEF ListenReply, TooLong, Write, Goto, local, flags, liveVars, threadVars,
         threadMarks, lists
  <1> HIDE DEF r
  <1>3. WireInv' /\ FeedOn' /\ \A c \in Chats : Given(c)' = baseline[liveGeneration][c]
    BY <1>1, <1>2, WireTurns DEF HostInv
  <1>4. ~FeedOn
    BY <1>2 DEF HostInv, FlagInv
  <1>5. FlagInv'
    BY <1>1, <1>2, <1>3, SameLists DEF HostInv, FlagInv
  <1>6. TidyInv'
    BY <1>2, <1>3, SameLists DEF HostInv, TidyInv
  <1>7. CoverInv'
    <2>1. \A g \in Gens, c \in Chats, n \in Ids : Covered(g, c, n) => Covered(g, c, n)'
      BY <1>2, <1>4 DEF Covered, Holds, Before, MessageOf
    <2> QED
      BY <1>2, <2>1 DEF HostInv, CoverInv
  <1>8. Follows
    <2>1. latest' = latest
      BY <1>2
    <2> QED
      BY <1>1, <1>3, <1>4, <2>1, FeedAccepts DEF Base
  <1> QED
    BY <1>3, <1>5, <1>6, <1>7, <1>8 DEF HostInv

LEMMA ListenFlushes ==
    ASSUME Base, Base', HostInv, Calm, ListenFlush, UNCHANGED liveVars
    PROVE  HostInv' /\ Follows
  <1>1. /\ main = "listen.flush" /\ main' = "listen.flushing" /\ flush' = pending
        /\ pending' = <<>> /\ flush = <<>>
        /\ UNCHANGED <<threadMarks, listenActive, out, latest>>
        /\ UNCHANGED <<liveGeneration, baseline, poller, watches, failed, batch, turn>>
    BY BaseGives DEF ListenFlush, Goto, liveVars, threadVars, threadMarks
  <1>2. WireInv' /\ SameFeed
    BY <1>1, WireStill, BaseGives DEF HostInv, SameFeed, Base, TypeInv
  <1>3. FeedOn
    BY <1>1 DEF HostInv, FlagInv
  <1>4. /\ ReportKept' <=> ReportKept
        /\ Tidy(pending)' /\ (Tidy(flush)' <=> Tidy(pending))
    <2>1. Tidy(pending)'
      <3>1. Tidy(pending') /\ UNCHANGED liveGeneration
        BY <1>1, NothingIn
      <3> QED
        BY <3>1 DEF Tidy, IsReport
    <2>2. ReportKept' <=> ReportKept
      BY <1>1, NothingIn DEF ReportKept, ReportIn, IsReport
    <2>3. Tidy(flush)' <=> Tidy(pending)
      BY <1>1 DEF Tidy, IsReport
    <2> QED
      BY <2>1, <2>2, <2>3
  <1>5. FlagInv'
    BY <1>1, <1>2, <1>3, <1>4 DEF HostInv, FlagInv, SameFeed
  <1>6. TidyInv'
    BY <1>1, <1>2, <1>3, <1>4 DEF HostInv, TidyInv, SameFeed
  <1>7. CoverInv'
    <2>1. \A g \in Gens, c \in Chats, n \in Ids : Covered(g, c, n) => Covered(g, c, n)'
      <3> SUFFICES ASSUME NEW g \in Gens, NEW c \in Chats, NEW n \in Ids, Covered(g, c, n)
                   PROVE  Covered(g, c, n)'
        OBVIOUS
      <3>1. /\ Holds(pending, c, n) => Holds(flush', c, n)
            /\ Before(pending, c, n) => Before(flush', c, n)
            /\ ~Holds(flush, c, n) /\ Before(pending', c, n)
        BY <1>1, NothingIn
      <3>2. Holds(flush', c, n) <=> Holds(flush, c, n)'
        BY DEF Holds, MessageOf
      <3>3. /\ Before(flush', c, n) <=> Before(flush, c, n)'
            /\ Before(pending', c, n) <=> Before(pending, c, n)'
        BY DEF Before, MessageOf
      <3>4. FeedOn /\ n <= Given(c) => FeedOn' /\ n <= Given(c)'
        BY <1>2 DEF SameFeed
      <3> QED
        BY <1>1, <3>1, <3>2, <3>3, <3>4 DEF Covered
    <2> QED
      BY <1>1, <1>3, <2>1 DEF HostInv, CoverInv
  <1> QED
    BY <1>1, <1>2, <1>5, <1>6, <1>7, FeedRests DEF HostInv

\* A flush that is torn voids the promise.
LEMMA FlushTears ==
    ASSUME Base, FlushRaises, ~Void'
    PROVE  FALSE
  <1>1. /\ main = "listen.flushing" /\ main' = "fallback" /\ UNCHANGED <<requestId, out>>
    BY DEF FlushRaises, Goto
  <1>2. AcceptsRequest(requestId)
    BY <1>1 DEF Base, AnswerInv
  <1>3. AcceptsRequest(requestId)'
    BY <1>1, <1>2 DEF AcceptsRequest, Places
  <1> QED
    BY <1>1, <1>3 DEF Void, FlushTorn

LEMMA ListenAborts ==
    ASSUME Base, Base', HostInv, Calm, CallStartRefused \/ CallStartFails
    PROVE  HostInv' /\ Follows
  <1>1. /\ main = "listen.start" /\ main' = "listen.failed" /\ eventsReady' = TRUE
        /\ pending' = <<>>
        /\ UNCHANGED <<threadMarks, listenActive, flush, out, latest>>
        /\ UNCHANGED <<liveGeneration, baseline, poller>>
    BY DEF CallStartRefused, CallStartFails, StartRefused, StartFails, ListenAborted, Goto,
       liveVars, threadVars, threadMarks
  <1>2. WireInv' /\ SameFeed
    BY <1>1, WireStill, BaseGives DEF HostInv, SameFeed, Base, TypeInv
  <1>3. ~FeedOn /\ ~listenActive /\ \A g \in Gens : poller[g] \notin Live
    BY <1>1 DEF HostInv, FlagInv
  <1>4. (ReportKept' => ReportKept) /\ Tidy(pending)' /\ (Tidy(flush)' <=> Tidy(flush))
    <2>1. Tidy(pending') /\ ~ReportIn(pending')
      BY <1>1, NothingIn
    <2> QED
      BY <1>1, <2>1 DEF ReportKept, ReportIn, Tidy, IsReport
  <1>5. FlagInv'
    BY <1>1, <1>2, <1>3, <1>4 DEF HostInv, FlagInv, SameFeed, Live
  <1>6. TidyInv'
    BY <1>1, <1>2, <1>4 DEF HostInv, TidyInv, SameFeed
  <1>7. CoverInv'
    BY <1>1, <1>2, <1>3 DEF CoverInv, SameFeed
  <1> QED
    BY <1>1, <1>2, <1>5, <1>6, <1>7, FeedRests DEF HostInv

LEMMA ListenStarts ==
    ASSUME Base, Base', HostInv, Calm, CallStartReturns
    PROVE  HostInv' /\ Follows
  <1> DEFINE new == liveGeneration + 1
  <1>1. /\ main = "listen.start" /\ main' = "listen.flag" /\ UNCHANGED <<lists, out, listenActive>>
        /\ UNCHANGED <<eventsReady, pending, flush>>
        /\ ~eventsReady /\ flush = <<>> /\ StartThread
    BY BaseGives DEF CallStartReturns, ListenStarted, Goto, local, flags, lists
  <1>2. /\ liveGeneration \in Nat /\ new \in Gens /\ liveGeneration' = new
        /\ \A h \in Gens : poller[h] \notin Live
        /\ poller'[new] = "top" /\ watches'[new] = latest /\ baseline'[new] = latest
        /\ \A h \in Gens : h # new => poller'[h] = poller[h]
        /\ UNCHANGED latest
    BY <1>1, StartsAlone, BaseGives DEF Base
  <1>3. \A g \in Gens : g <= liveGeneration => g <= liveGeneration' /\ g # new
    BY <1>2, LiveSets
  <1> HIDE DEF new
  <1>4. ~FeedOn /\ ~listenActive
    BY <1>1 DEF HostInv, FlagInv
  <1>5. WireInv' /\ ~FeedOn' /\ \A c \in Chats : Given(c)' = 0
    BY <1>1, <1>3, <1>4, WireFresh, BaseGives DEF HostInv, Base, TypeInv
  <1>6. SameFeed
    BY <1>4, <1>5, OffGiven, BaseGives DEF HostInv, SameFeed
  <1>7. \A k \in DOMAIN pending : pending[k].what # "message" /\ pending[k].gen <= liveGeneration
                                  /\ pending[k].gen \in Nat
    <2>1. \A k \in DOMAIN pending : pending[k] \in Records
      BY BaseGives DEF ServerTypeOK
    <2>2. \A k \in DOMAIN pending : pending[k].gen \in Nat
      BY <2>1 DEF Records
    <2> QED
      BY <1>1, <2>2 DEF HostInv, TidyInv, Tidy
  <1>8. ~ReportKept' /\ Tidy(pending)' /\ Tidy(flush)'
    <2>1. \A k \in DOMAIN pending : pending[k].gen <= new /\ pending[k].gen # new
      BY <1>2, <1>7 DEF new
    <2>2. Tidy(pending)' /\ ~ReportIn(pending)'
      BY <1>1, <1>2, <1>7, <2>1 DEF Tidy, ReportIn, IsReport
    <2>3. Tidy(flush)' /\ ~ReportIn(flush)'
      <3>1. \A k \in DOMAIN flush : FALSE
        BY <1>1, NothingIn
      <3> QED
        BY <1>1, <3>1 DEF Tidy, ReportIn
    <2> QED
      BY <2>2, <2>3 DEF ReportKept
  <1>9. FlagInv'
    <2>1. \A g \in Gens : g = liveGeneration' => poller'[g] # "clearFlag"
      BY <1>2
    <2> QED
      BY <1>1, <1>4, <1>5, <1>8, <2>1 DEF FlagInv
  <1>10. TidyInv'
    BY <1>1, <1>8, NothingIn DEF TidyInv
  <1>11. CoverInv'
    <2>1. \A c \in Chats, n \in Ids : ~(baseline'[new][c] < n /\ n <= watches'[new][c])
      <3> SUFFICES ASSUME NEW c \in Chats, NEW n \in Ids
                   PROVE  ~(baseline'[new][c] < n /\ n <= watches'[new][c])
        OBVIOUS
      <3>1. baseline'[new][c] = latest[c] /\ watches'[new][c] = latest[c]
        BY <1>2
      <3>2. latest[c] \in Nat /\ n \in Nat
        BY BaseGives, LiveSets DEF LiveTypeOK
      <3> QED
        BY <3>1, <3>2
    <2> QED
      BY <1>2, <2>1 DEF CoverInv
  <1> QED
    BY <1>2, <1>5, <1>6, <1>9, <1>10, <1>11, FeedRests DEF HostInv

LEMMA StopReturns ==
    ASSUME Base, Base', HostInv, Calm, CallStopReturns, StopReturned
    PROVE  HostInv' /\ Follows
  <1>1. /\ main = "stop.call" /\ main' = "stop.reply" /\ listenActive' = FALSE
        /\ UNCHANGED <<threadMarks, lists, out, latest>>
        /\ UNCHANGED <<liveGeneration, baseline, poller, eventsReady, pending, flush>>
    BY DEF CallStopReturns, StopReturned, StopNothing, StopJoined, Goto, local, liveVars,
       threadVars, threadMarks, lists
  <1>2. \A g \in Gens : poller[g] \notin Live
    <2>1. liveThread' = 0 /\ call' = "idle"
      BY DEF CallStopReturns, StopNothing, StopJoined, Base, RegistryInv, liveVars
    <2>2. \A g \in Gens : g # 0 /\ (poller[g] \in Live => poller'[g] \in Live)
      BY <1>1 DEF Gens
    <2>3. joining' = 0
      BY <2>1 DEF Base, RegistryInv
    <2> QED
      BY <2>1, <2>2, <2>3 DEF Base, RegistryInv
  <1>3. WireInv' /\ SameFeed
    BY <1>1, WireStill, BaseGives DEF HostInv, SameFeed, Base, TypeInv
  <1>4. FlagInv'
    BY <1>1, <1>2, <1>3, SameLists DEF HostInv, FlagInv, SameFeed
  <1>5. TidyInv'
    BY <1>1, <1>3, SameLists DEF HostInv, TidyInv, SameFeed
  <1>6. CoverInv'
    BY <1>1, <1>3, SameCover DEF HostInv, SameFeed
  <1> QED
    BY <1>1, <1>3, <1>4, <1>5, <1>6, FeedRests DEF HostInv
-----------------------------------------------------------------------------
(***************************************************************************)
(* What is written from the pending list or by the thread.                 *)
(***************************************************************************)
\* The next message on topic of a chat, when nothing before it is kept back.
LEMMA GivesNext ==
    ASSUME ServerTypeOK, ServerTypeOK', LiveTypeOK, ThreadInv, PassedAll(out),
           WireInv, Calm, FeedOn, UNCHANGED <<latest, liveGeneration, baseline>>,
           NEW r \in Records, out' = Append(out, r), r.what = "message",
           r.gen = liveGeneration, Above(out, r),
           r.chat \in Chats, r.n \in Ids, <<r.chat, r.n>> \notin OffTopic,
           baseline[liveGeneration][r.chat] < r.n, r.n <= watches[liveGeneration][r.chat],
           \A m \in Ids : /\ Given(r.chat) < m /\ m < r.n
                          /\ baseline[liveGeneration][r.chat] < m
                          /\ m <= watches[liveGeneration][r.chat]
                          => <<r.chat, m>> \in OffTopic
    PROVE  /\ WireInv' /\ FeedOn' /\ Given(r.chat)' = r.n /\ Given(r.chat) < r.n
           /\ \A c \in Chats \ {r.chat} : Given(c)' = Given(c)
           /\ \A c \in Chats : Given(c) \in Nat
           /\ Follows
  <1> DEFINE c == r.chat
             n == r.n
  <1>1. /\ WireInv' /\ FeedOn' /\ Given(c)' = n
        /\ \A d \in Chats \ {c} : Given(d)' = Given(d)
    BY WireTold
  <1>2. /\ liveGeneration \in Gens /\ Given(c) \in Nat
        /\ baseline[liveGeneration][c] <= Given(c) /\ Given(c) < n
    BY GivenBounds
  <1>3. \A d \in Chats : Given(d) \in Nat
    BY GivenBounds
  <1>4. /\ n \in Nat /\ watches[liveGeneration][c] \in Nat /\ latest[c] \in Nat
        /\ baseline[liveGeneration][c] \in Nat /\ Ids = 0..MaxMsgs /\ MaxMsgs \in Nat
    <2>1. /\ watches[liveGeneration][c] \in Ids /\ latest[c] \in Ids
          /\ baseline[liveGeneration][c] \in Ids
      BY <1>2 DEF LiveTypeOK
    <2> QED
      BY <2>1, LiveSets, LiveAssumption DEF Ids
  <1>5. n <= latest[c]
    <2>1. watches[liveGeneration][c] <= latest[c]
      BY <1>2 DEF ThreadInv
    <2> QED
      BY <1>4, <2>1
  <1>6. ASSUME NEW m \in Nat, Given(c) < m, m < n PROVE <<c, m>> \in OffTopic
    <2>1. m \in Ids /\ baseline[liveGeneration][c] < m /\ m <= watches[liveGeneration][c]
      BY <1>2, <1>4, <1>6
    <2> QED
      BY <1>6, <2>1
  <1> HIDE DEF c, n
  <1>7. c \in Chats /\ n \in Nat /\ <<c, n>> \notin OffTopic /\ latest' = latest
    BY <1>4 DEF c, n
  <1>8. Follows
    BY <1>1, <1>2, <1>5, <1>6, <1>7, FeedGives
  <1> QED
    BY <1>1, <1>2, <1>3, <1>8 DEF c, n

\* The pending list, when its head is written.
LEMMA HeadGone ==
    ASSUME NEW s \in Seq(Records), s # <<>>, Tidy(s)
    PROVE  LET h == Head(s)
               t == Tail(s)
           IN  /\ Tidy(t) /\ (ReportIn(t) => ReportIn(s))
               /\ ReportIn(s) => IsReport(h) \/ ReportIn(t)
               /\ IsReport(h) => ReportIn(s) /\ \A k \in DOMAIN t : t[k].what # "message"
               /\ \A k \in DOMAIN t : \E j \in DOMAIN s : t[k] = s[j]
               /\ \A c, n : /\ Holds(s, c, n) => Holds(t, c, n) \/ (MessageOf(h, c) /\ h.n = n)
                            /\ Before(s, c, n) => Before(t, c, n)
  <1> DEFINE h == Head(s)
             t == Tail(s)
  <1>1. /\ h = s[1] /\ 1 \in DOMAIN s
        /\ \A k \in DOMAIN t : k \in Nat /\ k >= 1 /\ k + 1 \in DOMAIN s /\ t[k] = s[k + 1]
    BY TailLists
  <1>2. \A j \in DOMAIN s : j = 1 \/ \E k \in DOMAIN t : t[k] = s[j]
    <2>1. Len(s) \in Nat /\ DOMAIN s = 1..Len(s) /\ Len(t) = Len(s) - 1 /\ DOMAIN t = 1..Len(t)
          /\ \A k \in 1..Len(t) : t[k] = s[k + 1]
      BY <1>1, HeadTailProperties, LenProperties
    <2> HIDE DEF t
    <2> SUFFICES ASSUME NEW j \in DOMAIN s, j # 1 PROVE \E k \in DOMAIN t : t[k] = s[j]
      OBVIOUS
    <2>2. j - 1 \in DOMAIN t /\ (j - 1) + 1 = j
      BY <2>1
    <2>3. t[j - 1] = s[j]
      BY <2>1, <2>2
    <2> QED
      BY <2>2, <2>3
  <1> HIDE DEF h, t
  <1>3. Tidy(t)
    <2>1. \A j, k \in DOMAIN t : j < k => j + 1 < k + 1
      BY <1>1
    <2> QED
      BY <1>1, <2>1 DEF Tidy
  <1>4. /\ ReportIn(t) => ReportIn(s)
        /\ ReportIn(s) => IsReport(h) \/ ReportIn(t)
        /\ IsReport(h) => ReportIn(s)
    BY <1>1, <1>2 DEF ReportIn
  <1>5. ASSUME IsReport(h), NEW k \in DOMAIN t PROVE t[k].what # "message"
    <2>1. 1 < k + 1 /\ k + 1 \in DOMAIN s /\ t[k] = s[k + 1] /\ IsReport(s[1])
      BY <1>1, <1>5
    <2> QED
      BY <1>1, <2>1 DEF Tidy
  <1>6. \A k \in DOMAIN t : \E j \in DOMAIN s : t[k] = s[j]
    BY <1>1
  <1>7. \A c, n : /\ Holds(s, c, n) => Holds(t, c, n) \/ (MessageOf(h, c) /\ h.n = n)
                  /\ Before(s, c, n) => Before(t, c, n)
    BY <1>1, <1>2 DEF Holds, Before
  <1> QED
    BY <1>3, <1>4, <1>5, <1>6, <1>7 DEF h, t

LEMMA FlushesMessage ==
    ASSUME Base, Base', HostInv, Calm, FlushRecord, UNCHANGED liveVars,
           Head(flush).what = "message"
    PROVE  HostInv' /\ Follows
  <1> SUFFICES ASSUME NEW h, h = Head(flush) PROVE HostInv' /\ Follows
    OBVIOUS
  <1>1. /\ ServerTypeOK /\ ServerTypeOK' /\ LiveTypeOK /\ MarksInv /\ PassedAll(out)
        /\ ThreadInv /\ flush \in Seq(Records)
    BY BaseGives DEF Base, TypeInv, ServerTypeOK
  <1>2. /\ main = "listen.flushing" /\ main' = main /\ flush # <<>> /\ flush' = Tail(flush)
        /\ UNCHANGED <<threadMarks, listenActive, eventsReady, pending, latest>>
        /\ UNCHANGED <<liveGeneration, baseline, poller, watches, failed, batch, turn>>
        /\ out' = Append(out, h) /\ h.what = "message"
    BY DEF FlushRecord, Write, flags, liveVars, threadVars, threadMarks
  <1>3. h \in Records /\ h = flush[1] /\ 1 \in DOMAIN flush
    BY <1>1, <1>2, TailLists
  <1>4. /\ h.gen = liveGeneration /\ <<h.chat, h.n>> \notin OffTopic /\ FeedOn
    BY <1>2, <1>3 DEF HostInv, TidyInv, Tidy
  <1>5. Above(out, h) /\ Passed(h)
    BY <1>3 DEF Base, OrderInv, Lists, Precedes, Above, PassedAll
  <1>6. /\ liveGeneration \in Gens /\ h.chat \in Chats
        /\ baseline[liveGeneration][h.chat] < h.n /\ h.n <= watches[liveGeneration][h.chat]
    BY <1>2, <1>4, <1>5 DEF Passed
  <1>7. h.n \in Ids
    <2>1. watches[liveGeneration][h.chat] \in Ids
      BY <1>1, <1>6 DEF LiveTypeOK
    <2> QED
      BY <1>3, <1>6, <2>1, LiveAssumption DEF Records, Ids
  <1>8. ASSUME NEW m \in Ids, Given(h.chat) < m, m < h.n, baseline[liveGeneration][h.chat] < m,
               m <= watches[liveGeneration][h.chat]
        PROVE  <<h.chat, m>> \in OffTopic
    <2> SUFFICES ASSUME <<h.chat, m>> \notin OffTopic PROVE FALSE
      OBVIOUS
    <2>1. Covered(liveGeneration, h.chat, m)
      BY <1>4, <1>6, <1>8 DEF HostInv, CoverInv
    <2>2. m \in Nat /\ h.n \in Nat /\ Given(h.chat) \in Nat
      BY <1>1, <1>4, <1>6, <1>7, GivenBounds, LiveSets DEF HostInv
    <2>3. \A k \in DOMAIN flush : MessageOf(flush[k], h.chat) => h.n <= flush[k].n
      <3> SUFFICES ASSUME NEW k \in DOMAIN flush, MessageOf(flush[k], h.chat)
                   PROVE  h.n <= flush[k].n
        OBVIOUS
      <3>1. SameChat(h, flush[k])
        BY <1>2, <1>4 DEF SameChat, MessageOf, HostInv, TidyInv, Tidy
      <3>2. k = 1 \/ 1 < k
        BY <1>1, LenProperties
      <3>3. 1 < k => h.n < flush[k].n
        BY <1>3, <3>1 DEF Base, OrderInv, Lists, Ascends
      <3>4. flush[k].n \in Nat
        <4>1. flush[k] \in Records
          BY <1>1
        <4> QED
          BY <4>1 DEF Records
      <3> QED
        BY <1>3, <2>2, <3>2, <3>3, <3>4
    <2>4. \A k \in DOMAIN pending : MessageOf(pending[k], h.chat) => h.n < pending[k].n
      <3> SUFFICES ASSUME NEW k \in DOMAIN pending, MessageOf(pending[k], h.chat)
                   PROVE  h.n < pending[k].n
        OBVIOUS
      <3>1. SameChat(h, pending[k])
        BY <1>2, <1>4 DEF SameChat, MessageOf, HostInv, TidyInv, Tidy
      <3> QED
        BY <1>3, <3>1 DEF Base, OrderInv, Lists, Precedes
    <2>5. ~Holds(flush, h.chat, m)
      BY <1>8, <2>2, <2>3 DEF Holds
    <2>6. ~Holds(pending, h.chat, m)
      BY <1>8, <2>2, <2>4 DEF Holds
    <2>7. ~Before(flush, h.chat, m)
      BY <1>2, <1>3, <1>8, <2>2 DEF Before, MessageOf
    <2>8. ~(poller[liveGeneration] = "emit" /\ turn[liveGeneration] = h.chat
            /\ \E i \in DOMAIN batch[liveGeneration] : batch[liveGeneration][i] = m)
      <3> SUFFICES ASSUME poller[liveGeneration] = "emit", turn[liveGeneration] = h.chat,
                          NEW i \in DOMAIN batch[liveGeneration],
                          batch[liveGeneration][i] = m
                   PROVE  FALSE
        OBVIOUS
      <3>1. h.n < m
        BY <1>2, <1>4, <1>5 DEF Passed
      <3> QED
        BY <1>8, <2>2, <3>1
    <2> QED
      BY <1>8, <2>1, <2>2, <2>5, <2>6, <2>7, <2>8 DEF Covered
  <1>9. /\ WireInv' /\ FeedOn' /\ Given(h.chat)' = h.n /\ Given(h.chat) < h.n
        /\ \A c \in Chats \ {h.chat} : Given(c)' = Given(c)
        /\ \A c \in Chats : Given(c) \in Nat
        /\ Follows
    BY <1>1, <1>2, <1>3, <1>4, <1>5, <1>6, <1>7, <1>8, GivesNext DEF HostInv
  <1>10. /\ Tidy(flush') /\ (ReportIn(flush') <=> ReportIn(flush))
         /\ \A c, n : /\ Holds(flush, c, n) => Holds(flush', c, n) \/ (MessageOf(h, c) /\ h.n = n)
                      /\ Before(flush, c, n) => Before(flush', c, n)
    <2>1. ~IsReport(h) /\ Tidy(flush)
      BY <1>2 DEF IsReport, HostInv, TidyInv
    <2> QED
      BY <1>1, <1>2, <2>1, HeadGone
  <1>11. (ReportKept' <=> ReportKept) /\ Tidy(flush)' /\ (Tidy(pending)' <=> Tidy(pending))
    <2>1. Tidy(flush)' /\ (Tidy(pending)' <=> Tidy(pending))
      BY <1>2, <1>10 DEF Tidy, IsReport
    <2>2. (ReportIn(flush)' <=> ReportIn(flush)) /\ (ReportIn(pending)' <=> ReportIn(pending))
      BY <1>2, <1>10 DEF ReportIn, IsReport
    <2> QED
      BY <2>1, <2>2 DEF ReportKept
  <1>12. FlagInv'
    BY <1>2, <1>4, <1>9, <1>11 DEF HostInv, FlagInv
  <1>13. TidyInv'
    BY <1>2, <1>9, <1>11 DEF HostInv, TidyInv
  <1>14. CoverInv'
    <2> SUFFICES ASSUME NEW g \in Gens, NEW c \in Chats, NEW n \in Ids, Covered(g, c, n)
                 PROVE  Covered(g, c, n)'
      BY <1>2, <1>4 DEF HostInv, CoverInv
    <2>1. n \in Nat /\ h.n \in Nat /\ Given(c) \in Nat
      BY <1>7, <1>9, LiveSets
    <2>2. Given(c) <= Given(c)' /\ (MessageOf(h, c) => Given(c)' = h.n)
      BY <1>9, <2>1 DEF MessageOf
    <2>3. FeedOn /\ n <= Given(c) => FeedOn' /\ n <= Given(c)'
      <3>1. Given(c)' \in Nat
        BY <1>9, <2>1
      <3> QED
        BY <1>9, <2>1, <2>2, <3>1
    <2>4. /\ Holds(flush, c, n) => Holds(flush', c, n) \/ (FeedOn' /\ n <= Given(c)')
          /\ Before(flush, c, n) => Before(flush', c, n)
      BY <1>9, <1>10, <2>1, <2>2
    <2>5. /\ Holds(flush', c, n) <=> Holds(flush, c, n)'
          /\ Before(flush', c, n) <=> Before(flush, c, n)'
          /\ Holds(pending, c, n) <=> Holds(pending, c, n)'
          /\ Before(pending, c, n) <=> Before(pending, c, n)'
      BY <1>2 DEF Holds, Before, MessageOf
    <2> QED
      BY <1>2, <2>3, <2>4, <2>5 DEF Covered
  <1> QED
    BY <1>9, <1>12, <1>13, <1>14 DEF HostInv

LEMMA FlushesReport ==
    ASSUME Base, Base', HostInv, Calm, FlushRecord, UNCHANGED liveVars,
           Head(flush).what = "liveError"
    PROVE  HostInv' /\ Follows
  <1> SUFFICES ASSUME NEW h, h = Head(flush) PROVE HostInv' /\ Follows
    OBVIOUS
  <1>1. /\ ServerTypeOK /\ ServerTypeOK' /\ flush \in Seq(Records) /\ liveGeneration \in Nat
        /\ \A g \in Gens : poller[g] \in Live => g = liveGeneration
    BY BaseGives DEF Base, TypeInv, ServerTypeOK, ThreadInv
  <1>2. /\ main = "listen.flushing" /\ main' = main /\ flush # <<>> /\ flush' = Tail(flush)
        /\ UNCHANGED <<threadMarks, listenActive, eventsReady, pending, latest>>
        /\ UNCHANGED <<liveGeneration, baseline, poller, watches, failed, batch, turn>>
        /\ out' = Append(out, h) /\ h.what = "liveError"
    BY DEF FlushRecord, Write, flags, liveVars, threadVars, threadMarks
  <1>3. h \in Records /\ h.gen <= liveGeneration
    <2>1. h \in Records /\ h = flush[1] /\ 1 \in DOMAIN flush
      BY <1>1, <1>2, TailLists
    <2> QED
      BY <2>1 DEF HostInv, TidyInv, Tidy
  <1>4. /\ WireInv' /\ (FeedOn' <=> FeedOn /\ h.gen # liveGeneration)
        /\ \A c \in Chats : Given(c)' = IF FeedOn' THEN Given(c) ELSE 0
    BY <1>1, <1>2, <1>3, WireReports DEF HostInv
  <1>5. /\ Tidy(flush') /\ (ReportIn(flush') => ReportIn(flush))
        /\ ReportIn(flush) => IsReport(h) \/ ReportIn(flush')
        /\ IsReport(h) => ReportIn(flush) /\ \A k \in DOMAIN flush' : flush'[k].what # "message"
        /\ \A k \in DOMAIN flush' : \E j \in DOMAIN flush : flush'[k] = flush[j]
        /\ \A c, n : /\ Holds(flush, c, n) => Holds(flush', c, n) \/ (MessageOf(h, c) /\ h.n = n)
                     /\ Before(flush, c, n) => Before(flush', c, n)
    BY <1>1, <1>2, HeadGone DEF HostInv, TidyInv
  <1>6. IsReport(h) <=> h.gen = liveGeneration
    BY <1>2 DEF IsReport
  <1>7. /\ Tidy(flush)' /\ (Tidy(pending)' <=> Tidy(pending))
        /\ ReportKept' => ReportKept
        /\ ~IsReport(h) => (ReportKept' <=> ReportKept)
    BY <1>2, <1>5 DEF ReportKept, ReportIn, Tidy, IsReport
  <1>8. FlagInv'
    <2>1. IsReport(h) => \A g \in Gens : poller[g] \notin Live
      BY <1>1, <1>5 DEF HostInv, FlagInv, ReportKept, Live, Polling, Over
    <2> QED
      BY <1>2, <1>4, <1>6, <1>7, <2>1 DEF HostInv, FlagInv, Live
  <1>9. TidyInv'
    <2>1. \A k \in DOMAIN flush' : flush'[k].what = "message" => FeedOn'
      BY <1>4, <1>5, <1>6 DEF HostInv, TidyInv
    <2> QED
      BY <1>2, <1>7, <2>1 DEF HostInv, TidyInv
  <1>10. CoverInv'
    <2> SUFFICES ASSUME FeedOn', NEW g \in Gens, NEW c \in Chats, NEW n \in Ids, Covered(g, c, n)
                 PROVE  Covered(g, c, n)'
      BY <1>2, <1>4 DEF HostInv, CoverInv
    <2>1. FeedOn /\ Given(c)' = Given(c)
      BY <1>4
    <2>2. /\ Holds(flush', c, n) <=> Holds(flush, c, n)'
          /\ Before(flush', c, n) <=> Before(flush, c, n)'
          /\ Holds(pending, c, n) <=> Holds(pending, c, n)'
          /\ Before(pending, c, n) <=> Before(pending, c, n)'
      BY <1>2 DEF Holds, Before, MessageOf
    <2>3. ~MessageOf(h, c)
      BY <1>2 DEF MessageOf
    <2> QED
      BY <1>2, <1>5, <2>1, <2>2, <2>3 DEF Covered
  <1>11. Follows
    <2>1. CASE FeedOn /\ h.gen = liveGeneration
      BY <1>2, <1>4, <2>1, FeedStops
    <2>2. CASE FeedOn /\ h.gen # liveGeneration
      BY <1>2, <1>4, <2>2, FeedRests DEF SameFeed
    <2>3. CASE ~FeedOn
      BY <1>1, <1>2, <1>4, <2>3, OffGiven, FeedRests DEF HostInv, SameFeed
    <2> QED
      BY <2>1, <2>2, <2>3
  <1> QED
    BY <1>4, <1>8, <1>9, <1>10, <1>11 DEF HostInv
-----------------------------------------------------------------------------
(***************************************************************************)
(* Steps of a polling thread, while the promise stands.                    *)
(***************************************************************************)
LEMMA PollerElse ==
    ASSUME BackendInv, NEW g \in Gens, PollerStep(g)
    PROVE  /\ \A h \in Gens \ {g} :
                /\ poller'[h] = poller[h] /\ watches'[h] = watches[h] /\ batch'[h] = batch[h]
                /\ turn'[h] = turn[h] /\ failed'[h] = failed[h]
           /\ UNCHANGED <<baseline, liveGeneration, latest>>
  <1> USE DEF BackendInv, LiveTypeOK
  <1>1. CASE PollTop(g) \/ PollFault(g) \/ PollDeliverRaises(g) \/ PollClear(g) \/ PollCheck(g)
    BY <1>1 DEF PollTop, PollFault, PollDeliverRaises, PollClear, PollCheck
  <1>2. CASE PollReported(g) \/ PollReportRaises(g) \/ \E to : PollFlagCleared(g, to)
    BY <1>2 DEF PollReported, PollReportRaises, PollFlagCleared, PollMoves
  <1>3. CASE PollNothingNew(g)
    BY <1>3 DEF PollNothingNew, NextChat
  <1>4. CASE PollSkip(g) \/ PollDeliver(g)
    BY <1>4 DEF PollSkip, PollDeliver, HeadDone, NextChat
  <1>5. CASE PollFetch(g)
    BY <1>5 DEF PollFetch
  <1> QED
    BY <1>1, <1>2, <1>3, <1>4, <1>5 DEF PollerStep

\* What is left of the batch when its head is dealt with.
LEMMA BatchRest ==
    ASSUME BackendInv, NEW g \in Gens, HeadDone(g), NEW i \in DOMAIN batch[g]
    PROVE  \/ i = 1
           \/ /\ poller'[g] = "emit" /\ turn'[g] = turn[g]
              /\ \E j \in DOMAIN batch'[g] : batch'[g][j] = batch[g][i]
  <1> SUFFICES ASSUME i # 1
               PROVE  /\ poller'[g] = "emit" /\ turn'[g] = turn[g]
                      /\ \E j \in DOMAIN batch'[g] : batch'[g][j] = batch[g][i]
    OBVIOUS
  <1>1. /\ poller[g] = "emit" /\ batch'[g] = Tail(batch[g])
        /\ batch[g] \in Seq(Ids) /\ batch[g] # <<>>
        /\ Len(batch[g]) > 1 => UNCHANGED <<poller, turn>>
    BY DEF HeadDone, BackendInv, LiveTypeOK, BatchFilled
  <1> SUFFICES ASSUME NEW b, b = batch[g]
               PROVE  /\ poller'[g] = "emit" /\ turn'[g] = turn[g]
                      /\ \E j \in DOMAIN batch'[g] : batch'[g][j] = b[i]
    OBVIOUS
  <1>2. /\ Len(b) \in Nat /\ DOMAIN b = 1..Len(b) /\ DOMAIN Tail(b) = 1..(Len(b) - 1)
        /\ \A k \in 1..(Len(b) - 1) : Tail(b)[k] = b[k + 1]
    BY <1>1, HeadTailProperties, LenProperties
  <1>3. Len(b) > 1 /\ i - 1 \in 1..(Len(b) - 1) /\ (i - 1) + 1 = i
    BY <1>2
  <1>4. Tail(b)[i - 1] = b[i]
    BY <1>2, <1>3
  <1> QED
    BY <1>1, <1>2, <1>3, <1>4

\* The flag, when a thread moves and neither reports nor clears it.
LEMMA ThreadFlags ==
    ASSUME Base, HostInv, NEW g \in Gens, PollerStep(g),
           poller[g] \notin {"report", "clearFlag"},
           FeedOn' <=> FeedOn, ReportKept' <=> ReportKept,
           UNCHANGED <<main, listenActive, eventsReady>>
    PROVE  FlagInv'
  <1>1. /\ \A h \in Gens \ {g} : poller'[h] = poller[h]
        /\ poller'[g] \in Live => poller[g] \in Live
        /\ UNCHANGED liveGeneration
    BY BaseGives, PollerLocal
  <1>2. /\ poller[g] \notin Over /\ poller'[g] # "clearFlag"
        /\ poller'[g] \in Polling => poller[g] \in Polling
    BY BaseGives, PollerTurns
  <1>3. ReportKept => g # liveGeneration
    BY <1>2 DEF HostInv, FlagInv
  <1> QED
    BY <1>1, <1>2, <1>3 DEF HostInv, FlagInv

\* What is covered, when an earlier thread moves.
LEMMA CoverElse ==
    ASSUME Base, HostInv, NEW g \in Gens, PollerStep(g), g # liveGeneration, SameFeed,
           main' = main, flush' = flush,
           \A c, n : /\ Holds(pending, c, n) => Holds(pending', c, n)
                     /\ Before(pending, c, n) => Before(pending', c, n)
    PROVE  CoverInv'
  <1>1. /\ \A h \in Gens : h = liveGeneration =>
             /\ poller'[h] = poller[h] /\ watches'[h] = watches[h] /\ batch'[h] = batch[h]
             /\ turn'[h] = turn[h] /\ failed'[h] = failed[h]
        /\ UNCHANGED <<baseline, liveGeneration>>
    BY BaseGives, PollerElse
  <1>2. \A c, n : /\ Holds(flush, c, n)' <=> Holds(flush, c, n)
                  /\ Before(flush, c, n)' <=> Before(flush, c, n)
                  /\ Holds(pending, c, n)' <=> Holds(pending', c, n)
                  /\ Before(pending, c, n)' <=> Before(pending', c, n)
    BY DEF Holds, Before, MessageOf
  <1>3. \A h \in Gens, c \in Chats, n \in Ids :
          h = liveGeneration /\ Covered(h, c, n) => Covered(h, c, n)'
    BY <1>1, <1>2 DEF Covered, SameFeed
  <1> QED
    BY <1>1, <1>3 DEF HostInv, CoverInv, SameFeed

\* What is covered, when the newest thread moves.
LEMMA CoverNewest ==
    ASSUME Base, HostInv, NEW g \in Gens, PollerStep(g), g = liveGeneration,
           main' = main, FeedOn' <=> FeedOn,
           \A c \in Chats, n \in Ids :
             /\ <<c, n>> \notin OffTopic /\ baseline[g][c] < n /\ n <= watches'[g][c]
             /\ n <= watches[g][c] => Covered(g, c, n)
             => Covered(g, c, n)'
    PROVE  CoverInv'
  <1>1. UNCHANGED <<baseline, liveGeneration>>
    BY BaseGives, PollerElse
  <1> QED
    BY <1>1 DEF HostInv, CoverInv

LEMMA PollsOn ==
    ASSUME Base, Base', HostInv, Calm, NEW g \in Gens, Polls(g), PollerStep(g)
    PROVE  HostInv' /\ Follows
  <1>1. /\ UNCHANGED <<main, listenActive, eventsReady, pending, flush, out>>
        /\ UNCHANGED <<baseline, liveGeneration, latest>>
        /\ poller[g] \notin {"report", "clearFlag"}
    <2>1. UNCHANGED <<main, listenActive, eventsReady, pending, flush, out>>
      BY DEF Polls, serverVars, local, flags
    <2>2. poller[g] \notin {"report", "clearFlag"}
      BY DEF Polls, PollTop, PollNothingNew, PollFetch, PollFault, PollSkip, HeadDone,
         PollClear, PollCheck
    <2> QED
      BY <2>1, <2>2, BaseGives, PollerElse
  <1>2. WireInv' /\ SameFeed
    BY <1>1, WireStill, BaseGives DEF HostInv, SameFeed, Base, TypeInv
  <1>3. FlagInv'
    BY <1>1, <1>2, SameLists, ThreadFlags DEF SameFeed
  <1>4. TidyInv'
    BY <1>1, <1>2, SameLists DEF HostInv, TidyInv, SameFeed
  <1>5. CoverInv'
    <2>1. CASE g # liveGeneration
      BY <1>1, <1>2, <2>1, CoverElse
    <2>2. CASE g = liveGeneration
      <3> SUFFICES ASSUME NEW c \in Chats, NEW n \in Ids, <<c, n>> \notin OffTopic,
                          baseline[g][c] < n, n <= watches'[g][c],
                          n <= watches[g][c] => Covered(g, c, n)
                   PROVE  Covered(g, c, n)'
        BY <1>1, <1>2, <2>2, CoverNewest DEF SameFeed
      <3> DEFINE Waits == \/ FeedOn /\ n <= Given(c)
                          \/ Holds(flush, c, n) \/ Holds(pending, c, n)
                          \/ failed[g] /\ Before(flush, c, n) /\ Before(pending, c, n)
                 InBatch == /\ poller[g] = "emit" /\ turn[g] = c
                            /\ \E i \in DOMAIN batch[g] : batch[g][i] = n
      <3>1. Covered(g, c, n) => Waits \/ InBatch
        BY DEF Covered
      <3>2. Waits /\ (failed[g] => failed'[g]) => Covered(g, c, n)'
        BY <1>1, <1>2 DEF Covered, SameFeed, Holds, Before, MessageOf
      <3>3. InBatch' => Covered(g, c, n)'
        BY DEF Covered
      <3>4. /\ poller[g] \in {"fetch", "emit", "top", "clear", "check"}
            /\ g \in DOMAIN watches /\ g \in DOMAIN batch /\ g \in DOMAIN failed
            /\ g \in DOMAIN poller /\ g \in DOMAIN turn
            /\ c \in DOMAIN watches[g] /\ turn[g] \in Chats /\ watches[g] \in [Chats -> Ids]
        <4>1. LiveTypeOK
          BY BaseGives
        <4> QED
          BY <4>1 DEF LiveTypeOK, Polls, PollTop, PollNothingNew, PollFetch, PollFault, PollSkip,
             HeadDone, PollClear, PollCheck
      <3>5. CASE PollTop(g) \/ PollNothingNew(g) \/ PollFault(g) \/ PollClear(g) \/ PollCheck(g)
        <4>1. poller[g] # "emit" /\ UNCHANGED watches /\ (failed[g] => failed'[g])
          BY <3>4, <3>5 DEF PollTop, PollNothingNew, PollFault, PollClear, PollCheck
        <4>2. Covered(g, c, n)
          BY <4>1
        <4> QED
          BY <3>1, <3>2, <4>1, <4>2
      <3>6. CASE PollFetch(g)
        <4> DEFINE ids == NewerIds(turn[g], watches[g][turn[g]])
        <4>1. /\ poller[g] = "fetch" /\ poller'[g] = "emit" /\ turn' = turn /\ failed' = failed
              /\ batch'[g] = ids /\ latest[turn[g]] > watches[g][turn[g]]
              /\ watches'[g][c] = IF c = turn[g] THEN ids[Len(ids)] ELSE watches[g][c]
          BY <3>4, <3>6 DEF PollFetch
        <4>2. \A m \in Nat : watches[g][turn[g]] < m /\ m <= ids[Len(ids)] =>
                \E i \in DOMAIN ids : ids[i] = m
          BY <3>4, <4>1, NewerIdsReach, BaseGives
        <4> HIDE DEF ids
        <4>3. CASE n <= watches[g][c]
          BY <3>1, <3>2, <4>1, <4>3
        <4>4. CASE ~(n <= watches[g][c])
          <5>1. n \in Nat /\ watches[g][c] \in Nat /\ c = turn[g]
            BY <3>4, <4>1, <4>4, LiveSets
          <5>2. \E i \in DOMAIN ids : ids[i] = n
            BY <4>1, <4>2, <4>4, <5>1
          <5>3. InBatch'
            BY <4>1, <5>1, <5>2
          <5> QED
            BY <3>3, <5>3
        <4> QED
          BY <4>3, <4>4
      <3>7. CASE PollSkip(g)
        <4>1. HeadDone(g) /\ UNCHANGED <<watches, failed>> /\ <<turn[g], batch[g][1]>> \in OffTopic
          <5>1. batch[g] \in Seq(Ids)
            BY BaseGives DEF LiveTypeOK
          <5> QED
            BY <3>7, <5>1 DEF PollSkip, HeadDone, Offered
        <4>2. Covered(g, c, n)
          BY <4>1
        <4>3. InBatch => InBatch'
          <5> SUFFICES ASSUME InBatch PROVE InBatch'
            OBVIOUS
          <5>1. PICK i \in DOMAIN batch[g] : batch[g][i] = n
            OBVIOUS
          <5>2. i # 1
            BY <4>1, <5>1
          <5> QED
            BY <4>1, <5>1, <5>2, BatchRest, BaseGives
        <4> QED
          BY <3>1, <3>2, <3>3, <4>1, <4>2, <4>3
      <3> QED
        BY <3>5, <3>6, <3>7 DEF Polls
    <2> QED
      BY <2>1, <2>2
  <1> QED
    BY <1>1, <1>2, <1>3, <1>4, <1>5, FeedRests DEF HostInv

\* The record of the message at hand.
LEMMA FoundGives ==
    ASSUME Base, HostInv, NEW g \in Gens, poller[g] = "emit", Offered(g) \notin OffTopic,
           NEW r, r = Found(g)
    PROVE  /\ g = liveGeneration /\ ~failed[g] /\ ~ReportKept
           /\ r \in Records /\ r.what = "message" /\ r.gen = g /\ r.chat = turn[g]
           /\ r.n = batch[g][1] /\ r.chat \in Chats /\ r.n \in Ids
           /\ <<r.chat, r.n>> \notin OffTopic
           /\ Above(out, r) /\ baseline[g][r.chat] < r.n /\ r.n <= watches[g][r.chat]
           /\ 1 \in DOMAIN batch[g] /\ main # "listen.start"
  <1>1. /\ BackendInv /\ MarksInv /\ BatchOrder /\ PassedAll(out) /\ BackOrder
    BY BaseGives DEF BackOrder
  <1>2. /\ r.what = "message" /\ r.gen = g /\ r.chat = turn[g] /\ r.n = batch[g][1]
        /\ r \in [type : {"event"}, id : {0}, what : {"message"}, gen : Gens, chat : Chats, n : Ids]
        /\ Above(out, r)
    BY <1>1, HeadIsNew
  <1>3. r \in Records
    BY <1>2, LiveSets DEF Records, Whats
  <1>4. batch[g] \in Seq(Ids) /\ batch[g] # <<>> /\ 1 \in DOMAIN batch[g]
        /\ Head(batch[g]) = batch[g][1]
    <2>1. batch[g] \in Seq(Ids) /\ batch[g] # <<>>
      BY <1>1 DEF BackendInv, LiveTypeOK, BatchFilled
    <2> QED
      BY <2>1, HeadTailProperties, LenProperties, EmptySeq
  <1>5. <<r.chat, r.n>> \notin OffTopic
    BY <1>2, <1>4 DEF Offered
  <1>6. baseline[g][r.chat] < r.n /\ r.n <= watches[g][r.chat]
    BY <1>1, <1>2, <1>4 DEF BatchOrder
  <1>7. g = liveGeneration /\ ~failed[g]
    BY DEF Base, ThreadInv, Live, Polling
  <1>8. ~ReportKept /\ main # "listen.start"
    BY <1>7 DEF HostInv, FlagInv, Live, Polling, Over
  <1> QED
    BY <1>2, <1>3, <1>4, <1>5, <1>6, <1>7, <1>8

LEMMA Delivers ==
    ASSUME Base, Base', HostInv, Calm, NEW g \in Gens, OnMessage(g), PollerStep(g)
    PROVE  HostInv' /\ Follows
  <1> SUFFICES ASSUME NEW r, r = Found(g) PROVE HostInv' /\ Follows
    OBVIOUS
  <1>1. /\ poller[g] = "emit" /\ Offered(g) \notin OffTopic /\ HeadDone(g) /\ EmitLive(r)
        /\ UNCHANGED <<watches, failed>>
    BY DEF OnMessage, PollDeliver, HeadDone
  <1>2. /\ g = liveGeneration /\ ~failed[g] /\ ~ReportKept
        /\ r \in Records /\ r.what = "message" /\ r.gen = g /\ r.chat = turn[g]
        /\ r.n = batch[g][1] /\ r.chat \in Chats /\ r.n \in Ids
        /\ <<r.chat, r.n>> \notin OffTopic
        /\ Above(out, r) /\ baseline[g][r.chat] < r.n /\ r.n <= watches[g][r.chat]
        /\ 1 \in DOMAIN batch[g] /\ main # "listen.start"
    BY <1>1, FoundGives
  <1>3. /\ UNCHANGED <<main, listenActive, eventsReady, flush>>
        /\ UNCHANGED <<baseline, liveGeneration, latest>> /\ flush = <<>>
        /\ poller[g] \notin {"report", "clearFlag"}
        /\ ServerTypeOK /\ ServerTypeOK' /\ LiveTypeOK /\ BackendInv /\ PassedAll(out)
        /\ ThreadInv /\ pending \in Seq(Records) /\ liveGeneration \in Nat
    <2>1. UNCHANGED <<main, listenActive, eventsReady, flush>> /\ main # "listen.flushing"
      BY <1>1 DEF EmitLive, local, OutputFree
    <2> QED
      BY <1>1, <2>1, BaseGives, PollerElse DEF Base, TypeInv, ServerTypeOK
  <1>4. \A i \in DOMAIN batch[g] :
          \/ batch[g][i] = r.n
          \/ /\ poller'[g] = "emit" /\ turn'[g] = turn[g]
             /\ \E j \in DOMAIN batch'[g] : batch'[g][j] = batch[g][i]
    BY <1>1, <1>2, <1>3, BatchRest
  <1>5. CASE eventsReady
    <2>1. out' = Append(out, r) /\ pending' = pending /\ pending = <<>>
      BY <1>1, <1>5, BaseGives DEF EmitLive, Write, KeptInv
    <2>2. FeedOn
      BY <1>1, <1>5 DEF HostInv, FlagInv, Polling
    <2>3. \A c, n : ~Holds(flush, c, n) /\ ~Holds(pending, c, n)
      BY <1>3, <2>1, NothingIn
    <2>4. ASSUME NEW m \in Ids, Given(r.chat) < m, m < r.n, baseline[liveGeneration][r.chat] < m,
                 m <= watches[liveGeneration][r.chat]
          PROVE  <<r.chat, m>> \in OffTopic
      <3> SUFFICES ASSUME <<r.chat, m>> \notin OffTopic PROVE FALSE
        OBVIOUS
      <3>1. Covered(g, r.chat, m)
        BY <1>2, <2>2, <2>4 DEF HostInv, CoverInv
      <3>2. m \in Nat /\ r.n \in Nat /\ Given(r.chat) \in Nat
        BY <1>2, <1>3, <2>2, GivenBounds, LiveSets DEF HostInv
      <3>3. PICK i \in DOMAIN batch[g] : batch[g][i] = m
        BY <1>2, <2>3, <2>4, <3>1, <3>2 DEF Covered
      <3>4. i = 1 \/ 1 < i
        <4>1. batch[g] \in Seq(Ids)
          BY <1>3 DEF LiveTypeOK
        <4> QED
          BY <4>1, LenProperties
      <3>5. 1 < i => r.n < m
        <4>1. BatchOrder
          BY BaseGives
        <4> QED
          BY <1>1, <1>2, <3>3, <4>1 DEF BatchOrder
      <3> QED
        BY <1>2, <2>4, <3>2, <3>3, <3>4, <3>5
    <2>5. /\ WireInv' /\ FeedOn' /\ Given(r.chat)' = r.n /\ Given(r.chat) < r.n
          /\ \A c \in Chats \ {r.chat} : Given(c)' = Given(c)
          /\ \A c \in Chats : Given(c) \in Nat
          /\ Follows
      BY <1>2, <1>3, <2>1, <2>2, <2>4, GivesNext DEF HostInv
    <2>6. FlagInv'
      <3>1. UNCHANGED <<liveGeneration, pending, flush>>
        BY <1>3, <2>1
      <3> QED
        BY <1>3, <2>2, <2>5, <3>1, SameLists, ThreadFlags
    <2>7. TidyInv'
      BY <1>3, <2>1, <2>5, SameLists DEF HostInv, TidyInv
    <2>8. CoverInv'
      <3> SUFFICES ASSUME NEW c \in Chats, NEW n \in Ids, Covered(g, c, n)
                   PROVE  Covered(g, c, n)'
        BY <1>1, <1>2, <1>3, <2>2, <2>5, CoverNewest
      <3>1. n \in Nat /\ r.n \in Nat /\ Given(c) \in Nat
        BY <1>2, <2>5, LiveSets
      <3>2. Given(c) <= Given(c)' /\ Given(c)' \in Nat /\ (r.chat = c => Given(c)' = r.n)
        BY <2>5, <3>1
      <3>3. n <= Given(c) \/ (n = r.n /\ r.chat = c) => n <= Given(c)'
        BY <3>1, <3>2
      <3> QED
        BY <1>2, <1>4, <2>3, <2>5, <3>3 DEF Covered
    <2> QED
      BY <2>5, <2>6, <2>7, <2>8 DEF HostInv
  <1>6. CASE ~eventsReady
    <2>1. pending' = Append(pending, r) /\ out' = out
      BY <1>1, <1>6 DEF EmitLive
    <2>2. WireInv' /\ SameFeed
      BY <1>3, <2>1, WireStill DEF HostInv, SameFeed
    <2>3. /\ \A k \in DOMAIN pending : pending'[k] = pending[k] /\ k \in DOMAIN pending'
                                       /\ k < Len(pending) + 1
          /\ \A k \in DOMAIN pending' : k \in DOMAIN pending \/ k = Len(pending) + 1
          /\ Len(pending) + 1 \in DOMAIN pending' /\ pending'[Len(pending) + 1] = r
          /\ Len(pending) \in Nat /\ DOMAIN pending = 1..Len(pending)
      BY <1>2, <1>3, <2>1, Appended
    <2>4. ReportKept' <=> ReportKept
      <3>1. ~IsReport(r)
        BY <1>2 DEF IsReport
      <3> QED
        BY <1>3, <2>3, <3>1 DEF ReportKept, ReportIn, IsReport
    <2>5. FlagInv'
      BY <1>3, <2>2, <2>4, ThreadFlags DEF SameFeed
    <2>6. Tidy(pending)' /\ (Tidy(flush)' <=> Tidy(flush))
      <3>1. \A k \in DOMAIN pending : ~IsReport(pending[k])
        BY <1>2 DEF ReportKept, ReportIn
      <3>2. \A j, k \in DOMAIN pending' : j < k => j \in DOMAIN pending
        BY <2>3
      <3>3. liveGeneration <= liveGeneration
        BY <1>3
      <3>4. \A k \in DOMAIN pending' : pending'[k] = r \/ \E j \in DOMAIN pending :
               j = k /\ pending'[k] = pending[j]
        BY <2>3
      <3>5. Tidy(pending)
        BY DEF HostInv, TidyInv
      <3>6. \A k \in DOMAIN pending' :
              /\ pending'[k].gen <= liveGeneration
              /\ pending'[k].what = "message" =>
                   /\ pending'[k].gen = liveGeneration
                   /\ <<pending'[k].chat, pending'[k].n>> \notin OffTopic
        BY <1>2, <3>3, <3>4, <3>5 DEF Tidy
      <3>7. \A j, k \in DOMAIN pending' : j < k => ~IsReport(pending'[j])
        BY <2>3, <3>1, <3>2
      <3> QED
        BY <1>3, <3>6, <3>7 DEF Tidy, IsReport
    <2>7. TidyInv'
      BY <1>2, <1>3, <2>2, <2>6 DEF HostInv, TidyInv, SameFeed
    <2>8. CoverInv'
      <3> SUFFICES ASSUME NEW c \in Chats, NEW n \in Ids, Covered(g, c, n)
                   PROVE  Covered(g, c, n)'
        BY <1>1, <1>2, <1>3, <2>2, CoverNewest DEF SameFeed
      <3>1. Holds(pending, c, n) \/ (r.chat = c /\ r.n = n) => Holds(pending, c, n)'
        BY <1>2, <2>3 DEF Holds, MessageOf
      <3>2. Holds(flush, c, n) => Holds(flush, c, n)'
        BY <1>3 DEF Holds, MessageOf
      <3>3. FeedOn /\ n <= Given(c) => FeedOn' /\ n <= Given(c)'
        BY <2>2 DEF SameFeed
      <3>4. poller[g] = "emit" /\ turn[g] = c /\ (\E i \in DOMAIN batch[g] : batch[g][i] = n) =>
              \/ r.chat = c /\ r.n = n
              \/ /\ poller'[g] = "emit" /\ turn'[g] = c
                 /\ \E j \in DOMAIN batch'[g] : batch'[g][j] = n
        BY <1>2, <1>4
      <3> QED
        BY <1>2, <3>1, <3>2, <3>3, <3>4 DEF Covered
    <2> QED
      BY <1>3, <2>2, <2>5, <2>7, <2>8, FeedRests DEF HostInv
  <1> QED
    BY <1>5, <1>6

LEMMA DeliverFails ==
    ASSUME Base, Base', HostInv, Calm, NEW g \in Gens, OnMessageRaises(g), PollerStep(g)
    PROVE  HostInv' /\ Follows
  <1>1. /\ poller[g] = "emit" /\ failed'[g] = TRUE /\ eventsReady /\ main # "listen.flushing"
        /\ UNCHANGED <<main, listenActive, eventsReady, pending, flush, out, watches, latest>>
        /\ UNCHANGED <<baseline, liveGeneration>>
    BY BaseGives DEF OnMessageRaises, PollDeliverRaises, EmitRaises, OutputFree, serverVars,
       local, flags, LiveTypeOK
  <1>2. g = liveGeneration
    BY <1>1 DEF Base, ThreadInv, Live, Polling
  <1>3. WireInv' /\ SameFeed
    BY <1>1, WireStill, BaseGives DEF HostInv, SameFeed, Base, TypeInv
  <1>4. FlagInv'
    BY <1>1, <1>3, SameLists, ThreadFlags DEF SameFeed
  <1>5. TidyInv'
    BY <1>1, <1>3, SameLists DEF HostInv, TidyInv, SameFeed
  <1>6. CoverInv'
    <2>1. pending = <<>> /\ flush = <<>>
      BY <1>1, BaseGives DEF KeptInv
    <2>2. \A c, n : Before(pending', c, n) /\ Before(flush', c, n)
      BY <1>1, <2>1, NothingIn
    <2>3. \A c, n : Before(pending, c, n)' /\ Before(flush, c, n)'
      BY <2>2 DEF Before, MessageOf
    <2>4. \A c \in Chats, n \in Ids : Covered(g, c, n)'
      BY <1>1, <2>3 DEF Covered
    <2> QED
      BY <1>1, <1>2, <1>3, <2>4, CoverNewest DEF SameFeed
  <1> QED
    BY <1>1, <1>3, <1>4, <1>5, <1>6, FeedRests DEF HostInv

\* The report of a failure, written now or kept.
LEMMA Reports ==
    ASSUME Base, Base', HostInv, Calm, NEW g \in Gens, OnError(g), PollerStep(g)
    PROVE  HostInv' /\ Follows
  <1> SUFFICES ASSUME NEW r, r = LiveError(g) PROVE HostInv' /\ Follows
    OBVIOUS
  <1>1. /\ poller[g] = "report" /\ poller' = [poller EXCEPT ![g] = "clearFlag"] /\ EmitLive(r)
        /\ UNCHANGED <<watches, failed, batch, turn>>
    BY DEF OnError, PollReported, PollMoves
  <1>2. /\ ServerTypeOK /\ ServerTypeOK' /\ LiveTypeOK /\ BackendInv /\ MarksInv
        /\ liveGeneration \in Nat /\ pending \in Seq(Records) /\ g \in Nat
        /\ \A h \in Gens : poller[h] \in Live => h = liveGeneration
    BY BaseGives, LiveSets DEF Base, TypeInv, ServerTypeOK, ThreadInv
  <1>3. r \in Records /\ r.what = "liveError" /\ r.gen = g /\ g <= liveGeneration
    BY <1>1, <1>2, ServerRecords DEF LiveError, Record, MarksInv
  <1>4. /\ UNCHANGED <<main, listenActive, eventsReady, flush>> /\ flush = <<>>
        /\ UNCHANGED <<baseline, liveGeneration, latest>>
        /\ poller'[g] = "clearFlag" /\ \A h \in Gens \ {g} : poller'[h] = poller[h]
    <2>1. UNCHANGED <<main, listenActive, eventsReady, flush>> /\ main # "listen.flushing"
      BY <1>1 DEF EmitLive, local, OutputFree
    <2> QED
      BY <1>1, <1>2, <2>1, BaseGives, PollerElse DEF LiveTypeOK
  <1>5. \A h \in Gens : /\ poller'[h] \in Live => poller[h] \in Live /\ h # g
                        /\ poller'[h] \in Polling => poller[h] \in Polling
    BY <1>4 DEF Live, Polling
  <1>6. CASE eventsReady
    <2>1. /\ out' = Append(out, r) /\ pending' = pending /\ pending = <<>>
          /\ main \notin {"listen.start", "listen.flag", "listen.reply", "listen.flush"}
      BY <1>1, <1>6, BaseGives DEF EmitLive, Write, KeptInv
    <2>2. /\ WireInv' /\ (FeedOn' <=> FeedOn /\ g # liveGeneration)
          /\ \A c \in Chats : Given(c)' = IF FeedOn' THEN Given(c) ELSE 0
      BY <1>2, <1>3, <1>4, <2>1, WireReports DEF HostInv
    <2>3. ~ReportKept /\ ~ReportKept' /\ Tidy(pending)' /\ Tidy(flush)'
      <3>1. ~ReportKept /\ Tidy(pending) /\ Tidy(flush)
        BY <1>4, <2>1, NothingIn DEF ReportKept
      <3>2. UNCHANGED <<liveGeneration, pending, flush>>
        BY <1>4, <2>1
      <3> QED
        BY <3>1, <3>2, SameLists
    <2>4. FlagInv'
      <3>1. \A h \in Gens : poller'[h] \in Polling /\ eventsReady => FeedOn'
        BY <1>2, <1>5, <2>2 DEF HostInv, FlagInv, Live, Polling
      <3>2. \A h \in Gens : h = liveGeneration /\ poller'[h] = "clearFlag" => ~FeedOn'
        BY <1>4, <2>2, <2>3 DEF HostInv, FlagInv
      <3> QED
        BY <1>4, <1>5, <2>1, <2>2, <2>3, <3>1, <3>2 DEF HostInv, FlagInv
    <2>5. TidyInv'
      <3>1. \A k \in DOMAIN flush' : FALSE
        BY <1>4, NothingIn
      <3> QED
        BY <1>4, <2>1, <2>3, <3>1 DEF TidyInv
    <2>6. CoverInv'
      <3>1. CASE FeedOn'
        <4>1. SameFeed /\ g # liveGeneration
          BY <2>2, <3>1 DEF SameFeed
        <4> QED
          BY <1>4, <2>1, <4>1, CoverElse
      <3>2. CASE ~FeedOn'
        BY <1>4, <2>1, <3>2 DEF CoverInv
      <3> QED
        BY <3>1, <3>2
    <2>7. Follows
      <3>1. CASE FeedOn /\ g = liveGeneration
        BY <1>4, <2>2, <3>1, FeedStops
      <3>2. CASE FeedOn /\ g # liveGeneration
        BY <1>4, <2>2, <3>2, FeedRests DEF SameFeed
      <3>3. CASE ~FeedOn
        BY <1>2, <1>4, <2>2, <3>3, OffGiven, FeedRests DEF HostInv, SameFeed
      <3> QED
        BY <3>1, <3>2, <3>3
    <2> QED
      BY <2>2, <2>4, <2>5, <2>6, <2>7 DEF HostInv
  <1>7. CASE ~eventsReady
    <2>1. pending' = Append(pending, r) /\ out' = out
      BY <1>1, <1>7 DEF EmitLive
    <2>2. WireInv' /\ SameFeed
      BY <1>2, <1>4, <2>1, WireStill DEF HostInv, SameFeed
    <2>3. /\ \A k \in DOMAIN pending : pending'[k] = pending[k] /\ k \in DOMAIN pending'
                                       /\ k < Len(pending) + 1
          /\ \A k \in DOMAIN pending' : k \in DOMAIN pending \/ k = Len(pending) + 1
          /\ Len(pending) + 1 \in DOMAIN pending' /\ pending'[Len(pending) + 1] = r
          /\ Len(pending) \in Nat /\ DOMAIN pending = 1..Len(pending)
      BY <1>2, <1>3, <2>1, Appended
    <2>4. ReportKept' <=> ReportKept \/ g = liveGeneration
      <3>1. IsReport(r) <=> g = liveGeneration
        BY <1>3 DEF IsReport
      <3> QED
        BY <1>4, <2>3, <3>1 DEF ReportKept, ReportIn, IsReport
    <2>5. FlagInv'
      BY <1>4, <1>5, <1>7, <2>2, <2>4 DEF HostInv, FlagInv, SameFeed
    <2>6. TidyInv'
      <3>1. \A k \in DOMAIN pending' : pending'[k].what = "message" =>
              /\ k \in DOMAIN pending /\ pending'[k] = pending[k]
              /\ \A j \in DOMAIN pending' : j < k => j \in DOMAIN pending /\ pending'[j] = pending[j]
        <4>1. \A k \in DOMAIN pending' : pending'[k].what = "message" => k # Len(pending) + 1
          BY <1>3, <2>3
        <4>2. \A k \in DOMAIN pending, j \in DOMAIN pending' : j < k => j # Len(pending) + 1
          BY <2>3
        <4> QED
          BY <2>3, <4>1, <4>2
      <3>2. \A k \in DOMAIN pending' : pending'[k].gen <= liveGeneration
        BY <1>3, <2>3 DEF HostInv, TidyInv, Tidy
      <3>3. Tidy(pending')
        BY <3>1, <3>2 DEF HostInv, TidyInv, Tidy
      <3>4. Tidy(pending)' /\ (Tidy(flush)' <=> Tidy(flush))
        BY <1>4, <3>3 DEF Tidy, IsReport
      <3>5. main' = "listen.start" => \A k \in DOMAIN pending' : pending'[k].what # "message"
        BY <1>4, <3>1 DEF HostInv, TidyInv
      <3> QED
        BY <1>4, <2>2, <3>4, <3>5 DEF HostInv, TidyInv, SameFeed
    <2>7. CoverInv'
      <3>1. \A c, n : /\ Holds(pending, c, n) => Holds(pending', c, n)
                      /\ Before(pending, c, n) => Before(pending', c, n)
        BY <1>3, <2>3 DEF Holds, Before, MessageOf
      <3>2. CASE g # liveGeneration
        BY <1>4, <2>2, <3>1, <3>2, CoverElse
      <3>3. CASE g = liveGeneration
        <4> SUFFICES ASSUME NEW c \in Chats, NEW n \in Ids, Covered(g, c, n)
                     PROVE  Covered(g, c, n)'
          BY <1>1, <1>4, <2>2, <3>3, CoverNewest DEF SameFeed
        <4>1. /\ Holds(pending', c, n) <=> Holds(pending, c, n)'
              /\ Before(pending', c, n) <=> Before(pending, c, n)'
              /\ Holds(flush, c, n) <=> Holds(flush, c, n)'
              /\ Before(flush, c, n) <=> Before(flush, c, n)'
          BY <1>4 DEF Holds, Before, MessageOf
        <4> QED
          BY <1>1, <2>2, <3>1, <4>1 DEF Covered, SameFeed
      <3> QED
        BY <3>2, <3>3
    <2> QED
      BY <1>4, <2>2, <2>5, <2>6, <2>7, FeedRests DEF HostInv
  <1> QED
    BY <1>6, <1>7

\* The end of on_error: the flag it clears is its own, or was clear.
LEMMA ClearsFlag ==
    ASSUME Base, Base', HostInv, Calm, NEW g \in Gens, OnErrorClearFlag(g), PollerStep(g)
    PROVE  HostInv' /\ Follows
  <1>1. /\ poller[g] = "clearFlag" /\ listenActive' = FALSE
        /\ poller' = [poller EXCEPT ![g] = IF listenActive /\ g # liveGeneration THEN "late" ELSE "done"]
        /\ UNCHANGED <<main, eventsReady, pending, flush, out>>
        /\ UNCHANGED <<watches, failed, batch, turn, baseline, liveGeneration, latest>>
    BY DEF OnErrorClearFlag, PollFlagCleared, PollMoves, ClearListenFlag, local
  <1>2. /\ ServerTypeOK /\ ServerTypeOK' /\ LiveTypeOK
        /\ \A h \in Gens : poller[h] \in Live => h = liveGeneration
    BY BaseGives DEF Base, TypeInv, ThreadInv
  <1>3. /\ poller'[g] = "done" /\ (listenActive => g = liveGeneration)
        /\ \A h \in Gens \ {g} : poller'[h] = poller[h]
    <2>1. /\ poller'[g] = IF listenActive /\ g # liveGeneration THEN "late" ELSE "done"
          /\ \A h \in Gens \ {g} : poller'[h] = poller[h]
      BY <1>1, <1>2 DEF LiveTypeOK
    <2>2. poller'[g] # "late"
      BY DEF Calm, Void, Overtaken
    <2> QED
      BY <2>1, <2>2
  <1>4. WireInv' /\ SameFeed
    BY <1>1, <1>2, WireStill DEF HostInv, SameFeed
  <1>5. (ReportKept' <=> ReportKept) /\ (Tidy(pending)' <=> Tidy(pending))
        /\ (Tidy(flush)' <=> Tidy(flush))
    BY <1>1, SameLists
  <1>6. FlagInv'
    <2>1. \A h \in Gens : poller'[h] \in Live => poller[h] \in Live /\ h # g
      BY <1>3 DEF Live, Polling
    <2>2. \A h \in Gens : poller'[h] \in Live => main = "listen.flag"
      BY <1>2, <1>3, <2>1 DEF HostInv, FlagInv
    <2>3. FeedOn \/ main = "listen.reply" => ReportKept \/ main = "stop.reply"
      BY <1>1, <1>3 DEF HostInv, FlagInv
    <2>4. \A h \in Gens : /\ poller'[h] = "clearFlag" => poller[h] = "clearFlag"
                          /\ poller'[h] \in Polling => poller[h] \in Polling
                          /\ poller[h] \in {"clearFlag"} \cup Over =>
                               poller'[h] \in {"clearFlag"} \cup Over
      BY <1>3 DEF Polling, Over
    <2> QED
      BY <1>1, <1>4, <1>5, <2>2, <2>3, <2>4 DEF HostInv, FlagInv, SameFeed
  <1>7. TidyInv'
    BY <1>1, <1>4, <1>5 DEF HostInv, TidyInv, SameFeed
  <1>8. CoverInv'
    <2>1. \A h \in Gens, c \in Chats, n \in Ids : Covered(h, c, n) => Covered(h, c, n)'
      <3> SUFFICES ASSUME NEW h \in Gens, NEW c \in Chats, NEW n \in Ids, Covered(h, c, n)
                   PROVE  Covered(h, c, n)'
        OBVIOUS
      <3>1. poller[h] = "emit" => poller'[h] = "emit"
        BY <1>1, <1>3
      <3> QED
        BY <1>1, <1>4, <3>1 DEF Covered, SameFeed, Holds, Before, MessageOf
    <2> QED
      BY <1>1, <1>4, <2>1 DEF HostInv, CoverInv, SameFeed
  <1> QED
    BY <1>1, <1>4, <1>6, <1>7, <1>8, FeedRests DEF HostInv
-----------------------------------------------------------------------------
(***************************************************************************)
(* The whole.                                                              *)
(***************************************************************************)
LEMMA QuietFollows ==
    ASSUME Base, Base', HostInv, Calm, QuietStep, latest' = latest
    PROVE  HostInv' /\ Follows
  <1>1. ServerTypeOK /\ ServerTypeOK'
    BY DEF Base, TypeInv
  <1> QED
    BY <1>1, QuietHost, FeedRests

LEMMA HandlesFollow ==
    ASSUME ~LongTexts, Base, Base', HostInv, Calm, HandlesRequest, UNCHANGED liveVars
    PROVE  HostInv' /\ Follows
  <1>1. CASE QuietHandler
    BY <1>1, HandlesQuiet, QuietFollows, BaseGives DEF liveVars
  <1>2. CASE StopCheck /\ ~listenActive
    BY <1>2, StopUnneeded
  <1>3. CASE StopReply
    BY <1>3, StopAnswered
  <1>4. CASE ListenArm \/ ListenFlag \/ ListenFlush
    BY <1>4, ListenArms, ListenFlags, ListenFlushes
  <1>5. CASE ListenReply(liveGeneration)
    BY <1>5, ListenAnswers
  <1>6. CASE FlushRecord
    <2>1. flush \in Seq(Records) /\ flush # <<>> /\ KeptLive
      BY <1>6, BaseGives DEF FlushRecord, Base, ServerTypeOK
    <2>2. Head(flush) = flush[1] /\ 1 \in DOMAIN flush
      BY <2>1, TailLists
    <2>3. Head(flush).what \in {"message", "liveError"}
      BY <2>1, <2>2 DEF KeptLive, LiveRecord
    <2> QED
      BY <1>6, <2>3, FlushesMessage, FlushesReport
  <1>7. ~FlushRaises
    BY FlushTears DEF Calm
  <1> QED
    BY <1>1, <1>2, <1>3, <1>4, <1>5, <1>6, <1>7 DEF HandlesRequest, QuietHandler

LEMMA CallsFollow ==
    ASSUME Base, Base', HostInv, Calm, CallsBackend
    PROVE  HostInv' /\ Follows
  <1>1. CASE CallStart \/ CallStop \/ CallStopSignals \/ (CallStopReturns /\ CloseReturned)
    <2>1. latest' = latest
      BY <1>1 DEF CallStart, CallStop, CallStopSignals, CallStopReturns, StartPrepare, StopSwap,
         StopSet, StopNothing, StopJoined, liveVars
    <2> QED
      BY <1>1, <2>1, CallsQuiet, QuietFollows
  <1>2. CASE CallStartRefused \/ CallStartFails
    BY <1>2, ListenAborts
  <1>3. CASE CallStartReturns
    BY <1>3, ListenStarts
  <1>4. CASE CallStopReturns /\ StopReturned
    BY <1>4, StopReturns
  <1> QED
    BY <1>1, <1>2, <1>3, <1>4 DEF CallsBackend, CallStopReturns

LEMMA ThreadFollows ==
    ASSUME ~LongTexts, Base, Base', HostInv, Calm, NEW g \in Gens, LiveThread(g), PollerStep(g)
    PROVE  HostInv' /\ Follows
  <1>1. ~OnErrorRaises(g)
    BY DEF OnErrorRaises, EmitRaises, MayRaise, Overflows, LiveError, Record
  <1> QED
    BY <1>1, PollsOn, Delivers, DeliverFails, Reports, ClearsFlag DEF LiveThread

LEMMA HostStep ==
    ASSUME ~LongTexts, Base, Base', HostInv, Calm, [Next]_vars
    PROVE  HostInv' /\ Follows
  <1>1. CASE Reads /\ UNCHANGED liveVars
    BY <1>1, ReadsQuiet, QuietFollows, BaseGives DEF liveVars
  <1>2. CASE HandlesRequest /\ UNCHANGED liveVars
    BY <1>2, HandlesFollow
  <1>3. CASE CallsBackend
    BY <1>3, CallsFollow
  <1>4. CASE \E g \in Gens : LiveThread(g) /\ PollerStep(g)
    BY <1>4, ThreadFollows
  <1>5. CASE Telegram
    <2>1. QuietStep
      BY <1>5 DEF Telegram, NewMessage, QuietStep, threadMarks, threadVars, lists, serverVars, flags,
         local
    <2>2. PICK c \in Chats : latest' = [latest EXCEPT ![c] = @ + 1]
      BY <1>5 DEF Telegram, NewMessage
    <2>3. ServerTypeOK /\ ServerTypeOK' /\ LiveTypeOK
      BY BaseGives DEF Base, TypeInv
    <2>4. HostInv' /\ SameFeed
      BY <2>1, <2>3, QuietHost
    <2> QED
      BY <2>2, <2>3, <2>4, FeedPosts
  <1>6. CASE UNCHANGED vars
    <2>1. QuietStep /\ latest' = latest
      BY <1>6 DEF vars, liveVars, QuietStep, threadMarks, threadVars, lists, serverVars, flags, local
    <2> QED
      BY <2>1, QuietFollows
  <1> QED
    BY <1>1, <1>2, <1>3, <1>4, <1>5, <1>6, StepKinds

LEMMA BaseStep ==
    ASSUME ~LongTexts, Base, [Next]_vars
    PROVE  Base'
  BY TypeStep, RegistryStep, FeedStep, StrandedStep, OrderStep, KeptLiveStep, ThreadStep, AnswerStep
     DEF Base

LEMMA BaseInit == Init => Base
  <1> SUFFICES ASSUME Init PROVE Base
    OBVIOUS
  <1>1. NoStrandedRecords /\ AnswerInv
    BY DEF Init, ServerInit, NoStrandedRecords, AnswerInv, Answering
  <1> QED
    BY <1>1, TypeInit, RegistryInit, FeedInit, OrderInit, KeptLiveInit, ThreadInit DEF Base

LEMMA FeedStarts == Init => HostInv /\ Feed!Init
  <1> SUFFICES ASSUME Init PROVE HostInv /\ Feed!Init
    OBVIOUS
  <1>1. /\ out = <<>> /\ pending = <<>> /\ flush = <<>> /\ main = "read" /\ latest = NoMarks
        /\ \A g \in Gens : poller[g] = "unborn"
    BY DEF Init, ServerInit, LiveInit
  <1>2. ServerTypeOK
    BY BaseInit, BaseGives
  <1>3. \A k \in Places : FALSE
    BY <1>1, NothingIn DEF Places
  <1>4. Controls = {}
    BY <1>3 DEF Controls
  <1>5. HasLargest(Controls \cup {0}) /\ LastControl = 0
    <2>1. {0} \in SUBSET Nat /\ 0 \in {0} /\ \A m \in {0} : m <= 0
      OBVIOUS
    <2>2. HasLargest({0}) /\ Largest({0}) = 0
      BY <2>1, LargestIs
    <2>3. Controls \cup {0} = {0}
      BY <1>4
    <2> QED
      BY <2>2, <2>3 DEF LastControl
  <1>6. ~FeedOn
    BY <1>5 DEF FeedOn
  <1>7. \A c \in Chats : GivenOf(c) = {}
    <2>1. out \in Seq(Records) /\ 0 \in Nat
      BY <1>2 DEF ServerTypeOK
    <2>2. \A c, n : n \notin GivenIn(out, 0, c)
      BY <1>3, <2>1, GivenIs DEF Places
    <2> QED
      BY <1>5, <2>2, GivenOfIs
  <1>8. WireInv
    BY <1>3, <1>5, <1>6, <1>7 DEF WireInv
  <1>9. \A c \in Chats : Given(c) = 0
    BY <1>2, <1>6, <1>8, OffGiven
  <1>10. ~ReportKept /\ Tidy(pending) /\ Tidy(flush) /\ \A k \in DOMAIN flush : FALSE
    BY <1>1, NothingIn DEF ReportKept
  <1>11. FlagInv /\ TidyInv /\ CoverInv
    BY <1>1, <1>6, <1>10 DEF FlagInv, TidyInv, CoverInv, Live, Polling
  <1>12. Feed!Init
    <2>1. latest = [c \in Chats |-> 0] /\ [c \in Chats |-> Given(c)] = [c \in Chats |-> 0]
      BY <1>1, <1>9 DEF NoMarks
    <2>2. FeedOn = FALSE
      BY <1>6
    <2>3. (Overtaken \/ FlushTorn) = FALSE
      BY <1>1, <1>3 DEF Overtaken, FlushTorn
    <2> QED
      BY <2>1, <2>2, <2>3 DEF Feed!Init, Feed!Nothing
  <1> QED
    BY <1>8, <1>11, <1>12 DEF HostInv

(***************************************************************************)
(* server.py and telethon_backend.py implement LiveFeed, for any number of *)
(* chats, messages, listeners and requests, whichever records are too long *)
(* to flush: while its listener is accepted the host is given the messages *)
(* of each chat one by one, on topic, in order and with nothing skipped,   *)
(* and none when it is not, until a late report or a torn flush voids the  *)
(* promise.  Responses and reports themselves must fit.                    *)
(***************************************************************************)
THEOREM FeedKept ==
    ASSUME ~LongTexts
    PROVE  Spec => ImplementsFeed
  <1> DEFINE Inv == Base /\ (Void \/ HostInv)
  <1>1. Init => Inv /\ Feed!Init
    BY BaseInit, FeedStarts
  <1>2. Inv /\ [Next]_vars => Inv' /\ [Feed!Next]_(Feed!feedVars)
    <2> SUFFICES ASSUME Inv, [Next]_vars PROVE Inv' /\ [Feed!Next]_(Feed!feedVars)
      OBVIOUS
    <2>1. Base /\ Base'
      BY BaseStep
    <2>2. CASE Void'
      <3>1. (Overtaken \/ FlushTorn)' = TRUE
        BY <2>2 DEF Void
      <3> QED
        BY <2>1, <2>2, <3>1 DEF Feed!Next, Feed!Disturb
    <2>3. CASE ~Void'
      <3>1. ~Void
        BY <2>1, <2>3, VoidStays DEF Base
      <3>2. HostInv' /\ Follows
        BY <2>1, <2>3, <3>1, HostStep DEF Calm
      <3> QED
        BY <2>1, <3>2 DEF Follows
    <2> QED
      BY <2>2, <2>3
  <1> HIDE DEF Inv
  <1> QED
    BY <1>1, <1>2, PTL DEF Spec, ImplementsFeed, Feed!Spec
=============================================================================
