----------------------- MODULE TelethonRuntimeProofs -----------------------
(***************************************************************************)
(* Theorems about TelethonRuntime, for every set of polling threads, every *)
(* capacity and every number of streams and values.                        *)
(***************************************************************************)
EXTENDS TelethonRuntime, SequenceTheorems, TLAPS

(***************************************************************************)
(* What tasks and items are.                                               *)
(***************************************************************************)
LEMMA TaskFacts ==
    /\ \A t \in Tasks : t.kind = "call" => t.from \in Callers /\ t = CallTask(t.from)
    /\ \A t \in Tasks : t.kind = "stream" => t.stream \in Streams /\ t = StreamTask(t.stream)
    /\ \A t \in Tasks : t.kind \notin {"call", "stream"} => t = StopTask /\ t.kind = "stop"
    /\ NoTask \notin Tasks /\ NoTask.kind = "none"
    /\ \A c \in Callers : CallTask(c) \in Tasks /\ CallTask(c).kind = "call"
    /\ \A s \in Streams : StreamTask(s) \in Tasks /\ StreamTask(s).kind = "stream"
    /\ StopTask \in Tasks /\ StopTask.kind = "stop"
  <1>1. ASSUME NEW t \in Tasks
        PROVE  \/ \E c \in Callers : t = CallTask(c) /\ t.kind = "call" /\ t.from = c
               \/ \E s \in Streams : t = StreamTask(s) /\ t.kind = "stream" /\ t.stream = s
               \/ t = StopTask /\ t.kind = "stop"
    BY DEF Tasks, CallTask, StreamTask, StopTask
  <1>2. NoTask.kind = "none"
    BY DEF NoTask
  <1>3. /\ \A c \in Callers : CallTask(c) \in Tasks /\ CallTask(c).kind = "call"
        /\ \A s \in Streams : StreamTask(s) \in Tasks /\ StreamTask(s).kind = "stream"
        /\ StopTask \in Tasks /\ StopTask.kind = "stop"
    BY DEF Tasks, CallTask, StreamTask, StopTask
  <1> QED
    BY <1>1, <1>2, <1>3

LEMMA ItemFacts ==
    /\ \A item \in Items : item.what = "value" => item.n \in 1..MaxItems
    /\ \A item \in Items : item.what # "value" => item = Failure \/ item = Done
    /\ \A n \in 1..MaxItems : Value(n) \in Items /\ Value(n).what = "value" /\ Value(n).n = n
    /\ Failure \in Items /\ Failure.what = "failed"
    /\ Done \in Items /\ Done.what = "done"
  BY DEF Items, Value, Failure, Done

LEMMA Bounds == MaxItems \in Nat /\ MaxStreams \in Nat /\ Capacity \in Nat \ {0}
  BY RuntimeAssumption

LEMMA MainCalls == Main \in Callers /\ Pollers \subseteq Callers /\ Main \notin Pollers
  BY RuntimeAssumption DEF Callers

\* The two ends of a queue.
LEMMA TailFacts ==
    ASSUME NEW S, NEW q \in Seq(S), q # <<>>
    PROVE  /\ Tail(q) \in Seq(S) /\ Len(Tail(q)) = Len(q) - 1 /\ Len(q) > 0
           /\ Head(q) \in S /\ Head(q) = q[1]
           /\ \A i \in 1..Len(Tail(q)) : Tail(q)[i] = q[i + 1]
  <1>1. Len(q) \in Nat /\ Len(q) > 0
    BY EmptySeq, LenProperties
  <1>2. Head(q) = q[1] /\ q[1] \in S
    BY <1>1, HeadTailProperties, ElementOfSeq
  <1> QED
    BY <1>1, <1>2, HeadTailProperties

LEMMA AppendFacts ==
    ASSUME NEW S, NEW q \in Seq(S), NEW e \in S
    PROVE  /\ Append(q, e) \in Seq(S) /\ Len(Append(q, e)) = Len(q) + 1 /\ Append(q, e) # <<>>
           /\ \A i \in 1..Len(q) : Append(q, e)[i] = q[i]
           /\ Append(q, e)[Len(q) + 1] = e
  BY AppendProperties, EmptySeq
-----------------------------------------------------------------------------
(***************************************************************************)
(* Type correctness.  OwnerInv is part of it: the runtime thread indexes   *)
(* the streams by its task.                                                *)
(***************************************************************************)
RoomInv == at[Main] = "ready.stream" => streams < MaxStreams

TypeInv == TypeOK /\ OwnerInv /\ RoomInv

\* A user's step from one place to another.
LEMMA GoesType ==
    ASSUME TypeOK, NEW c \in Callers, NEW from, NEW to, Goes(c, from, to),
           \/ to \in {"idle", "ready.call", "call"}
           \/ c = Main /\ to \in {"ready.stream", "get", "body", "joining"}
    PROVE  /\ at' \in [Callers -> {"idle", "ready.call", "ready.stream", "call", "get", "body",
                                   "joining"}]
           /\ \A p \in Pollers : at'[p] \in {"idle", "ready.call", "call"}
  BY MainCalls DEF TypeOK, Goes

LEMMA UsersType ==
    ASSUME TypeInv, NEW c \in Callers,
           BeginCall(c) \/ GoesOn(c) \/ BeginStream \/ MainGoesOn \/ CloseBegin
    PROVE  TypeInv'
  <1> USE DEF TypeInv
  <1> USE MainCalls
  <1>1. ASSUME NEW d \in Callers, NEW waits, EnsureStarted(d, waits),
               \/ waits = "ready.call"
               \/ d = Main /\ waits = "ready.stream" /\ streams < MaxStreams
        PROVE  TypeInv'
    <2>1. TypeOK'
      BY <1>1, GoesType DEF EnsureStarted, TypeOK, ends, history
    <2>2. OwnerInv' /\ RoomInv'
      BY <1>1 DEF EnsureStarted, Goes, TypeOK, OwnerInv, RoomInv
    <2> QED
      BY <2>1, <2>2
  <1>2. CASE BeginCall(c) \/ BeginStream
    BY <1>1, <1>2 DEF BeginCall, BeginStream
  <1>3. CASE Submit(c)
    <2>1. tasks' \in Seq(Tasks)
      BY <1>3, TaskFacts, AppendFacts DEF Submit, TypeOK
    <2>2. answer' \in [Callers -> {"none", "value", "error"}]
      BY <1>3 DEF Submit, TypeOK
    <2>3. TypeOK'
      BY <1>3, <2>1, <2>2, GoesType DEF Submit, TypeOK, owner, ends, history
    <2> QED
      BY <1>3, <2>3 DEF Submit, Goes, TypeOK, OwnerInv, RoomInv, owner
  <1>4. CASE CallReturns(c)
    <2>1. TypeOK'
      BY <1>4, GoesType DEF CallReturns, TypeOK, owner, ends, history
    <2> QED
      BY <1>4, <2>1 DEF CallReturns, Goes, TypeOK, OwnerInv, RoomInv, owner
  <1>5. CASE SubmitStream
    <2>1. streams + 1 \in Streams /\ streams + 1 \in 0..MaxStreams
      BY <1>5, Bounds DEF SubmitStream, Goes, RoomInv, TypeOK, Streams
    <2>2. tasks' \in Seq(Tasks)
      BY <1>5, <2>1, TaskFacts, AppendFacts DEF SubmitStream, TypeOK
    <2>3. TypeOK'
      BY <1>5, <2>1, <2>2, GoesType DEF SubmitStream, TypeOK, owner, ends, history
    <2> QED
      BY <1>5, <2>3 DEF SubmitStream, Goes, TypeOK, OwnerInv, RoomInv, owner
  <1>6. CASE StreamTakes
    <2> DEFINE q == output[streams]
    <2>1. CASE streams \in Streams
      <3>1. q \in Seq(Items) /\ q # <<>> /\ Len(q) <= Capacity
        BY <1>6, <2>1 DEF StreamTakes, TypeOK
      <3>2. Tail(q) \in Seq(Items) /\ Len(Tail(q)) <= Capacity /\ Head(q) \in Items
        BY <3>1, TailFacts, Bounds
      <3>3. output' \in [Streams -> Seq(Items)] /\ \A s \in Streams : Len(output'[s]) <= Capacity
        BY <1>6, <2>1, <3>2 DEF StreamTakes, TypeOK
      <3>4. got' \in [Streams -> 0..MaxItems]
        BY <1>6, <2>1, <3>2, ItemFacts, Bounds DEF StreamTakes, TypeOK
      <3>5. cancel' \in [Streams -> BOOLEAN]
        BY <1>6, <2>1 DEF StreamTakes, TypeOK
      <3>6. seen' \in [Streams -> {"open", "done", "failed", "left"}]
        <4>1. Head(q).what \in {"value", "done", "failed"}
          BY <3>2, ItemFacts
        <4> QED
          BY <1>6, <2>1, <4>1 DEF StreamTakes, TypeOK
      <3>7. TypeOK'
        BY <1>6, <3>3, <3>4, <3>5, <3>6, GoesType DEF StreamTakes, TypeOK, owner
      <3> QED
        BY <1>6, <3>7 DEF StreamTakes, Goes, TypeOK, OwnerInv, RoomInv, owner
    <2>2. CASE streams \notin Streams
      <3>1. output' = output /\ got' = got /\ cancel' = cancel /\ seen' = seen
        BY <1>6, <2>2 DEF StreamTakes, TypeOK
      <3>2. TypeOK'
        BY <1>6, <3>1, GoesType DEF StreamTakes, TypeOK, owner
      <3> QED
        BY <1>6, <3>2 DEF StreamTakes, Goes, TypeOK, OwnerInv, RoomInv, owner
    <2> QED
      BY <2>1, <2>2
  <1>7. CASE StreamResumes
    <2>1. TypeOK'
      BY <1>7, GoesType DEF StreamResumes, TypeOK, owner, ends, history
    <2> QED
      BY <1>7, <2>1 DEF StreamResumes, Goes, TypeOK, OwnerInv, RoomInv, owner
  <1>8. CASE StreamAbandoned
    <2>1. TypeOK'
      BY <1>8, GoesType DEF StreamAbandoned, TypeOK, owner
    <2> QED
      BY <1>8, <2>1 DEF StreamAbandoned, Goes, TypeOK, OwnerInv, RoomInv, owner
  <1>9. CASE CloseBegin
    <2>1. tasks' \in Seq(Tasks)
      BY <1>9, TaskFacts, AppendFacts DEF CloseBegin, TypeOK
    <2>2. TypeOK'
      BY <1>9, <2>1, GoesType DEF CloseBegin, TypeOK, owner, ends, history
    <2> QED
      BY <1>9, <2>2 DEF CloseBegin, Goes, TypeOK, OwnerInv, RoomInv, owner
  <1>10. CASE CloseJoined
    <2>1. TypeOK'
      BY <1>10, GoesType DEF CloseJoined, TypeOK, owner, ends, history
    <2> QED
      BY <1>10, <2>1 DEF CloseJoined, Goes, TypeOK, OwnerInv, RoomInv, owner
  <1> QED
    BY <1>2, <1>3, <1>4, <1>5, <1>6, <1>7, <1>8, <1>9, <1>10 DEF GoesOn, MainGoesOn

LEMMA OwnerType ==
    ASSUME TypeInv, Owner
    PROVE  TypeInv'
  <1> USE DEF TypeInv
  <1> USE MainCalls
  <1>0. task \in Tasks => /\ task.kind = "call" => task.from \in Callers
                          /\ task.kind = "stream" => task.stream \in Streams
    BY TaskFacts
  <1>1. CASE RunStarts
    BY <1>1 DEF RunStarts, Loop, TypeOK, OwnerInv, RoomInv, ends, history
  <1>2. CASE RunTakes
    <2>1. task' \in Tasks /\ tasks' \in Seq(Tasks)
      BY <1>2, TailFacts DEF RunTakes, TypeOK
    <2>2. TypeOK'
      BY <1>2, <2>1 DEF RunTakes, Loop, TypeOK, ends, history
    <2>3. task' # StopTask => task'.kind # "stop"
      BY <2>1, TaskFacts
    <2>4. OwnerInv' /\ RoomInv'
      BY <1>2, <2>1, <2>3, TaskFacts DEF RunTakes, Loop, OwnerInv, RoomInv
    <2> QED
      BY <2>2, <2>4
  <1>3. CASE Connects
    BY <1>3 DEF Connects, Loop, TypeOK, OwnerInv, RoomInv, ends, history
  <1>4. ASSUME NEW result \in {"value", "error"}, Answers(result), runtime \in {"connect", "work"}
        PROVE  TypeInv'
    BY <1>4, <1>0 DEF Answers, Loop, TypeOK, OwnerInv, RoomInv, ends, history
  <1>5. ASSUME NEW marker \in {Failure, Done}, Ends(marker), runtime \in {"connect", "work"}
        PROVE  TypeInv'
    <2>1. marker \in Items /\ marker.what \in {"failed", "done"}
      BY ItemFacts
    <2> QED
      BY <1>5, <2>1 DEF Ends, Loop, TypeOK, OwnerInv, RoomInv, ends
  <1>6. CASE ConnectFails \/ CallEnds \/ StreamEnds
    BY <1>4, <1>5, <1>6 DEF ConnectFails, CallEnds, StreamEnds
  <1>7. CASE StreamEmits
    <2>1. task.stream \in Streams
      BY <1>7, <1>0 DEF StreamEmits, OwnerInv
    <2>2. made' \in [Streams -> 0..MaxItems] /\ made'[task.stream] \in 1..MaxItems
      BY <1>7, <2>1, Bounds DEF StreamEmits, TypeOK
    <2>3. offer' \in Items
      BY <1>7, <2>2, ItemFacts DEF StreamEmits
    <2> QED
      BY <1>7, <2>2, <2>3 DEF StreamEmits, Loop, TypeOK, OwnerInv, RoomInv, ends
  <1>8. CASE PutCancelled \/ PutTries \/ PutFull
    BY <1>8 DEF PutCancelled, PutTries, PutFull, Loop, TypeOK, OwnerInv, RoomInv, ends, history
  <1>9. CASE Puts
    <2>1. task.stream \in Streams
      BY <1>9, <1>0 DEF Puts, OwnerInv
    <2> DEFINE q == output[task.stream]
    <2>2. q \in Seq(Items) /\ Len(q) < Capacity /\ offer \in Items
      BY <1>9, <2>1 DEF Puts, HasRoom, TypeOK
    <2>3. Append(q, offer) \in Seq(Items) /\ Len(Append(q, offer)) <= Capacity
      <3> HIDE DEF q
      <3> QED
        BY <2>2, AppendFacts, LenProperties, Bounds
    <2>4. output' \in [Streams -> Seq(Items)] /\ \A s \in Streams : Len(output'[s]) <= Capacity
      BY <1>9, <2>1, <2>3 DEF Puts, TypeOK
    <2>5. TypeOK'
      BY <1>9, <2>4, ItemFacts DEF Puts, AfterPut, Loop, TypeOK, history
    <2>6. OwnerInv' /\ RoomInv'
      BY <1>9 DEF Puts, AfterPut, Loop, TypeOK, OwnerInv, RoomInv
    <2> QED
      BY <2>5, <2>6
  <1>10. CASE RunEnds
    BY <1>10 DEF RunEnds, Loop, TypeOK, OwnerInv, RoomInv, ends, history
  <1> QED
    BY <1>1, <1>2, <1>3, <1>6, <1>7, <1>8, <1>9, <1>10 DEF Owner

LEMMA TypeStep == TypeInv /\ [Next]_vars => TypeInv'
  <1>1. TypeInv /\ UNCHANGED vars => TypeInv'
    BY DEF TypeInv, TypeOK, OwnerInv, RoomInv, vars, owner, ends, history
  <1> QED
    BY <1>1, UsersType, OwnerType, MainCalls DEF Next

LEMMA InitTypes == Init => TypeInv
  <1> SUFFICES ASSUME Init PROVE TypeInv
    OBVIOUS
  <1>1. <<>> \in Seq(Tasks) /\ <<>> \in Seq(Items) /\ Len(<<>>) = 0
    BY EmptySeq
  <1>2. /\ output \in [Streams -> Seq(Items)]
        /\ \A s \in Streams : Len(output[s]) <= Capacity
        /\ cancel \in [Streams -> BOOLEAN]
        /\ made \in [Streams -> 0..MaxItems] /\ got \in [Streams -> 0..MaxItems]
        /\ ended \in [Streams -> {"open", "done", "failed"}]
        /\ seen \in [Streams -> {"open", "done", "failed", "left"}]
    BY <1>1, Bounds DEF Init
  <1>3. /\ at \in [Callers -> {"idle", "ready.call", "ready.stream", "call", "get", "body",
                                "joining"}]
        /\ \A c \in Pollers : at[c] \in {"idle", "ready.call", "call"}
        /\ answer \in [Callers -> {"none", "value", "error"}]
    BY MainCalls DEF Init
  <1>4. /\ {thread, ready, client} \subseteq BOOLEAN
        /\ tasks \in Seq(Tasks) /\ runtime = "off" /\ task = NoTask /\ offer \in Items
        /\ streams \in 0..MaxStreams
    <2>1. thread \in BOOLEAN /\ ready \in BOOLEAN /\ client \in BOOLEAN
      BY Zenon DEF Init
    <2> QED
      BY <1>1, <2>1, ItemFacts, Bounds DEF Init
  <1>5. TypeOK
    BY <1>2, <1>3, <1>4 DEF TypeOK
  <1> QED
    BY <1>5, MainCalls DEF Init, TypeInv, OwnerInv, RoomInv

(***************************************************************************)
(* Every variable of the runtime keeps its type, and no output queue holds *)
(* more than its maxsize (lines 167-189).                                  *)
(***************************************************************************)
THEOREM TypeCorrect == Spec => []TypeOK
<1>1. TypeInv => TypeOK
  BY DEF TypeInv
<1> QED
  BY <1>1, InitTypes, TypeStep, PTL DEF Spec
-----------------------------------------------------------------------------
(***************************************************************************)
(* One thread at a time: ThreadInv.                                        *)
(***************************************************************************)
\* A marker that is put last is the only one.
LEMMA StopLast ==
    ASSUME tasks \in Seq(Tasks), NEW t \in Tasks, tasks' = Append(tasks, t),
           \A i \in DOMAIN tasks : tasks[i] # StopTask
    PROVE  \A i \in DOMAIN tasks' : tasks'[i] = StopTask => i = Len(tasks') /\ t = StopTask
  <1>1. /\ DOMAIN tasks = 1..Len(tasks) /\ Len(tasks) \in Nat
        /\ DOMAIN tasks' = 1..Len(tasks') /\ Len(tasks') = Len(tasks) + 1
    BY AppendFacts, LenProperties
  <1>2. /\ \A i \in 1..Len(tasks) : tasks'[i] = tasks[i]
        /\ tasks'[Len(tasks) + 1] = t
    BY AppendFacts
  <1> QED
    BY <1>1, <1>2

LEMMA UsersThread ==
    ASSUME TypeInv, ThreadInv, NEW c \in Callers,
           BeginCall(c) \/ GoesOn(c) \/ BeginStream \/ MainGoesOn \/ CloseBegin
    PROVE  ThreadInv'
  <1> USE MainCalls
  <1>0. at \in [Callers -> {"idle", "ready.call", "ready.stream", "call", "get", "body", "joining"}]
    BY DEF TypeInv, TypeOK
  <1>1. ASSUME NEW d \in Callers, NEW waits \in {"ready.call", "ready.stream"},
               EnsureStarted(d, waits)
        PROVE  ThreadInv'
    BY <1>0, <1>1 DEF EnsureStarted, Goes, ThreadInv, TypeInv, OwnerInv
  <1>2. CASE BeginCall(c) \/ BeginStream
    BY <1>1, <1>2 DEF BeginCall, BeginStream
  <1>3. CASE Submit(c)
    <2>1. at[Main] # "joining"
      BY <1>0, <1>3 DEF Submit, Goes, ThreadInv, Callers
    <2>2. \A i \in DOMAIN tasks' : tasks'[i] # StopTask
      <3>1. CallTask(c) \in Tasks /\ CallTask(c) # StopTask
        BY TaskFacts
      <3> QED
        BY <1>3, <2>1, <3>1, StopLast DEF Submit, ThreadInv, TypeInv, TypeOK
    <2> QED
      BY <1>0, <1>3, <2>1, <2>2 DEF Submit, Goes, ThreadInv, owner
  <1>4. CASE SubmitStream
    <2>1. at[Main] # "joining"
      BY <1>0, <1>4 DEF SubmitStream, Goes
    <2>2. \A i \in DOMAIN tasks' : tasks'[i] # StopTask
      <3>1. streams + 1 \in Streams
        BY <1>4, Bounds DEF SubmitStream, Goes, TypeInv, RoomInv, TypeOK, Streams
      <3>2. StreamTask(streams + 1) \in Tasks /\ StreamTask(streams + 1) # StopTask
        BY <3>1, TaskFacts
      <3> QED
        BY <1>4, <2>1, <3>2, StopLast DEF SubmitStream, ThreadInv, TypeInv, TypeOK
    <2> QED
      BY <1>0, <1>4, <2>1, <2>2 DEF SubmitStream, Goes, ThreadInv, owner
  <1>5. CASE CloseBegin
    <2>1. \A i \in DOMAIN tasks' : tasks'[i] = StopTask => i = Len(tasks')
      BY <1>0, <1>5, StopLast, TaskFacts DEF CloseBegin, Goes, ThreadInv, TypeInv, TypeOK
    <2> QED
      BY <1>0, <1>5, <2>1 DEF CloseBegin, Goes, ThreadInv, Callers, owner
  <1>6. CASE CallReturns(c) \/ StreamTakes \/ StreamResumes \/ StreamAbandoned
    <2>1. UNCHANGED <<thread, tasks, runtime>>
      BY <1>6 DEF CallReturns, StreamTakes, StreamResumes, StreamAbandoned, owner
    <2>2. PICK d \in Callers, to \in {"idle", "body", "get"} :
            /\ at[d] \notin {"idle", "joining"} /\ at' = [at EXCEPT ![d] = to]
            /\ d # Main => to = "idle"
      BY <1>6 DEF CallReturns, StreamTakes, StreamResumes, StreamAbandoned, Goes
    <2>3. at'[Main] = "joining" <=> at[Main] = "joining"
      BY <1>0, <2>2
    <2>4. \A e \in Callers : at'[e] # "idle" => at[e] # "idle"
      BY <1>0, <2>2
    <2> QED
      BY <2>1, <2>3, <2>4 DEF ThreadInv, Callers
  <1>7. CASE CloseJoined
    <2>1. tasks' = <<>> /\ DOMAIN tasks' = {} /\ runtime' = "off" /\ thread' = FALSE
      BY <1>7, EmptySeq DEF CloseJoined, Goes, ThreadInv, TypeInv, OwnerInv, owner
    <2>2. \A c2 \in Callers : at'[c2] = "idle"
      BY <1>0, <1>7 DEF CloseJoined, Goes, ThreadInv, Callers
    <2> QED
      BY <2>1, <2>2 DEF ThreadInv
  <1> QED
    BY <1>2, <1>3, <1>4, <1>5, <1>6, <1>7 DEF GoesOn, MainGoesOn

LEMMA OwnerThread ==
    ASSUME TypeInv, ThreadInv, Owner
    PROVE  ThreadInv'
  <1>1. CASE RunTakes
    <2>1. /\ tasks' \in Seq(Tasks) /\ Len(tasks') = Len(tasks) - 1 /\ Len(tasks) > 0
          /\ task' \in Tasks /\ task' = tasks[1]
          /\ \A i \in 1..Len(tasks') : tasks'[i] = tasks[i + 1]
      BY <1>1, TailFacts DEF RunTakes, TypeInv, TypeOK
    <2>2. /\ DOMAIN tasks = 1..Len(tasks) /\ Len(tasks) \in Nat
          /\ DOMAIN tasks' = 1..Len(tasks') /\ Len(tasks') \in Nat
      BY <2>1, LenProperties DEF TypeInv, TypeOK
    <2>3. \A i \in DOMAIN tasks' : tasks'[i] = StopTask => i = Len(tasks') /\ at[Main] = "joining"
      BY <2>1, <2>2 DEF ThreadInv
    <2>4. task' = StopTask => tasks' = <<>> /\ at[Main] = "joining"
      <3>1. 1 \in DOMAIN tasks /\ (Len(tasks') = 0 => tasks' = <<>>)
        BY <2>1, <2>2, EmptySeq
      <3>2. tasks[1] = StopTask => 1 = Len(tasks) /\ at[Main] = "joining"
        BY <3>1 DEF ThreadInv
      <3> QED
        BY <2>1, <2>2, <3>1, <3>2
    <2>5. runtime' = "ending" => task' = StopTask
      BY <1>1, <2>1, TaskFacts DEF RunTakes, Loop
    <2> QED
      BY <1>1, <2>3, <2>4, <2>5 DEF RunTakes, Loop, ThreadInv
  <1>2. CASE RunEnds
    BY <1>2 DEF RunEnds, Loop, ThreadInv
  <1>3. CASE RunStarts
    BY <1>3 DEF RunStarts, Loop, ThreadInv
  <1>4. CASE ~RunTakes /\ ~RunEnds /\ ~RunStarts
    <2>1. /\ UNCHANGED <<at, thread, ready, tasks>>
          /\ runtime' \in {"get", "work", "check", "put"}
      BY <1>4 DEF Owner, Connects, ConnectFails, CallEnds, StreamEmits, StreamEnds, Answers, Ends,
                  PutCancelled, PutTries, Puts, AfterPut, PutFull, Loop
    <2> QED
      BY <2>1 DEF ThreadInv
  <1> QED
    BY <1>1, <1>2, <1>3, <1>4

LEMMA ThreadStep == TypeInv /\ ThreadInv /\ [Next]_vars => ThreadInv'
  <1>1. ThreadInv /\ UNCHANGED vars => ThreadInv'
    BY DEF ThreadInv, vars, owner
  <1> QED
    BY <1>1, UsersThread, OwnerThread, MainCalls DEF Next

\* What ThreadInv makes of close: nothing is left when it has returned.
CleanInv == ClosedIsClean /\ TypeInv /\ ThreadInv

LEMMA CleanStep == CleanInv /\ [Next]_vars => CleanInv'
  <1> SUFFICES ASSUME CleanInv, [Next]_vars PROVE ClosedIsClean'
    BY TypeStep, ThreadStep DEF CleanInv
  <1> USE MainCalls DEF CleanInv
  <1>1. CASE UNCHANGED vars
    BY <1>1 DEF vars, owner, ClosedIsClean
  <1>2. ASSUME NEW c \in Callers, BeginCall(c) \/ GoesOn(c) \/ BeginStream \/ MainGoesOn \/ CloseBegin
        PROVE  ClosedIsClean'
    <2>1. CASE CloseJoined
      BY <2>1 DEF CloseJoined, Goes, ClosedIsClean, ThreadInv, TypeInv, OwnerInv, owner
    <2>2. CASE BeginCall(c) \/ BeginStream
      BY <2>2 DEF BeginCall, BeginStream, EnsureStarted, ClosedIsClean
    <2>3. CASE ~CloseJoined /\ ~BeginCall(c) /\ ~BeginStream
      <3>1. thread /\ UNCHANGED thread
        BY <1>2, <2>3 DEF GoesOn, MainGoesOn, Submit, CallReturns, SubmitStream, StreamTakes,
              StreamResumes, StreamAbandoned, CloseBegin, Goes, ThreadInv
      <3> QED
        BY <3>1 DEF ClosedIsClean
    <2> QED
      BY <2>1, <2>2, <2>3
  <1>3. CASE Owner
    <2>1. thread /\ UNCHANGED thread
      BY <1>3 DEF Owner, RunStarts, RunTakes, RunEnds, Connects, ConnectFails, CallEnds,
                  StreamEmits, StreamEnds, Answers, Ends, PutCancelled, PutTries, Puts, AfterPut,
                  PutFull, Loop, ClosedIsClean
    <2> QED
      BY <2>1 DEF ClosedIsClean
  <1> QED
    BY <1>1, <1>2, <1>3 DEF Next

LEMMA InitThread == Init => CleanInv
  BY InitTypes, EmptySeq, MainCalls DEF Init, CleanInv, ThreadInv, ClosedIsClean

(***************************************************************************)
(* When close has returned, the thread has ended, its client is            *)
(* disconnected and its queue is empty (lines 195-204).                    *)
(***************************************************************************)
THEOREM CloseLeavesNothing == Spec => []ClosedIsClean
<1>1. CleanInv => ClosedIsClean
  BY DEF CleanInv
<1> QED
  BY <1>1, InitThread, CleanStep, PTL DEF Spec
-----------------------------------------------------------------------------
(***************************************************************************)
(* Streams that are queued or not started are untouched: StreamInv.        *)
(***************************************************************************)
\* A stream's task tells the stream.
LEMMA CurrentStream ==
    ASSUME TypeInv, NEW s \in Streams
    PROVE  Current(s) <=> task.kind = "stream" /\ task.stream = s
  <1>1. task = NoTask \/ task \in Tasks
    BY DEF TypeInv, TypeOK
  <1>2. NoTask.kind # "stream" /\ NoTask # StreamTask(s) /\ StreamTask(s).stream = s
        /\ StreamTask(s).kind = "stream"
    BY DEF NoTask, StreamTask
  <1> QED
    BY <1>1, <1>2, TaskFacts DEF Current

\* Except when it takes a task, the thread touches its current stream only.
LEMMA OwnerFrame ==
    ASSUME TypeInv, Owner, ~RunTakes
    PROVE  /\ UNCHANGED <<at, thread, tasks, streams, cancel, got, seen>>
           /\ task' = task \/ task' = NoTask
           /\ \A s \in Streams : ~Current(s) =>
                output'[s] = output[s] /\ made'[s] = made[s] /\ ended'[s] = ended[s]
  <1>1. CASE StreamEmits
    BY <1>1, CurrentStream DEF StreamEmits, Loop, ends, TypeInv, TypeOK
  <1>2. CASE Puts
    <2>1. \A s \in Streams : ~Current(s) => s # task.stream
      BY <1>2, CurrentStream DEF Puts, TypeInv, OwnerInv
    <2> QED
      BY <1>2, <2>1 DEF Puts, AfterPut, Loop, history, TypeInv, TypeOK
  <1>3. ASSUME NEW marker, Ends(marker)
        PROVE  /\ UNCHANGED <<at, thread, tasks, streams, cancel, got, seen, output, made, task>>
               /\ \A s \in Streams : ~Current(s) => ended'[s] = ended[s]
    BY <1>3, CurrentStream DEF Ends, Loop, ends, TypeInv, TypeOK
  <1>4. CASE ~StreamEmits /\ ~Puts /\ \A marker \in {Failure, Done} : ~Ends(marker)
    BY <1>4 DEF Owner, RunStarts, Connects, ConnectFails, CallEnds, StreamEnds, Answers,
                PutCancelled, PutTries, PutFull, RunEnds, Loop, ends, history
  <1> QED
    BY <1>1, <1>2, <1>3, <1>4

\* A queued task keeps its place, or moves up by one.
LEMMA StreamFrame ==
    ASSUME TypeInv, StreamInv, UNCHANGED <<tasks, streams>>,
           at'[Main] \in {"get", "body"} =>
              /\ at[Main] \in {"get", "body"} /\ UNCHANGED <<cancel, seen>>
              /\ at'[Main] = "body" => got'[streams] > 0,
           task' = task \/ task' = NoTask,
           \A s \in Streams : Untouched(s) /\ ~Current(s) => Untouched(s)'
    PROVE  StreamInv'
  <1>1. ASSUME NEW s \in Streams, ~Current(s)
        PROVE  ~Current(s)'
    BY <1>1 DEF Current, StreamTask, NoTask
  <1> QED
    BY <1>1 DEF StreamInv

LEMMA UsersStream ==
    ASSUME TypeInv, StreamInv, NEW c \in Callers,
           BeginCall(c) \/ GoesOn(c) \/ BeginStream \/ MainGoesOn \/ CloseBegin
    PROVE  StreamInv'
  <1> USE MainCalls
  <1>0. /\ at \in [Callers -> {"idle", "ready.call", "ready.stream", "call", "get", "body", "joining"}]
        /\ tasks \in Seq(Tasks) /\ streams \in 0..MaxStreams
    BY DEF TypeInv, TypeOK
  <1>1. ASSUME NEW t \in Tasks, t.kind # "stream", tasks' = Append(tasks, t),
               UNCHANGED <<streams, task, output, cancel, made, got, ended, seen>>,
               at'[Main] \in {"get", "body"} => at'[Main] = at[Main]
        PROVE  StreamInv'
    <2>1. /\ DOMAIN tasks = 1..Len(tasks) /\ DOMAIN tasks' = 1..(Len(tasks) + 1)
          /\ \A i \in 1..Len(tasks) : tasks'[i] = tasks[i]
          /\ tasks'[Len(tasks) + 1] = t /\ Len(tasks) \in Nat
      BY <1>0, <1>1, AppendFacts, LenProperties
    <2>2. \A s : Untouched(s)' = Untouched(s) /\ Current(s)' = Current(s)
      BY <1>1 DEF Untouched, Current, StreamTask
    <2>3. \A s \in Streams : \A i \in DOMAIN tasks' : tasks'[i] = StreamTask(s) =>
            i \in DOMAIN tasks /\ tasks[i] = StreamTask(s)
      BY <1>1, <2>1, TaskFacts
    <2> QED
      BY <1>1, <2>1, <2>2, <2>3 DEF StreamInv
  <1>2. CASE Submit(c)
    BY <1>0, <1>1, <1>2, TaskFacts DEF Submit, Goes, owner, ends, history
  <1>3. CASE CloseBegin
    BY <1>0, <1>1, <1>3, TaskFacts DEF CloseBegin, Goes, owner, ends, history
  <1>4. CASE SubmitStream
    <2>00. PICK new \in Streams : new = streams + 1
      BY <1>4, Bounds DEF SubmitStream, Goes, TypeInv, RoomInv, TypeOK, Streams
    <2>0. new = streams + 1 /\ new > streams /\ StreamTask(new) \in Tasks
      BY <1>0, <2>00, TaskFacts
    <2>1. /\ DOMAIN tasks = 1..Len(tasks) /\ DOMAIN tasks' = 1..(Len(tasks) + 1)
          /\ \A i \in 1..Len(tasks) : tasks'[i] = tasks[i]
          /\ tasks'[Len(tasks) + 1] = StreamTask(new) /\ Len(tasks) \in Nat
      BY <1>0, <1>4, <2>0, AppendFacts, LenProperties DEF SubmitStream
    <2>2. \A s : Untouched(s)' = Untouched(s) /\ Current(s)' = Current(s)
      BY <1>4 DEF SubmitStream, Untouched, Current, StreamTask, owner, ends, history
    <2>3. Untouched(new) /\ ~Current(new)
      BY <2>0 DEF StreamInv
    <2>4. \A s \in Streams : StreamTask(s) = StreamTask(new) => s = new
      BY DEF StreamTask
    <2>5. \A i \in DOMAIN tasks : tasks[i] # StreamTask(new)
      BY <1>0, <2>0 DEF StreamInv
    <2>6. streams' = new /\ at'[Main] = "get"
      BY <1>0, <1>4, <2>0 DEF SubmitStream, Goes
    <2>7. \A s \in Streams : \A i \in DOMAIN tasks' : tasks'[i] = StreamTask(s) =>
            /\ s <= new /\ Untouched(s)' /\ ~Current(s)'
            /\ \A j \in DOMAIN tasks' : tasks'[j] = StreamTask(s) => j = i
      <3> TAKE s \in Streams
      <3> TAKE i \in DOMAIN tasks'
      <3>1. CASE s = new
        <4>1. \A j \in DOMAIN tasks' : tasks'[j] = StreamTask(new) => j = Len(tasks) + 1
          BY <2>1, <2>5
        <4>2. new <= new /\ Untouched(new)' /\ ~Current(new)'
          BY <1>0, <2>0, <2>2, <2>3
        <4> QED
          BY <3>1, <4>1, <4>2
      <3>2. CASE s # new
        BY <1>0, <2>0, <2>1, <2>2, <2>4, <3>2 DEF StreamInv, Streams
      <3> QED
        BY <3>1, <3>2
    <2>8. \A s \in Streams : s > new => Untouched(s)' /\ ~Current(s)'
      BY <1>0, <2>0, <2>2 DEF StreamInv, Streams
    <2>9. new > 0 /\ ~cancel'[new] /\ seen'[new] = "open"
      BY <1>0, <1>4, <2>0, <2>3 DEF SubmitStream, Untouched, ends, history
    <2> QED
      BY <2>6, <2>7, <2>8, <2>9 DEF StreamInv
  <1>5. CASE StreamTakes
    <2>1. streams \in Streams /\ ~Untouched(streams)
      BY <1>0, <1>5 DEF StreamTakes, StreamInv, Streams, Untouched
    <2>2. \A s \in Streams : Untouched(s) => Untouched(s)'
      BY <1>5, <2>1 DEF StreamTakes, Untouched, TypeInv, TypeOK
    <2>3. Head(output[streams]) \in Items
      BY <1>5, <2>1, TailFacts DEF StreamTakes, TypeInv, TypeOK
    <2>4. at'[Main] \in {"get", "body"} =>
            at[Main] = "get" /\ UNCHANGED <<cancel, seen>> /\ got'[streams] > 0
      BY <1>0, <1>5, <2>1, <2>3, ItemFacts DEF StreamTakes, Goes, TypeInv, TypeOK
    <2>5. UNCHANGED <<tasks, streams, task>>
      BY <1>5 DEF StreamTakes, owner
    <2> QED
      BY <2>2, <2>4, <2>5, StreamFrame
  <1>6. CASE StreamAbandoned
    <2>1. streams \in Streams /\ ~Untouched(streams)
      BY <1>0, <1>6 DEF StreamAbandoned, Goes, StreamInv, Streams, Untouched
    <2>2. \A s \in Streams : Untouched(s) => Untouched(s)'
      BY <1>6, <2>1 DEF StreamAbandoned, Untouched, TypeInv, TypeOK
    <2>3. UNCHANGED <<tasks, streams, task>> /\ at'[Main] = "idle"
      BY <1>0, <1>6 DEF StreamAbandoned, Goes, owner
    <2> QED
      BY <2>2, <2>3, StreamFrame
  <1>7. CASE BeginCall(c) \/ BeginStream \/ CallReturns(c) \/ StreamResumes \/ CloseJoined
    <2>1. /\ UNCHANGED <<tasks, streams, task, output, cancel, made, got, ended, seen>>
          /\ at'[Main] \in {"get", "body"} =>
                at[Main] \in {"get", "body"} /\ (at'[Main] = "body" => at[Main] = "body")
      BY <1>0, <1>7 DEF BeginCall, BeginStream, EnsureStarted, CallReturns, StreamResumes,
                        CloseJoined, Goes, owner, ends, history
    <2>2. \A s : Untouched(s)' = Untouched(s)
      BY <2>1 DEF Untouched
    <2> QED
      BY <2>1, <2>2, StreamFrame DEF StreamInv
  <1> QED
    BY <1>2, <1>3, <1>4, <1>5, <1>6, <1>7 DEF GoesOn, MainGoesOn

LEMMA OwnerStream ==
    ASSUME TypeInv, StreamInv, Owner
    PROVE  StreamInv'
  <1>1. CASE RunTakes
    <2>0. UNCHANGED <<at, streams, output, cancel, made, got, ended, seen>>
      BY <1>1 DEF RunTakes, Loop, ends, history
    <2>1. /\ tasks' \in Seq(Tasks) /\ Len(tasks') = Len(tasks) - 1 /\ Len(tasks) > 0
          /\ task' \in Tasks /\ task' = tasks[1]
          /\ \A i \in 1..Len(tasks') : tasks'[i] = tasks[i + 1]
      BY <1>1, TailFacts DEF RunTakes, TypeInv, TypeOK
    <2>2. /\ DOMAIN tasks = 1..Len(tasks) /\ Len(tasks) \in Nat
          /\ DOMAIN tasks' = 1..Len(tasks') /\ Len(tasks') \in Nat
      BY <2>1, LenProperties DEF TypeInv, TypeOK
    <2>3. \A s : Untouched(s)' = Untouched(s)
      BY <2>0 DEF Untouched
    <2>4. \A s \in Streams : s > streams => ~Current(s)'
      <3>1. \A s \in Streams : task' = StreamTask(s) => s <= streams
        <4> SUFFICES ASSUME NEW s \in Streams, tasks[1] = StreamTask(s) PROVE s <= streams
          BY <2>1
        <4>1. 1 \in DOMAIN tasks /\ tasks[1].kind = "stream" /\ tasks[1].stream = s
          BY <2>1, <2>2 DEF StreamTask
        <4> QED
          BY <2>1, <4>1 DEF StreamInv
      <3> QED
        BY <3>1 DEF Current, StreamTask, TypeInv, TypeOK, Streams
    <2>5. \A s \in Streams : \A i \in DOMAIN tasks' : tasks'[i] = StreamTask(s) =>
            /\ s <= streams /\ Untouched(s)' /\ ~Current(s)'
            /\ \A j \in DOMAIN tasks' : tasks'[j] = StreamTask(s) => j = i
      <3> SUFFICES ASSUME NEW s \in Streams, NEW i \in DOMAIN tasks', tasks'[i] = StreamTask(s)
                   PROVE  /\ s <= streams /\ Untouched(s)' /\ ~Current(s)'
                          /\ \A j \in DOMAIN tasks' : tasks'[j] = StreamTask(s) => j = i
        OBVIOUS
      <3>1. i + 1 \in DOMAIN tasks /\ tasks[i + 1] = StreamTask(s) /\ 1 \in DOMAIN tasks
        BY <2>1, <2>2
      <3>2. \A j \in DOMAIN tasks : tasks[j] = StreamTask(s) => j = i + 1
        BY <3>1 DEF StreamInv
      <3>3. task' # StreamTask(s)
        BY <2>1, <2>2, <3>1, <3>2
      <3>4. \A j \in DOMAIN tasks' : tasks'[j] = StreamTask(s) => j = i
        BY <2>1, <2>2, <3>2
      <3>5. ~Current(s)'
        BY <3>3 DEF Current, StreamTask
      <3> QED
        BY <2>3, <3>1, <3>4, <3>5 DEF StreamInv
    <2> QED
      BY <2>0, <2>3, <2>4, <2>5 DEF StreamInv
  <1>2. CASE ~RunTakes
    <2>1. \A s \in Streams : Untouched(s) /\ ~Current(s) => Untouched(s)'
      BY <1>2, OwnerFrame DEF Untouched
    <2> QED
      BY <1>2, <2>1, OwnerFrame, StreamFrame DEF StreamInv
  <1> QED
    BY <1>1, <1>2

LEMMA StreamStep == TypeInv /\ StreamInv /\ [Next]_vars => StreamInv'
  <1>1. StreamInv /\ UNCHANGED vars => StreamInv'
    BY DEF StreamInv, Untouched, Current, StreamTask, vars, owner, ends, history
  <1> QED
    BY <1>1, UsersStream, OwnerStream, MainCalls DEF Next
-----------------------------------------------------------------------------
(***************************************************************************)
(* Whoever waits is answered: WaitInv.                                     *)
(***************************************************************************)
\* While someone waits, the thread is there and has not seen a stop marker.
LEMMA WaitingAlive ==
    ASSUME TypeInv, ThreadInv, NEW c \in Callers, at[c] \notin {"idle", "joining"}
    PROVE  thread /\ at[Main] # "joining" /\ runtime \notin {"off", "ending"}
  BY DEF TypeInv, TypeOK, ThreadInv, Callers

\* A task that is pending stays so when one is appended.
LEMMA PendingAppend ==
    ASSUME TypeInv, NEW new \in Tasks, tasks' = Append(tasks, new), UNCHANGED owner
    PROVE  /\ \A t : Pending(t) => Pending(t)'
           /\ runtime # "off" => Pending(new)'
  <1>1. /\ DOMAIN tasks = 1..Len(tasks) /\ DOMAIN tasks' = 1..(Len(tasks) + 1)
        /\ \A i \in 1..Len(tasks) : tasks'[i] = tasks[i]
        /\ tasks'[Len(tasks) + 1] = new /\ Len(tasks) \in Nat
    BY AppendFacts, LenProperties DEF TypeInv, TypeOK
  <1> QED
    BY <1>1 DEF Pending, owner

\* Who waited already goes on waiting for the same.
LEMMA WaitFrame ==
    ASSUME TypeInv, WaitInv,
           \A c \in Callers : at'[c] = "call" =>
              at[c] = "call" /\ (answer'[c] = answer[c] \/ answer'[c] # "none"),
           at'[Main] \in {"get", "body"} =>
              at[Main] \in {"get", "body"} /\ streams' = streams /\ output'[streams] = output[streams],
           \A c \in Callers : at'[c] = "call" /\ Pending(CallTask(c)) =>
              answer'[c] # "none" \/ Pending(CallTask(c))',
           at'[Main] \in {"get", "body"} /\ Pending(StreamTask(streams)) =>
              Pending(StreamTask(streams))'
    PROVE  WaitInv'
  <1>1. at'[Main] \in {"get", "body"} => EndQueued(streams)' \/ Pending(StreamTask(streams))'
    BY DEF WaitInv, EndQueued
  <1>2. \A c \in Callers : at'[c] = "call" => answer'[c] # "none" \/ Pending(CallTask(c))'
    BY DEF WaitInv
  <1> QED
    BY <1>1, <1>2 DEF WaitInv

LEMMA UsersWait ==
    ASSUME TypeInv, ThreadInv, StreamInv, WaitInv, NEW c \in Callers,
           BeginCall(c) \/ GoesOn(c) \/ BeginStream \/ MainGoesOn \/ CloseBegin
    PROVE  WaitInv'
  <1> USE MainCalls
  <1>0. /\ at \in [Callers -> {"idle", "ready.call", "ready.stream", "call", "get", "body", "joining"}]
        /\ answer \in [Callers -> {"none", "value", "error"}]
    BY DEF TypeInv, TypeOK
  <1>1. CASE BeginCall(c) \/ BeginStream
    <2>1. /\ \A d \in Callers : at'[d] = "call" => at[d] = "call"
          /\ at'[Main] \in {"get", "body"} => at[Main] \in {"get", "body"}
          /\ UNCHANGED <<answer, streams, output, tasks, task>>
          /\ thread => runtime' = runtime
      BY <1>0, <1>1 DEF BeginCall, BeginStream, EnsureStarted, Goes, ends
    <2>2. \A d \in Callers : at[d] \in {"call", "get", "body"} => thread
      BY DEF ThreadInv
    <2>3. \A t : thread /\ Pending(t) => Pending(t)'
      BY <2>1 DEF Pending
    <2> QED
      BY <2>1, <2>2, <2>3, WaitFrame DEF CallTask, StreamTask
  <1>2. CASE Submit(c)
    <2>1. CallTask(c) \in Tasks /\ tasks' = Append(tasks, CallTask(c)) /\ UNCHANGED owner
      BY <1>2, TaskFacts DEF Submit
    <2>2. runtime # "off"
      BY <1>0, <1>2, WaitingAlive DEF Submit, Goes
    <2>3. Pending(CallTask(c))' /\ \A t : Pending(t) => Pending(t)'
      BY <2>1, <2>2, PendingAppend
    <2>4. /\ \A d \in Callers : d # c => at'[d] = at[d] /\ answer'[d] = answer[d]
          /\ c = Main => at'[Main] = "call"
          /\ UNCHANGED <<streams, output>>
      BY <1>0, <1>2 DEF Submit, Goes, ends
    <2>5. at'[Main] \in {"get", "body"} => EndQueued(streams)' \/ Pending(StreamTask(streams))'
      BY <2>3, <2>4 DEF WaitInv, EndQueued, StreamTask
    <2>6. \A d \in Callers : at'[d] = "call" => answer'[d] # "none" \/ Pending(CallTask(d))'
      BY <2>3, <2>4 DEF WaitInv, CallTask
    <2> QED
      BY <2>5, <2>6 DEF WaitInv
  <1>3. CASE SubmitStream
    <2>00. PICK new \in Streams : new = streams + 1
      BY <1>3, Bounds DEF SubmitStream, Goes, TypeInv, RoomInv, TypeOK, Streams
    <2>1. StreamTask(new) \in Tasks /\ tasks' = Append(tasks, StreamTask(new)) /\ UNCHANGED owner
          /\ streams' = new
      BY <1>3, <2>00, TaskFacts DEF SubmitStream
    <2>2. runtime # "off"
      BY <1>0, <1>3, WaitingAlive DEF SubmitStream, Goes
    <2>3. Pending(StreamTask(new))' /\ \A t : Pending(t) => Pending(t)'
      BY <2>1, <2>2, PendingAppend
    <2>4. \A d \in Callers : at'[d] = "call" => at[d] = "call" /\ answer'[d] = answer[d]
      BY <1>0, <1>3 DEF SubmitStream, Goes
    <2>5. \A d \in Callers : at'[d] = "call" => answer'[d] # "none" \/ Pending(CallTask(d))'
      BY <2>3, <2>4 DEF WaitInv, CallTask
    <2>6. Pending(StreamTask(streams))'
      BY <2>1, <2>3 DEF StreamTask, Pending
    <2> QED
      BY <2>5, <2>6 DEF WaitInv
  <1>4. CASE CloseBegin
    <2>1. UNCHANGED owner /\ tasks' = Append(tasks, StopTask) /\ StopTask \in Tasks
      BY <1>4, TaskFacts DEF CloseBegin
    <2>2. \A t : Pending(t) => Pending(t)'
      BY <2>1, PendingAppend
    <2>3. /\ \A d \in Callers : at'[d] = "call" => at[d] = "call"
          /\ at'[Main] \notin {"get", "body"} /\ UNCHANGED answer
      BY <1>0, <1>4 DEF CloseBegin, Goes
    <2> QED
      BY <2>2, <2>3, WaitFrame DEF CallTask
  <1>5. CASE StreamTakes
    <2>0. streams \in Streams /\ at[Main] = "get"
      BY <1>5 DEF StreamTakes, StreamInv, TypeInv, TypeOK, Streams
    <2> DEFINE q == output[streams]
    <2>1. UNCHANGED <<answer, tasks, owner, streams>>
          /\ \A d \in Callers : at'[d] = "call" => at[d] = "call"
      BY <1>0, <1>5 DEF StreamTakes, Goes
    <2>2. \A t : Pending(t)' = Pending(t)
      BY <2>1 DEF Pending, owner
    <2>3. \A d \in Callers : at'[d] = "call" => answer'[d] # "none" \/ Pending(CallTask(d))'
      BY <2>1, <2>2 DEF WaitInv, CallTask
    <2>4. /\ q \in Seq(Items) /\ q # <<>> /\ output'[streams] = Tail(q)
          /\ at'[Main] \in {"get", "body"} => Head(q).what = "value"
      BY <1>0, <1>5, <2>0 DEF StreamTakes, Goes, TypeInv, TypeOK
    <2>5. /\ Len(Tail(q)) = Len(q) - 1 /\ Len(q) > 0 /\ Len(q) \in Nat
          /\ Head(q) = q[1] /\ Tail(q) \in Seq(Items)
          /\ \A i \in 1..Len(Tail(q)) : Tail(q)[i] = q[i + 1]
      BY <2>4, TailFacts, LenProperties
    <2>6. at'[Main] \in {"get", "body"} /\ q[Len(q)] = Done =>
            Tail(q) # <<>> /\ Tail(q)[Len(Tail(q))] = Done
      <3>1. Done.what # "value"
        BY ItemFacts
      <3>2. Tail(q) = <<>> => Len(Tail(q)) = 0
        BY <2>5, EmptySeq
      <3> HIDE DEF q
      <3> QED
        BY <2>4, <2>5, <3>1, <3>2
    <2>7. at'[Main] \in {"get", "body"} => EndQueued(streams)' \/ Pending(StreamTask(streams))'
      <3>1. EndQueued(streams) \/ Pending(StreamTask(streams))
        BY <2>0 DEF WaitInv
      <3>2. EndQueued(streams)' <=> output'[streams] # <<>> /\ output'[streams][Len(output'[streams])] = Done
        BY <2>1 DEF EndQueued, Done
      <3> QED
        BY <2>1, <2>2, <2>4, <2>6, <3>1, <3>2 DEF EndQueued, StreamTask
    <2> QED
      BY <2>3, <2>7 DEF WaitInv
  <1>6. CASE CallReturns(c) \/ StreamResumes \/ StreamAbandoned \/ CloseJoined
    <2>1. /\ \A d \in Callers : at'[d] = "call" => at[d] = "call"
          /\ at'[Main] \in {"get", "body"} => at[Main] \in {"get", "body"}
          /\ UNCHANGED <<answer, streams, output, tasks, owner>>
      BY <1>0, <1>6 DEF CallReturns, StreamResumes, StreamAbandoned, CloseJoined, Goes, ends
    <2>2. \A t : Pending(t) => Pending(t)'
      BY <2>1 DEF Pending, owner
    <2> QED
      BY <2>1, <2>2, WaitFrame DEF CallTask, StreamTask
  <1> QED
    BY <1>1, <1>2, <1>3, <1>4, <1>5, <1>6 DEF GoesOn, MainGoesOn

LEMMA OwnerWait ==
    ASSUME TypeInv, ThreadInv, StreamInv, WaitInv, Owner
    PROVE  WaitInv'
  <1> USE MainCalls
  <1>0. /\ \A c \in Callers : at[c] = "call" => runtime \notin {"off", "ending"} /\ CallTask(c) # NoTask
        /\ at[Main] \in {"get", "body"} =>
             runtime \notin {"off", "ending"} /\ StreamTask(streams) # NoTask
    BY WaitingAlive DEF CallTask, StreamTask, NoTask
  <1>1. CASE RunTakes
    <2>0. UNCHANGED <<at, answer, streams, output>> /\ task = NoTask /\ runtime' # "off"
      BY <1>1 DEF RunTakes, Loop, ends, TypeInv, OwnerInv
    <2>1. /\ tasks' \in Seq(Tasks) /\ Len(tasks') = Len(tasks) - 1 /\ task' = tasks[1]
          /\ \A i \in 1..Len(tasks') : tasks'[i] = tasks[i + 1]
      BY <1>1, TailFacts DEF RunTakes, TypeInv, TypeOK
    <2>2. /\ DOMAIN tasks = 1..Len(tasks) /\ Len(tasks) \in Nat
          /\ DOMAIN tasks' = 1..Len(tasks') /\ Len(tasks') \in Nat
      BY <2>1, LenProperties DEF TypeInv, TypeOK
    <2>3. \A t : t # NoTask /\ Pending(t) => Pending(t)'
      <3> SUFFICES ASSUME NEW t, NEW i \in DOMAIN tasks, tasks[i] = t
                   PROVE  t = task' \/ \E j \in DOMAIN tasks' : tasks'[j] = t
        BY <2>0 DEF Pending
      <3>1. CASE i = 1
        BY <2>1, <3>1
      <3>2. CASE i # 1
        <4>1. i - 1 \in DOMAIN tasks' /\ tasks'[i - 1] = tasks[i]
          BY <2>1, <2>2, <3>2
        <4> QED
          BY <4>1
      <3> QED
        BY <3>1, <3>2
    <2> QED
      BY <1>0, <2>0, <2>3, WaitFrame DEF CallTask, StreamTask
  <1>2. ASSUME NEW result \in {"value", "error"}, Answers(result), runtime \in {"connect", "work"}
        PROVE  WaitInv'
    <2>1. task \in Tasks /\ task = CallTask(task.from) /\ task.from \in Callers
      BY <1>2, TaskFacts DEF Answers, TypeInv, OwnerInv
    <2>2. UNCHANGED <<at, streams, output, tasks>> /\ runtime' = "get"
          /\ answer' = [answer EXCEPT ![task.from] = result]
      BY <1>2 DEF Answers, Loop, ends
    <2>3. \A c \in Callers : answer'[c] = answer[c] \/ answer'[c] # "none"
      BY <2>1, <2>2 DEF TypeInv, TypeOK
    <2>4. \A c \in Callers : CallTask(c) = task => answer'[c] # "none"
      BY <2>1, <2>2 DEF TypeInv, TypeOK, CallTask
    <2>5. \A t : Pending(t) /\ t # task => Pending(t)'
      BY <2>2 DEF Pending
    <2>6. StreamTask(streams) # task
      BY <2>1 DEF StreamTask, CallTask
    <2> QED
      BY <2>2, <2>3, <2>4, <2>5, <2>6, WaitFrame DEF CallTask, StreamTask
  <1>3. CASE PutCancelled
    <2>1. task \in Tasks /\ task = StreamTask(task.stream) /\ task.stream \in Streams
          /\ cancel[task.stream]
      BY <1>3, TaskFacts DEF PutCancelled, Cancelled, TypeInv, OwnerInv
    <2>2. UNCHANGED <<at, streams, output, tasks, answer>> /\ runtime' = "get"
      BY <1>3 DEF PutCancelled, Loop, ends
    <2>3. \A c \in Callers : CallTask(c) # task
      BY <2>1 DEF CallTask, StreamTask
    <2>4. at[Main] \in {"get", "body"} => StreamTask(streams) # task
      BY <2>1 DEF StreamInv, StreamTask
    <2>5. \A t : Pending(t) /\ t # task => Pending(t)'
      BY <2>2 DEF Pending
    <2> QED
      BY <2>2, <2>3, <2>4, <2>5, WaitFrame DEF CallTask, StreamTask
  <1>4. CASE Puts
    <2>1. task \in Tasks /\ task = StreamTask(task.stream) /\ task.stream \in Streams
      BY <1>4, TaskFacts DEF Puts, TypeInv, OwnerInv
    <2>2. UNCHANGED <<at, streams, tasks, answer>> /\ runtime' # "off" /\ (task' = task \/ task' = NoTask)
      BY <1>4 DEF Puts, AfterPut, Loop
    <2>3. \A c \in Callers : CallTask(c) # task
      BY <2>1 DEF CallTask, StreamTask
    <2>4. \A t : Pending(t) /\ t # task => Pending(t)'
      BY <2>2 DEF Pending
    <2>5. \A c \in Callers : at'[c] = "call" => answer'[c] # "none" \/ Pending(CallTask(c))'
      BY <2>2, <2>3, <2>4 DEF WaitInv, CallTask
    <2>6. at'[Main] \in {"get", "body"} => EndQueued(streams)' \/ Pending(StreamTask(streams))'
      <3>0. CASE at[Main] \notin {"get", "body"}
        BY <2>2, <3>0
      <3>1. CASE at[Main] \in {"get", "body"} /\ task # StreamTask(streams)
        <4>1. streams \in Streams /\ streams # task.stream
          BY <2>1, <3>1 DEF StreamInv, TypeInv, TypeOK, Streams
        <4>2. output'[streams] = output[streams]
          BY <1>4, <2>1, <4>1 DEF Puts, TypeInv, TypeOK
        <4> QED
          BY <2>2, <2>4, <3>1, <4>2 DEF WaitInv, EndQueued, StreamTask
      <3>2. CASE task = StreamTask(streams) /\ task' = task
        BY <2>2, <3>2 DEF Pending, StreamTask
      <3>3. CASE task = StreamTask(streams) /\ task' # task
        <4>1. streams = task.stream
          BY <3>3 DEF StreamTask
        <4>2. output[streams] \in Seq(Items) /\ offer \in Items /\ offer = Done
          BY <1>4, <2>1, <3>3, <4>1, ItemFacts DEF Puts, AfterPut, TypeInv, TypeOK
        <4>3. output'[streams] = Append(output[streams], Done)
          BY <1>4, <2>1, <4>1, <4>2 DEF Puts, TypeInv, TypeOK
        <4>4. output'[streams] # <<>> /\ output'[streams][Len(output'[streams])] = Done
          BY <4>2, <4>3, AppendFacts
        <4> QED
          BY <2>2, <4>4 DEF EndQueued, Done
      <3> QED
        BY <3>0, <3>1, <3>2, <3>3
    <2> QED
      BY <2>5, <2>6 DEF WaitInv
  <1>5. CASE RunEnds
    BY <1>0, <1>5, WaitFrame DEF RunEnds, Loop, ends
  <1>6. ASSUME NEW marker, Ends(marker)
        PROVE  UNCHANGED <<at, streams, output, tasks, task, answer>> /\ runtime' # "off"
    BY <1>6 DEF Ends, Loop, ends
  <1>7. CASE RunStarts \/ Connects \/ StreamEmits \/ StreamEnds \/ PutTries \/ PutFull
             \/ \E marker \in {Failure, Done} : Ends(marker)
    <2>1. UNCHANGED <<at, streams, output, tasks, task, answer>> /\ runtime' # "off"
      BY <1>6, <1>7 DEF RunStarts, Connects, StreamEmits, StreamEnds, PutTries, PutFull, Loop, ends
    <2>2. \A t : Pending(t) => Pending(t)'
      BY <2>1 DEF Pending
    <2> QED
      BY <2>1, <2>2, WaitFrame DEF CallTask, StreamTask
  <1> QED
    BY <1>1, <1>2, <1>3, <1>4, <1>5, <1>7 DEF Owner, ConnectFails, CallEnds

WaitingInv == TypeInv /\ ThreadInv /\ StreamInv /\ WaitInv

LEMMA WaitStep == WaitingInv /\ [Next]_vars => WaitingInv'
  <1>1. WaitInv /\ UNCHANGED vars => WaitInv'
    BY DEF WaitInv, Pending, EndQueued, CallTask, StreamTask, vars, owner, ends
  <1> QED
    BY <1>1, TypeStep, ThreadStep, StreamStep, UsersWait, OwnerWait, MainCalls DEF Next, WaitingInv

LEMMA InitWait == Init => WaitingInv
  <1> SUFFICES ASSUME Init PROVE WaitingInv
    OBVIOUS
  <1>1. TypeInv /\ ThreadInv
    BY InitTypes, InitThread DEF CleanInv
  <1>2. StreamInv
    <2>1. tasks = <<>> /\ DOMAIN tasks = {} /\ at[Main] = "idle" /\ task = NoTask
      BY EmptySeq, MainCalls DEF Init
    <2>2. \A s \in Streams : Untouched(s) /\ ~Current(s)
      BY <2>1 DEF Init, Untouched, Current, StreamTask, NoTask
    <2> QED
      BY <2>1, <2>2 DEF StreamInv
  <1>3. WaitInv
    BY MainCalls DEF Init, WaitInv
  <1> QED
    BY <1>1, <1>2, <1>3 DEF WaitingInv

(***************************************************************************)
(* No caller of call or stream ever waits for a result that nobody will    *)
(* deliver (lines 80-127 and 167-189), across failing connections,         *)
(* abandoned streams and close.                                            *)
(***************************************************************************)
THEOREM NobodyIsForgotten == Spec => []NobodyForgotten
<1>1. WaitingInv => NobodyForgotten
  BY DEF WaitingInv, WaitInv, EndQueued, NobodyForgotten
<1> QED
  BY <1>1, InitWait, WaitStep, PTL DEF Spec
-----------------------------------------------------------------------------
(***************************************************************************)
(* The streams keep their order.  Queued and Working are QueueInv and the  *)
(* body of WorkInv, of one stream's queue, counts and ends.                *)
(***************************************************************************)
Queued(q, g, m, e, open) ==
    \A i \in DOMAIN q :
        /\ q[i].what = "value" => q[i].n = g + i /\ g + i <= m
        /\ q[i].what = "failed" => e = "failed" /\ m = g + i - 1
        /\ q[i].what = "done" /\ open =>
             \/ e = "done" /\ m = g + i - 1
             \/ i > 1 /\ q[i - 1].what = "failed"

Values(q) == \A i \in DOMAIN q : q[i].what = "value"

Working(r, o, q, g, m, e, open) ==
    /\ r \in {"connect", "work"} => e = "open" /\ Values(q) /\ m = g + Len(q)
    /\ r \in {"check", "put"} =>
         \/ o.what = "value" /\ o.n = m /\ e = "open" /\ Values(q) /\ m = g + Len(q) + 1
         \/ o.what # "value" /\ e = o.what /\ Values(q) /\ m = g + Len(q)
         \/ /\ o.what = "done" /\ e = "failed"
            /\ ~open \/ (q # <<>> /\ q[Len(q)].what = "failed")

LEMMA OrderViews ==
    ASSUME NEW s
    PROVE  /\ QueueInv(s) <=> Queued(output[s], got[s], made[s], ended[s], seen[s] = "open")
           /\ QueueInv(s)' <=> Queued(output'[s], got'[s], made'[s], ended'[s], seen'[s] = "open")
           /\ WorkInv(s) <=> (task = StreamTask(s) =>
                Working(runtime, offer, output[s], got[s], made[s], ended[s], seen[s] = "open"))
           /\ WorkInv(s)' <=> (task' = StreamTask(s) =>
                Working(runtime', offer', output'[s], got'[s], made'[s], ended'[s], seen'[s] = "open"))
  BY DEF QueueInv, Queued, WorkInv, Working, OnlyValues, Values, Current, StreamTask

\* The caller takes the head of the queue.
LEMMA TakeKeepsOrder ==
    ASSUME NEW q \in Seq(Items), NEW g \in Nat, NEW m \in Nat, NEW e,
           q # <<>>, Queued(q, g, m, e, TRUE)
    PROVE  /\ Head(q).what = "value" =>
                Head(q).n = g + 1 /\ g < m /\ Queued(Tail(q), g + 1, m, e, TRUE)
           /\ Head(q).what # "value" =>
                e = Head(q).what /\ g = m /\ Queued(Tail(q), g, m, e, FALSE)
           /\ \A r, o : Working(r, o, q, g, m, e, TRUE) =>
                /\ Head(q).what = "value" => Working(r, o, Tail(q), g + 1, m, e, TRUE)
                /\ Head(q).what # "value" => Working(r, o, Tail(q), g, m, e, FALSE)
  <1>1. /\ Tail(q) \in Seq(Items) /\ Len(Tail(q)) = Len(q) - 1 /\ Len(q) > 0 /\ Len(q) \in Nat
        /\ Head(q) \in Items /\ Head(q) = q[1]
        /\ \A i \in 1..Len(Tail(q)) : Tail(q)[i] = q[i + 1]
    BY TailFacts, LenProperties
  <1>2. /\ DOMAIN q = 1..Len(q) /\ DOMAIN Tail(q) = 1..(Len(q) - 1)
        /\ \A i \in DOMAIN Tail(q) : i + 1 \in DOMAIN q /\ Tail(q)[i] = q[i + 1] /\ i \in Nat /\ i > 0
        /\ 1 \in DOMAIN q
    BY <1>1, LenProperties
  <1>3. Head(q).what \in {"value", "failed", "done"}
    BY <1>1, ItemFacts
  <1>4. ASSUME Head(q).what = "value"
        PROVE  Head(q).n = g + 1 /\ g < m /\ Queued(Tail(q), g + 1, m, e, TRUE)
    <2>1. q[1].n = g + 1 /\ g + 1 <= m /\ q[1].what = "value"
      BY <1>1, <1>2, <1>4 DEF Queued
    <2>2. ASSUME NEW i \in DOMAIN Tail(q)
          PROVE  /\ Tail(q)[i].what = "value" => Tail(q)[i].n = (g + 1) + i /\ (g + 1) + i <= m
                 /\ Tail(q)[i].what = "failed" => e = "failed" /\ m = (g + 1) + i - 1
                 /\ Tail(q)[i].what = "done" =>
                      \/ e = "done" /\ m = (g + 1) + i - 1
                      \/ i > 1 /\ Tail(q)[i - 1].what = "failed"
      <3>1. i > 1 => Tail(q)[i - 1] = q[i]
        BY <1>2
      <3>2. /\ q[i + 1].what = "value" => q[i + 1].n = g + (i + 1) /\ g + (i + 1) <= m
            /\ q[i + 1].what = "failed" => e = "failed" /\ m = g + (i + 1) - 1
            /\ q[i + 1].what = "done" =>
                 \/ e = "done" /\ m = g + (i + 1) - 1
                 \/ i + 1 > 1 /\ q[(i + 1) - 1].what = "failed"
        BY <1>2 DEF Queued
      <3>3. (i + 1) - 1 = i /\ i \in Nat /\ i > 0 /\ Tail(q)[i] = q[i + 1]
        BY <1>2
      <3> HIDE <1>2
      <3>4. q[(i + 1) - 1] = q[i]
        BY <3>3
      <3>5. q[i].what = "failed" => i > 1
        BY <2>1, <3>3
      <3> QED
        BY <3>1, <3>2, <3>3, <3>4, <3>5
    <2> QED
      BY <1>1, <2>1, <2>2 DEF Queued
  <1>5. ASSUME Head(q).what # "value"
        PROVE  e = Head(q).what /\ g = m /\ Queued(Tail(q), g, m, e, FALSE)
    <2>1. e = q[1].what /\ g = m
      BY <1>1, <1>2, <1>3, <1>5 DEF Queued
    <2>2. \A i \in DOMAIN Tail(q) : q[i + 1].what # "value" /\ q[i + 1].what # "failed"
      BY <1>2, <2>1 DEF Queued
    <2> QED
      BY <1>1, <1>2, <2>1, <2>2 DEF Queued
  <1>6. ASSUME NEW r, NEW o, Working(r, o, q, g, m, e, TRUE)
        PROVE  /\ Head(q).what = "value" => Working(r, o, Tail(q), g + 1, m, e, TRUE)
               /\ Head(q).what # "value" => Working(r, o, Tail(q), g, m, e, FALSE)
    <2>1. Values(q) => Values(Tail(q)) /\ Head(q).what = "value"
      BY <1>1, <1>2 DEF Values
    <2>2. g + Len(q) = (g + 1) + Len(Tail(q))
      BY <1>1
    <2>3. Head(q).what = "value" /\ q[Len(q)].what = "failed" =>
            Tail(q) # <<>> /\ Tail(q)[Len(Tail(q))].what = "failed"
      <3> SUFFICES ASSUME Head(q).what = "value", q[Len(q)].what = "failed"
                   PROVE  Tail(q) # <<>> /\ Tail(q)[Len(Tail(q))].what = "failed"
        OBVIOUS
      <3>1. Len(q) > 1
        BY <1>1
      <3>2. Len(Tail(q)) \in DOMAIN Tail(q) /\ Len(Tail(q)) + 1 = Len(q)
        BY <1>1, <1>2, <3>1
      <3>3. PICK k \in DOMAIN Tail(q) : k = Len(Tail(q)) /\ k + 1 = Len(q)
        BY <3>2
      <3>4. Tail(q)[k] = q[k + 1]
        BY <1>2
      <3>5. Tail(q) # <<>>
        BY <1>1, <3>1, EmptySeq
      <3> QED
        BY <3>3, <3>4, <3>5
    <2> QED
      BY <1>6, <2>1, <2>2, <2>3 DEF Working
  <1> QED
    BY <1>4, <1>5, <1>6

\* The owner thread puts its item at the end.
LEMMA PutKeepsOrder ==
    ASSUME NEW q \in Seq(Items), NEW g \in Nat, NEW m \in Nat, NEW e, NEW open \in BOOLEAN,
           NEW o \in Items, Queued(q, g, m, e, open), Working("put", o, q, g, m, e, open)
    PROVE  /\ Queued(Append(q, o), g, m, e, open)
           /\ o.what = "value" => \A any : Working("work", any, Append(q, o), g, m, e, open)
           /\ o.what = "failed" => Working("check", Done, Append(q, o), g, m, e, open)
  <1>1. /\ Append(q, o) \in Seq(Items) /\ Len(Append(q, o)) = Len(q) + 1 /\ Append(q, o) # <<>>
        /\ \A i \in 1..Len(q) : Append(q, o)[i] = q[i]
        /\ Append(q, o)[Len(q) + 1] = o
        /\ DOMAIN q = 1..Len(q) /\ DOMAIN Append(q, o) = 1..(Len(q) + 1) /\ Len(q) \in Nat
    BY AppendFacts, LenProperties
  <1>2. PICK last \in Nat : last = Len(q) + 1
    BY <1>1
  <1>3. o.what \in {"value", "failed", "done"}
    BY ItemFacts
  <1>4. /\ o.what = "value" => o.n = g + last /\ g + last <= m /\ e = "open" /\ Values(q) /\ m = g + last
        /\ o.what = "failed" => e = "failed" /\ m = g + last - 1
        /\ o.what = "done" /\ open =>
             \/ e = "done" /\ m = g + last - 1
             \/ last > 1 /\ q[last - 1].what = "failed"
    <2>1. q # <<>> => Len(q) > 0
      BY <1>1, EmptySeq
    <2> QED
      BY <1>1, <1>2, <1>3, <2>1 DEF Working
  <1>5. ASSUME NEW i \in DOMAIN Append(q, o)
        PROVE  /\ Append(q, o)[i].what = "value" => Append(q, o)[i].n = g + i /\ g + i <= m
               /\ Append(q, o)[i].what = "failed" => e = "failed" /\ m = g + i - 1
               /\ Append(q, o)[i].what = "done" /\ open =>
                    \/ e = "done" /\ m = g + i - 1
                    \/ i > 1 /\ Append(q, o)[i - 1].what = "failed"
    <2>1. i \in Nat /\ (i > 1 => i - 1 \in 1..Len(q))
      BY <1>1
    <2>2. i > 1 => Append(q, o)[i - 1] = q[i - 1]
      BY <1>1, <2>1
    <2>3. CASE i = last
      BY <1>1, <1>2, <1>4, <2>2, <2>3
    <2>4. CASE i # last
      <3>1. i \in DOMAIN q /\ Append(q, o)[i] = q[i]
        BY <1>1, <1>2, <2>4
      <3> QED
        BY <2>2, <3>1 DEF Queued
    <2> QED
      BY <2>3, <2>4
  <1>6. Queued(Append(q, o), g, m, e, open)
    BY <1>5 DEF Queued
  <1>7. o.what = "value" => \A any : Working("work", any, Append(q, o), g, m, e, open)
    <2>1. o.what = "value" => Values(Append(q, o))
      BY <1>1, <1>4 DEF Values
    <2> QED
      BY <1>1, <1>2, <1>4, <2>1 DEF Working
  <1>8. o.what = "failed" => Working("check", Done, Append(q, o), g, m, e, open)
    BY <1>1, <1>4, ItemFacts DEF Working
  <1> QED
    BY <1>6, <1>7, <1>8

\* The operation makes one more value, or ends.
LEMMA MakeKeepsOrder ==
    ASSUME NEW q \in Seq(Items), NEW g \in Nat, NEW m \in Nat, NEW e, NEW open \in BOOLEAN,
           NEW r \in {"connect", "work"}, NEW o,
           Queued(q, g, m, e, open), Working(r, o, q, g, m, e, open)
    PROVE  /\ e = "open"
           /\ \A any : Working("work", any, q, g, m, e, open)
           /\ m + 1 \in 1..MaxItems =>
                /\ Queued(q, g, m + 1, e, open)
                /\ Working("check", Value(m + 1), q, g, m + 1, e, open)
           /\ \A marker \in {Failure, Done} :
                /\ Queued(q, g, m, marker.what, open)
                /\ Working("check", marker, q, g, m, marker.what, open)
  <1>1. e = "open" /\ Values(q) /\ m = g + Len(q) /\ Len(q) \in Nat /\ DOMAIN q = 1..Len(q)
    BY LenProperties DEF Working
  <1>2. \A i \in DOMAIN q : q[i].what = "value" /\ q[i].n = g + i /\ g + i <= m
    BY <1>1 DEF Queued, Values
  <1>3. \A any : Working("work", any, q, g, m, e, open)
    BY <1>1 DEF Working
  <1>4. ASSUME m + 1 \in 1..MaxItems
        PROVE  /\ Queued(q, g, m + 1, e, open)
               /\ Working("check", Value(m + 1), q, g, m + 1, e, open)
    BY <1>1, <1>2, <1>4, ItemFacts DEF Queued, Working
  <1>5. ASSUME NEW marker \in {Failure, Done}
        PROVE  /\ Queued(q, g, m, marker.what, open)
               /\ Working("check", marker, q, g, m, marker.what, open)
    BY <1>1, <1>2, ItemFacts DEF Queued, Working
  <1> QED
    BY <1>1, <1>3, <1>4, <1>5

OrderedInv == TypeInv /\ StreamInv /\ OrderInv

LEMMA StreamTypes ==
    ASSUME TypeInv, NEW s \in Streams
    PROVE  /\ output[s] \in Seq(Items) /\ got[s] \in Nat /\ made[s] \in Nat
           /\ offer \in Items /\ s \in 1..MaxStreams
  BY Bounds DEF TypeInv, TypeOK, Streams

\* The stream the main thread reads.
LEMMA ReadStream ==
    ASSUME OrderedInv, at[Main] \in {"get", "body"}
    PROVE  /\ streams \in Streams /\ seen[streams] = "open"
           /\ Queued(output[streams], got[streams], made[streams], ended[streams], TRUE)
           /\ task = StreamTask(streams) =>
                Working(runtime, offer, output[streams], got[streams], made[streams],
                        ended[streams], TRUE)
  <1>1. streams \in Streams /\ seen[streams] = "open"
    BY DEF OrderedInv, TypeInv, TypeOK, StreamInv, Streams
  <1>2. (seen[streams] = "open") = TRUE
    BY <1>1
  <1>3. QueueInv(streams) /\ WorkInv(streams)
    BY <1>1 DEF OrderedInv, OrderInv
  <1> QED
    BY <1>1, <1>2, <1>3, OrderViews

\* A stream that a step leaves alone.
LEMMA OrderFrame ==
    ASSUME OrderInv, NEW s \in Streams,
           output'[s] = output[s], got'[s] = got[s], made'[s] = made[s],
           ended'[s] = ended[s], seen'[s] = seen[s],
           task' = StreamTask(s) => UNCHANGED <<task, runtime, offer>>
    PROVE  QueueInv(s)' /\ WorkInv(s)'
  <1>1. QueueInv(s) /\ WorkInv(s)
    BY DEF OrderInv
  <1>2. (seen'[s] = "open") = (seen[s] = "open")
    OBVIOUS
  <1> QED
    BY <1>1, <1>2, OrderViews

LEMMA UsersOrder ==
    ASSUME OrderedInv, NEW c \in Callers,
           BeginCall(c) \/ GoesOn(c) \/ BeginStream \/ MainGoesOn \/ CloseBegin
    PROVE  OrderInv' /\ (Promise!Next \/ UNCHANGED history)
  <1> USE MainCalls
  <1>1. CASE StreamTakes
    <2>1. /\ at[Main] = "get" /\ output[streams] # <<>>
          /\ output' = [output EXCEPT ![streams] = Tail(@)]
          /\ UNCHANGED <<runtime, task, offer, streams, made, ended>>
      BY <1>1 DEF StreamTakes, owner
    <2>2. PICK s \in Streams : s = streams
      BY <2>1, ReadStream
    <2>3. /\ seen[s] = "open" /\ Queued(output[s], got[s], made[s], ended[s], TRUE)
          /\ task = StreamTask(s) =>
               Working(runtime, offer, output[s], got[s], made[s], ended[s], TRUE)
      BY <2>1, <2>2, ReadStream DEF StreamTask
    <2>4. /\ output[s] \in Seq(Items) /\ got[s] \in Nat /\ made[s] \in Nat
          /\ output \in [Streams -> Seq(Items)] /\ got \in [Streams -> 0..MaxItems]
          /\ seen \in [Streams -> {"open", "done", "failed", "left"}]
      BY StreamTypes DEF OrderedInv, TypeInv, TypeOK
    <2>5. Head(output[s]) \in Items
      BY <2>1, <2>2, <2>4, TailFacts
    <2>6. output'[s] = Tail(output[s]) /\ \A t \in Streams : t # s => output'[t] = output[t]
      BY <2>1, <2>2, <2>4
    <2>7. CASE Head(output[s]).what = "value"
      <3>1. got' = [got EXCEPT ![s] = Head(output[s]).n] /\ UNCHANGED seen
        BY <1>1, <2>2, <2>7 DEF StreamTakes
      <3>2. /\ Head(output[s]).n = got[s] + 1 /\ got[s] < made[s]
            /\ Queued(Tail(output[s]), got[s] + 1, made[s], ended[s], TRUE)
            /\ task = StreamTask(s) =>
                 Working(runtime, offer, Tail(output[s]), got[s] + 1, made[s], ended[s], TRUE)
        BY <2>1, <2>2, <2>3, <2>4, <2>7, TakeKeepsOrder
      <3>3. got'[s] = got[s] + 1 /\ \A t \in Streams : t # s => got'[t] = got[t]
        BY <2>4, <3>1, <3>2
      <3>4. (seen'[s] = "open") = TRUE
        BY <2>3, <3>1
      <3>5. QueueInv(s)' /\ WorkInv(s)'
        BY <2>1, <2>6, <3>2, <3>3, <3>4, OrderViews
      <3>6. \A t \in Streams : t # s => QueueInv(t)' /\ WorkInv(t)'
        BY <2>1, <2>6, <3>1, <3>3, OrderFrame DEF OrderedInv
      <3>7. Promise!Give(s)
        BY <2>1, <2>3, <3>1, <3>2 DEF Promise!Give
      <3> QED
        BY <3>5, <3>6, <3>7 DEF OrderInv, Promise!Next
    <2>8. CASE Head(output[s]).what # "value"
      <3>1. seen' = [seen EXCEPT ![s] = Head(output[s]).what] /\ UNCHANGED got
        BY <1>1, <2>2, <2>8 DEF StreamTakes
      <3>2. /\ ended[s] = Head(output[s]).what /\ got[s] = made[s]
            /\ Queued(Tail(output[s]), got[s], made[s], ended[s], FALSE)
            /\ task = StreamTask(s) =>
                 Working(runtime, offer, Tail(output[s]), got[s], made[s], ended[s], FALSE)
        BY <2>1, <2>2, <2>3, <2>4, <2>8, TakeKeepsOrder
      <3>3. ended[s] # "open"
        BY <2>5, <2>8, <3>2, ItemFacts
      <3>4. (seen'[s] = "open") = FALSE /\ \A t \in Streams : t # s => seen'[t] = seen[t]
        BY <2>4, <3>1, <3>2, <3>3
      <3>5. QueueInv(s)' /\ WorkInv(s)'
        BY <2>1, <2>6, <3>1, <3>2, <3>4, OrderViews
      <3>6. \A t \in Streams : t # s => QueueInv(t)' /\ WorkInv(t)'
        BY <2>1, <2>6, <3>1, <3>4, OrderFrame DEF OrderedInv
      <3>7. Promise!GiveEnd(s)
        BY <2>1, <2>3, <3>1, <3>2, <3>3 DEF Promise!GiveEnd
      <3> QED
        BY <3>5, <3>6, <3>7 DEF OrderInv, Promise!Next
    <2> QED
      BY <2>7, <2>8
  <1>2. CASE StreamAbandoned
    <2>1. /\ at[Main] = "body" /\ seen' = [seen EXCEPT ![streams] = "left"]
          /\ UNCHANGED <<runtime, task, offer, output, made, ended, got>>
      BY <1>2 DEF StreamAbandoned, Goes, owner
    <2>2. PICK s \in Streams : s = streams
      BY <2>1, ReadStream
    <2>3. /\ seen[s] = "open" /\ Queued(output[s], got[s], made[s], ended[s], TRUE)
          /\ task = StreamTask(s) =>
               Working(runtime, offer, output[s], got[s], made[s], ended[s], TRUE)
      BY <2>1, <2>2, ReadStream DEF StreamTask
    <2>4. (seen'[s] = "open") = FALSE /\ \A t \in Streams : t # s => seen'[t] = seen[t]
      BY <2>1, <2>2 DEF OrderedInv, TypeInv, TypeOK
    <2>5. /\ Queued(output[s], got[s], made[s], ended[s], FALSE)
          /\ task = StreamTask(s) =>
               Working(runtime, offer, output[s], got[s], made[s], ended[s], FALSE)
      BY <2>3 DEF Queued, Working
    <2>6. QueueInv(s)' /\ WorkInv(s)'
      BY <2>1, <2>4, <2>5, OrderViews
    <2>7. \A t \in Streams : t # s => QueueInv(t)' /\ WorkInv(t)'
      BY <2>1, <2>4, OrderFrame DEF OrderedInv
    <2>8. Promise!Leave(s)
      BY <2>1, <2>2, <2>3 DEF OrderedInv, StreamInv, Promise!Leave
    <2> QED
      BY <2>6, <2>7, <2>8 DEF OrderInv, Promise!Next
  <1>3. CASE BeginCall(c) \/ BeginStream \/ GoesOn(c) \/ SubmitStream \/ StreamResumes
             \/ CloseJoined \/ CloseBegin
    <2>1. /\ UNCHANGED <<output, made, ended, got, seen, task, offer>>
          /\ runtime' = runtime \/ ~thread
      BY <1>3 DEF BeginCall, BeginStream, EnsureStarted, GoesOn, Submit, CallReturns, SubmitStream,
                  StreamResumes, CloseJoined, CloseBegin, owner, ends, history
    <2>2. ~thread => task = NoTask
      BY DEF OrderedInv, TypeInv, OwnerInv
    <2>3. \A s : NoTask # StreamTask(s)
      BY DEF NoTask, StreamTask
    <2> QED
      BY <2>1, <2>2, <2>3, OrderFrame DEF OrderedInv, OrderInv, history
  <1> QED
    BY <1>1, <1>2, <1>3 DEF MainGoesOn

\* What is known of the stream the owner thread works on.
LEMMA WorkedStream ==
    ASSUME OrderedInv, task.kind = "stream", runtime \in {"connect", "work", "check", "put"}
    PROVE  /\ task.stream \in Streams /\ task = StreamTask(task.stream)
           /\ Queued(output[task.stream], got[task.stream], made[task.stream],
                     ended[task.stream], seen[task.stream] = "open")
           /\ Working(runtime, offer, output[task.stream], got[task.stream], made[task.stream],
                      ended[task.stream], seen[task.stream] = "open")
  <1>1. task.stream \in Streams /\ task = StreamTask(task.stream)
    BY TaskFacts DEF OrderedInv, TypeInv, OwnerInv
  <1>2. QueueInv(task.stream) /\ WorkInv(task.stream)
    BY <1>1 DEF OrderedInv, OrderInv
  <1> QED
    BY <1>1, <1>2, OrderViews

LEMMA OwnerOrder ==
    ASSUME OrderedInv, Owner
    PROVE  OrderInv' /\ (Promise!Next \/ UNCHANGED history)
  <1>0. /\ output \in [Streams -> Seq(Items)] /\ made \in [Streams -> 0..MaxItems]
        /\ ended \in [Streams -> {"open", "done", "failed"}]
        /\ \A s, t : StreamTask(s) = StreamTask(t) => s = t
        /\ \A s : NoTask # StreamTask(s)
    BY DEF OrderedInv, TypeInv, TypeOK, StreamTask, NoTask
  <1>1. CASE RunTakes
    <2>1. /\ UNCHANGED <<output, made, ended, got, seen, offer>>
          /\ task' = tasks[1] /\ 1 \in DOMAIN tasks /\ runtime' \in {"connect", "work", "ending"}
      <3>1. tasks # <<>> /\ tasks \in Seq(Tasks)
        BY <1>1 DEF RunTakes, OrderedInv, TypeInv, TypeOK
      <3> QED
        BY <1>1, <3>1, TailFacts, LenProperties DEF RunTakes, Loop, ends, history
    <2>2. ASSUME NEW s \in Streams, task' = StreamTask(s)
          PROVE  QueueInv(s)' /\ WorkInv(s)'
      <3>1. Untouched(s)
        BY <2>1, <2>2 DEF OrderedInv, StreamInv
      <3>2. /\ output[s] = <<>> /\ Len(output[s]) = 0 /\ DOMAIN output[s] = {}
            /\ made[s] = 0 /\ got[s] = 0 /\ ended[s] = "open"
        BY <3>1, EmptySeq DEF Untouched
      <3>3. /\ Queued(output'[s], got'[s], made'[s], ended'[s], seen'[s] = "open")
            /\ Working(runtime', offer', output'[s], got'[s], made'[s], ended'[s], seen'[s] = "open")
        BY <2>1, <3>2 DEF Queued, Working, Values
      <3> QED
        BY <3>3, OrderViews
    <2>3. \A s \in Streams : task' # StreamTask(s) => QueueInv(s)' /\ WorkInv(s)'
      BY <2>1, OrderFrame DEF OrderedInv
    <2> QED
      BY <2>1, <2>2, <2>3 DEF OrderInv, history
  <1>2. CASE StreamEmits
    <2>1. /\ task.kind = "stream" /\ runtime = "work" /\ runtime' = "check"
          /\ made' = [made EXCEPT ![task.stream] = @ + 1] /\ made[task.stream] < MaxItems
          /\ offer' = Value(made'[task.stream])
          /\ UNCHANGED <<task, output, ended, got, seen>>
      BY <1>2 DEF StreamEmits, Loop, ends
    <2>2. PICK s \in Streams : s = task.stream
      BY <2>1, WorkedStream
    <2>3. /\ task = StreamTask(s)
          /\ Queued(output[s], got[s], made[s], ended[s], seen[s] = "open")
          /\ Working("work", offer, output[s], got[s], made[s], ended[s], seen[s] = "open")
      BY <2>1, <2>2, WorkedStream
    <2>4. output[s] \in Seq(Items) /\ got[s] \in Nat /\ made[s] \in Nat
      BY StreamTypes DEF OrderedInv
    <2>5. /\ made'[s] = made[s] + 1 /\ made[s] + 1 \in 1..MaxItems
          /\ offer' = Value(made[s] + 1)
          /\ \A t \in Streams : t # s => made'[t] = made[t]
      BY <1>0, <2>1, <2>2, <2>4, Bounds
    <2>6. /\ ended[s] = "open"
          /\ Queued(output[s], got[s], made[s] + 1, ended[s], seen[s] = "open")
          /\ Working("check", Value(made[s] + 1), output[s], got[s], made[s] + 1, ended[s],
                     seen[s] = "open")
      <3>1. PICK open \in BOOLEAN : open = (seen[s] = "open")
        OBVIOUS
      <3>2. /\ Queued(output[s], got[s], made[s], ended[s], open)
            /\ Working("work", offer, output[s], got[s], made[s], ended[s], open)
        BY <2>3, <3>1
      <3>3. /\ ended[s] = "open"
            /\ Queued(output[s], got[s], made[s] + 1, ended[s], open)
            /\ Working("check", Value(made[s] + 1), output[s], got[s], made[s] + 1, ended[s], open)
        BY <2>4, <2>5, <3>2, MakeKeepsOrder
      <3> QED
        BY <3>1, <3>3
    <2>7. QueueInv(s)' /\ WorkInv(s)'
      BY <2>1, <2>5, <2>6, OrderViews
    <2>8. \A t \in Streams : t # s => QueueInv(t)' /\ WorkInv(t)'
      BY <1>0, <2>1, <2>3, <2>5, OrderFrame DEF OrderedInv
    <2>9. Promise!Make(s)
      BY <2>1, <2>2, <2>6 DEF Promise!Make
    <2> QED
      BY <2>7, <2>8, <2>9 DEF OrderInv, Promise!Next
  <1>3. ASSUME NEW marker \in {Failure, Done}, Ends(marker), runtime \in {"connect", "work"}
        PROVE  OrderInv' /\ Promise!Next
    <2>1. /\ task.kind = "stream" /\ runtime' = "check" /\ offer' = marker
          /\ ended' = [ended EXCEPT ![task.stream] = marker.what]
          /\ UNCHANGED <<task, output, made, got, seen>>
      BY <1>3 DEF Ends, Loop, ends
    <2>2. PICK s \in Streams : s = task.stream
      BY <1>3, <2>1, WorkedStream
    <2>3. /\ task = StreamTask(s)
          /\ Queued(output[s], got[s], made[s], ended[s], seen[s] = "open")
          /\ Working(runtime, offer, output[s], got[s], made[s], ended[s], seen[s] = "open")
      BY <1>3, <2>1, <2>2, WorkedStream
    <2>4. output[s] \in Seq(Items) /\ got[s] \in Nat /\ made[s] \in Nat
      BY StreamTypes DEF OrderedInv
    <2>5. ended'[s] = marker.what /\ \A t \in Streams : t # s => ended'[t] = ended[t]
      BY <1>0, <2>1, <2>2
    <2>6. /\ ended[s] = "open"
          /\ Queued(output[s], got[s], made[s], marker.what, seen[s] = "open")
          /\ Working("check", marker, output[s], got[s], made[s], marker.what, seen[s] = "open")
      <3>1. PICK open \in BOOLEAN : open = (seen[s] = "open")
        OBVIOUS
      <3>2. /\ Queued(output[s], got[s], made[s], ended[s], open)
            /\ Working(runtime, offer, output[s], got[s], made[s], ended[s], open)
        BY <2>3, <3>1
      <3>3. /\ ended[s] = "open"
            /\ Queued(output[s], got[s], made[s], marker.what, open)
            /\ Working("check", marker, output[s], got[s], made[s], marker.what, open)
        BY <1>3, <2>4, <3>2, MakeKeepsOrder
      <3> QED
        BY <3>1, <3>3
    <2>7. QueueInv(s)' /\ WorkInv(s)'
      BY <2>1, <2>5, <2>6, OrderViews
    <2>8. \A t \in Streams : t # s => QueueInv(t)' /\ WorkInv(t)'
      BY <1>0, <2>1, <2>3, <2>5, OrderFrame DEF OrderedInv
    <2>9. Promise!End(s)
      <3>1. marker.what \in {"done", "failed"}
        BY <1>3, ItemFacts
      <3> QED
        BY <2>1, <2>2, <2>6, <3>1 DEF Promise!End
    <2> QED
      BY <2>7, <2>8, <2>9 DEF OrderInv, Promise!Next
  <1>4. CASE Puts
    <2>1. /\ runtime = "put" /\ UNCHANGED <<made, ended, got, seen>>
          /\ output' = [output EXCEPT ![task.stream] = Append(@, offer)]
          /\ \/ offer.what = "value" /\ runtime' = "work" /\ UNCHANGED <<task, offer>>
             \/ offer.what = "failed" /\ runtime' = "check" /\ offer' = Done /\ task' = task
             \/ offer.what = "done" /\ task' = NoTask
      BY <1>4 DEF Puts, AfterPut, Loop, history
    <2>2. PICK s \in Streams : s = task.stream
      BY <2>1, WorkedStream DEF OrderedInv, TypeInv, OwnerInv
    <2>3. /\ task = StreamTask(s)
          /\ Queued(output[s], got[s], made[s], ended[s], seen[s] = "open")
          /\ Working("put", offer, output[s], got[s], made[s], ended[s], seen[s] = "open")
      BY <2>1, <2>2, WorkedStream DEF OrderedInv, TypeInv, OwnerInv
    <2>4. output[s] \in Seq(Items) /\ got[s] \in Nat /\ made[s] \in Nat /\ offer \in Items
      BY StreamTypes DEF OrderedInv
    <2>5. output'[s] = Append(output[s], offer) /\ \A t \in Streams : t # s => output'[t] = output[t]
      BY <1>0, <2>1, <2>2
    <2>6. /\ Queued(output'[s], got[s], made[s], ended[s], seen[s] = "open")
          /\ task' = StreamTask(s) =>
               Working(runtime', offer', output'[s], got[s], made[s], ended[s], seen[s] = "open")
      <3>1. PICK open \in BOOLEAN : open = (seen[s] = "open")
        OBVIOUS
      <3>2. /\ Queued(output[s], got[s], made[s], ended[s], open)
            /\ Working("put", offer, output[s], got[s], made[s], ended[s], open)
        BY <2>3, <3>1
      <3>3. /\ Queued(output'[s], got[s], made[s], ended[s], open)
            /\ offer.what = "value" =>
                 \A any : Working("work", any, output'[s], got[s], made[s], ended[s], open)
            /\ offer.what = "failed" =>
                 Working("check", Done, output'[s], got[s], made[s], ended[s], open)
        BY <2>4, <2>5, <3>2, PutKeepsOrder
      <3>4. task' = StreamTask(s) =>
              Working(runtime', offer', output'[s], got[s], made[s], ended[s], open)
        BY <1>0, <2>1, <3>3
      <3> QED
        BY <3>1, <3>3, <3>4
    <2>7. QueueInv(s)' /\ WorkInv(s)'
      BY <2>1, <2>6, OrderViews
    <2>8. \A t \in Streams : t # s => QueueInv(t)' /\ WorkInv(t)'
      BY <1>0, <2>1, <2>3, <2>5, OrderFrame DEF OrderedInv
    <2> QED
      BY <2>1, <2>7, <2>8 DEF OrderInv, history
  <1>5. CASE Connects \/ PutTries \/ PutFull
    <2>1. /\ UNCHANGED <<output, made, ended, got, seen, task, offer>>
          /\ \/ runtime = "connect" /\ runtime' = "work"
             \/ runtime \in {"check", "put"} /\ runtime' \in {"check", "put"}
      BY <1>5 DEF Connects, PutTries, PutFull, Loop, ends, history
    <2>2. ASSUME NEW s \in Streams
          PROVE  QueueInv(s)' /\ WorkInv(s)'
      <3>1. /\ Queued(output[s], got[s], made[s], ended[s], seen[s] = "open")
            /\ task = StreamTask(s) =>
                 Working(runtime, offer, output[s], got[s], made[s], ended[s], seen[s] = "open")
        BY OrderViews DEF OrderedInv, OrderInv
      <3>2. task = StreamTask(s) =>
              Working(runtime', offer, output[s], got[s], made[s], ended[s], seen[s] = "open")
        BY <2>1, <3>1 DEF Working
      <3> QED
        BY <2>1, <3>1, <3>2, OrderViews
    <2> QED
      BY <2>1, <2>2 DEF OrderInv, history
  <1>6. CASE RunStarts \/ CallEnds \/ PutCancelled \/ RunEnds \/ Answers("error")
    <2>1. /\ UNCHANGED <<output, made, ended, got, seen>>
          /\ task' = NoTask
      BY <1>6 DEF RunStarts, CallEnds, Answers, PutCancelled, RunEnds, Loop, ends, history,
                  OrderedInv, TypeInv, OwnerInv
    <2> QED
      BY <1>0, <2>1, OrderFrame DEF OrderedInv, OrderInv, history
  <1> QED
    BY <1>1, <1>2, <1>3, <1>4, <1>5, <1>6 DEF Owner, ConnectFails, StreamEnds

LEMMA OrderStep ==
    OrderedInv /\ [Next]_vars => OrderedInv' /\ [Promise!Next]_(Promise!streamVars)
  <1> SUFFICES ASSUME OrderedInv, [Next]_vars
               PROVE  OrderedInv' /\ (Promise!Next \/ UNCHANGED history)
    BY DEF history, Promise!streamVars
  <1>1. TypeInv' /\ StreamInv'
    BY TypeStep, StreamStep DEF OrderedInv
  <1>2. CASE UNCHANGED vars
    <2>1. UNCHANGED <<output, made, ended, got, seen, task, runtime, offer>> /\ UNCHANGED history
      BY <1>2 DEF vars, owner, ends, history
    <2> QED
      BY <1>1, <2>1, OrderFrame DEF OrderedInv, OrderInv
  <1>3. CASE Next
    <2>1. OrderInv' /\ (Promise!Next \/ UNCHANGED history)
      BY <1>3, UsersOrder, OwnerOrder, MainCalls DEF Next
    <2> QED
      BY <1>1, <2>1 DEF OrderedInv
  <1> QED
    BY <1>2, <1>3

LEMMA InitOrder == Init => OrderedInv /\ Promise!Init
  <1> SUFFICES ASSUME Init PROVE OrderedInv /\ Promise!Init
    OBVIOUS
  <1>1. TypeInv /\ StreamInv
    BY InitWait DEF WaitingInv
  <1>2. OrderInv
    <2>1. \A s \in Streams : output[s] = <<>> /\ DOMAIN output[s] = {} /\ task # StreamTask(s)
      BY EmptySeq DEF Init, NoTask, StreamTask
    <2> QED
      BY <2>1 DEF OrderInv, QueueInv, WorkInv, Current
  <1>3. Promise!Init
    BY DEF Init, Promise!Init
  <1> QED
    BY <1>1, <1>2, <1>3 DEF OrderedInv

(***************************************************************************)
(* The bounded queue, the puts that time out and are tried again, and the  *)
(* cancel event (lines 112-127, 136-142 and 173-189) give the caller of    *)
(* stream the values in order, then their end, for any number of streams   *)
(* and any capacity.                                                       *)
(***************************************************************************)
THEOREM StreamsKeepOrder == Spec => ImplementsStreams
<1>1. Init => OrderedInv /\ Promise!Init
  BY InitOrder
<1>2. OrderedInv /\ [Next]_vars => OrderedInv' /\ [Promise!Next]_(Promise!streamVars)
  BY OrderStep
<1> QED
  BY <1>1, <1>2, PTL DEF Spec, ImplementsStreams, Promise!Spec
=============================================================================
