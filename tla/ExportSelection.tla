-------------------------- MODULE ExportSelection --------------------------
(***************************************************************************)
(* Which messages of a chat an export delivers: the operator's arguments   *)
(* become a query, the server asks its backend for one message more than   *)
(* the limit, and the backend asks Telethon with a date offset and drops   *)
(* what the offset was too coarse to exclude.                              *)
(*                                                                         *)
(* A value that may be missing is a set of at most one element.  A message *)
(* of a history is [id, sec, topic, top, creates]: its date in seconds,    *)
(* the forum topic Telegram files it under (0: none), its reply_to_top_id  *)
(* (0: none; a message written directly into a topic has none) and whether *)
(* it is the service message that created the topic, whose id the topic    *)
(* has.  A history ascends in ids and does not descend in dates.           *)
(***************************************************************************)
EXTENDS Integers, SequencesExt

CONSTANTS
    Second,    \* milliseconds in a second
    Day,       \* milliseconds in a day
    Int32Max   \* the last second that Telegram can be asked about

ASSUME SelectionAssumption ==
    Second \in Nat \ {0} /\ Day \in Nat \ {0} /\ Int32Max \in Nat

\* A message comes after the topic it is filed under was created.
MessageSet == [id : Nat, sec : Nat, topic : Nat, top : Nat, creates : BOOLEAN]

IsChat(chat) ==
    /\ chat.history \in Seq(MessageSet)
    /\ \A i, j \in DOMAIN chat.history : i < j =>
         /\ chat.history[i].id < chat.history[j].id
         /\ chat.history[i].sec <= chat.history[j].sec
    /\ \A m \in Range(chat.history) : /\ m.topic <= m.id
                                      /\ m.id \in chat.topics => m.topic = m.id

DateBound == [unit : {"ms", "day"}, n : Int]

ArgsSet ==
    [topic : Int, from : SUBSET DateBound, to : SUBSET DateBound,
     limit : SUBSET Nat, order : {"oldest_first", "newest_first"}]

IsArgs(args) == args \in ArgsSet /\ \A m, n \in args.limit : m = n

Ms(m) == m.sec * Second

\* The first messages of s, as many as the limit allows.
Take(s, limit) == SubSeq(s, 1, Min({Len(s)} \cup limit))

\* The members of S among the elements of s, in their order.
Sift(s, S) ==
    LET sifted[i \in 0..Len(s)] ==
            IF i = 0 THEN <<>>
            ELSE IF s[i] \in S THEN Append(sifted[i - 1], s[i]) ELSE sifted[i - 1]
    IN  sifted[Len(s)]

NewestFirst(q) == q.order = "newest_first"
Ordered(q, s) == IF NewestFirst(q) THEN Reverse(s) ELSE s
-----------------------------------------------------------------------------
(***************************************************************************)
(* The operator's arguments.  A date bound is in milliseconds or names a   *)
(* day, whose last millisecond is meant by an upper bound.                 *)
(***************************************************************************)
BoundMs(b, upper) ==
    CASE b.unit = "ms"           -> b.n
      [] b.unit = "day" /\ upper  -> (b.n + 1) * Day - 1
      [] b.unit = "day" /\ ~upper -> b.n * Day

ExportQuery(args) ==
    [topic |-> args.topic, order |-> args.order, limit |-> args.limit,
     from |-> {BoundMs(b, FALSE) : b \in args.from},
     to |-> {BoundMs(b, TRUE) : b \in args.to}]

\* "--from must not be later than --to".
ValidQuery(q) == \A f \in q.from, t \in q.to : f <= t
-----------------------------------------------------------------------------
(***************************************************************************)
(* The Telethon backend.                                                   *)
(***************************************************************************)
General == 1

OffsetOutOfRange(q) ==
    IF NewestFirst(q)
    THEN \E t \in q.to : t \div Second > Int32Max
    ELSE \E f \in q.from : f \div Second - 1 > Int32Max

OffsetDateTooEarly(q) ==  \* Mutant: the second of the bound is not rounded up.
    IF NewestFirst(q)
    THEN {t \div Second : t \in {x \in q.to : x \div Second < Int32Max}}
    ELSE {f \div Second - 1 : f \in q.from}

OffsetDate(q) ==
    IF NewestFirst(q)
    THEN {t \div Second + 1 : t \in {x \in q.to : x \div Second < Int32Max}}
    ELSE {f \div Second - 1 : f \in q.from}

\* With a date bound the limit cannot be left to Telethon.
FetchLimit(q) == IF q.from \cup q.to = {} THEN q.limit ELSE {}

Roots(chat, q) == {m \in Range(chat.history) : m.id = q.topic}

TopicIdInvalid(q) == q.topic < 0  \* not a decimal number

ResolvesForumTopic(chat, q) == q.topic \in chat.topics

Refuses(chat, q) ==
    \/ TopicIdInvalid(q)
    \/ OffsetOutOfRange(q)
    \/ /\ q.topic # 0
       /\ \/ ~chat.forum
          \/ q.topic = General
          \/ ~ResolvesForumTopic(chat, q)
          \/ Roots(chat, q) = {}                    \* the root was deleted

(***************************************************************************)
(* Telethon's iter_messages.  The offset excludes what lies on its other   *)
(* side; whether it excludes its own second too, and whether the replies   *)
(* of a topic contain its root, is Telegram's choice.                      *)
(***************************************************************************)
Listed(chat, q, m) ==
    /\ q.topic = 0 \/ (m.topic = q.topic /\ (m.id # q.topic \/ chat.listsRoot))
    /\ \A o \in OffsetDate(q) :
         \/ IF NewestFirst(q) THEN m.sec < o ELSE m.sec > o
         \/ m.sec = o /\ chat.listsEdge

IterMessages(chat, q) ==
    LET listed == {m \in Range(chat.history) : Listed(chat, q, m)}
    IN  Take(Ordered(q, Sift(chat.history, listed)), FetchLimit(q))

MergeTopicRoot(root, replies, q) ==
    LET others == Sift(replies, {m \in Range(replies) : m.id # root.id})
    IN  IF NewestFirst(q) THEN Append(others, root) ELSE <<root>> \o others

Candidates(chat, q) ==
    IF q.topic = 0 THEN IterMessages(chat, q)
    ELSE MergeTopicRoot(CHOOSE m \in Roots(chat, q) : TRUE, IterMessages(chat, q), q)

PastRequestedRange(q, ms) ==
    IF NewestFirst(q) THEN \E f \in q.from : ms < f ELSE \E t \in q.to : ms > t

UpToPast(q, s) ==
    SubSeq(s, 1, Min({Len(s)} \cup {i - 1 : i \in {k \in DOMAIN s : PastRequestedRange(q, Ms(s[k]))}}))

InRange(q, ms) == (\A f \in q.from : f <= ms) /\ (\A t \in q.to : ms <= t)

KeptOf(q, s) == Sift(s, {m \in Range(s) : InRange(q, Ms(m))})

\* The topic in a message's identity, when it is exported for q.
MessageTopicId(m, q, forum) ==
    CASE q.topic # 0 /\ m.id = q.topic -> q.topic
      [] ~forum                        -> 0
      [] m.top > 0                     -> m.top
      [] m.creates                     -> m.id
      [] OTHER                         -> q.topic

Identify(chat, q, s) ==
    [i \in DOMAIN s |-> [id |-> s[i].id, topic |-> MessageTopicId(s[i], q, chat.forum)]]

ExportOnRuntime(chat, q) ==
    LET kept == KeptOf(q, UpToPast(q, Candidates(chat, q)))
    IN  Identify(chat, q, Take(kept, q.limit))
-----------------------------------------------------------------------------
(***************************************************************************)
(* The mock backend: its own few messages, without offset or early end,    *)
(* and under whatever topic was asked for.                                 *)
(***************************************************************************)
MockExport(history, q) ==
    LET some == Take(KeptOf(q, Ordered(q, history)), q.limit)
    IN  [i \in DOMAIN some |-> [id |-> some[i].id, topic |-> q.topic]]

(***************************************************************************)
(* The server asks its backend for one message more than the limit.        *)
(***************************************************************************)
BackendQuery(q) == [q EXCEPT !.limit = {n + 1 : n \in @}]

Served(found, q) ==
    LET sent == Take(found, q.limit)
    IN  [messages |-> sent, truncated |-> Len(found) > Len(sent)]

Exported(chat, args) ==
    LET q == ExportQuery(args) IN Served(ExportOnRuntime(chat, BackendQuery(q)), q)

MockExported(history, args) ==
    LET q == ExportQuery(args) IN Served(MockExport(history, BackendQuery(q)), q)
-----------------------------------------------------------------------------
(***************************************************************************)
(* What an export should deliver, said without offsets or loops: the       *)
(* messages of the topic whose date, or day, is within the bounds, in      *)
(* order, the first of them when there is a limit, and whether any is left.*)
(***************************************************************************)
Within(args, m) ==
    LET Date(b) == IF b.unit = "day" THEN Ms(m) \div Day ELSE Ms(m)
    IN  (\A b \in args.from : b.n <= Date(b)) /\ (\A b \in args.to : Date(b) <= b.n)

Asked(history, args) ==
    {m.id : m \in {x \in Range(history) :
                     Within(args, x) /\ (args.topic = 0 \/ x.topic = args.topic)}}

Answers(result, asked, args) ==
    LET Id(i) == result.messages[i].id
        Before(x, y) == IF args.order = "newest_first" THEN x > y ELSE x < y
        given == {Id(i) : i \in DOMAIN result.messages}
        rest == asked \ given
    IN  /\ given \subseteq asked
        /\ \A i, j \in DOMAIN result.messages : i < j => Before(Id(i), Id(j))
        /\ rest # {} => args.limit = {Len(result.messages)}
        /\ \A x \in given, y \in rest : Before(x, y)
        /\ result.truncated = (rest # {})
=============================================================================
