-------------------------- MODULE MCOperatorTools --------------------------
(***************************************************************************)
(* Small instances of the tools around the worker for TLC: the export      *)
(* command, logging in, and the signal parser.  They share no state, so a  *)
(* behaviour runs one of them, `tool`; "ask" only asks what an export      *)
(* delivers, of many more chats and arguments than are written to files.   *)
(***************************************************************************)
EXTENDS OperatorExport, Authorization, SignalParser

VARIABLE tool

(***************************************************************************)
(* A forum whose topic 2 has a root, a message written directly into it    *)
(* and a reply, with a message of no topic between them.                   *)
(***************************************************************************)
Message(id, sec, topic, top) ==
    [id |-> id, sec |-> sec, topic |-> topic, top |-> top, creates |-> id = topic]

Posted(date) ==
    <<Message(2, date[1], 2, 0), Message(3, date[2], 2, 0),
      Message(4, date[3], 0, 0), Message(5, date[4], 2, 2)>>

Dates == {d \in [1..4 -> 0..2] : \A i \in 1..3 : d[i] <= d[i + 1]}

Chat(date, listsRoot, listsEdge) ==
    [forum |-> TRUE, topics |-> {2, 6}, history |-> Posted(date),
     listsRoot |-> listsRoot, listsEdge |-> listsEdge]

Bounds == {{}} \cup {{[unit |-> "ms", n |-> n]} : n \in 1..5}
               \cup {{[unit |-> "day", n |-> n]} : n \in 0..1}

Args(topics, bounds, limits) ==
    [topic : topics, from : bounds, to : bounds, limit : limits,
     order : {"oldest_first", "newest_first"}]

Job(chat, args) == [chat |-> chat, args |-> args, toFile |-> FALSE, authorized |-> TRUE]

Questions ==
    {Job(Chat(d, r, e), a) : d \in Dates, r \in BOOLEAN, e \in BOOLEAN,
                             a \in Args({0, 2}, Bounds, {{}, {1}, {2}})}
    \cup {Job([Chat(d, TRUE, TRUE) EXCEPT !.forum = f], a) :
              d \in Dates, f \in BOOLEAN, a \in Args({-1, 0, 1, 2, 4, 6}, {{}}, {{}})}

(***************************************************************************)
(* What is exported to a file: a topic, a day of the chat in the other     *)
(* order; also to stdout, not authorized, or with bounds out of order.     *)
(***************************************************************************)
SomeChat == Chat(<<0, 1, 1, 2>>, FALSE, FALSE)
Whole == [topic |-> 0, from |-> {}, to |-> {}, limit |-> {}, order |-> "oldest_first"]
LastTwo == [Whole EXCEPT !.topic = 2, !.limit = {2}, !.order = "newest_first"]
Bound(n) == {[unit |-> "ms", n |-> n]}

FileJobs ==
    {[Job(SomeChat, Whole) EXCEPT !.toFile = TRUE],
     [Job(SomeChat, LastTwo) EXCEPT !.toFile = TRUE],
     [Job(SomeChat, LastTwo) EXCEPT !.toFile = TRUE, !.authorized = FALSE],
     [Job(SomeChat, [Whole EXCEPT !.from = Bound(2), !.to = Bound(1)]) EXCEPT !.toFile = TRUE],
     Job(SomeChat, LastTwo)}

OldLines == <<[id |-> 1, topic |-> 0]>>

(***************************************************************************)
(* Messages with up to three matches of two rules.  Five minutes and 300   *)
(* seconds mean the same, a unit without an amount means nothing.          *)
(***************************************************************************)
Captures ==
    {[what |-> "up", amount |-> {5}, unit |-> ""],
     [what |-> "up", amount |-> {300}, unit |-> "s"],
     [what |-> "up", amount |-> {}, unit |-> "s"],
     [what |-> "down", amount |-> {}, unit |-> ""],
     [what |-> "", amount |-> {}, unit |-> ""]}

Spans == {<<0, 1>>, <<0, 2>>, <<1, 2>>, <<1, 3>>, <<2, 3>>, <<0, 3>>, <<1, 1>>}

Match(s, r, c) ==
    [start |-> s[1], end |-> s[2], rule |-> r, what |-> c.what, amount |-> c.amount, unit |-> c.unit]

SomeMatches == {Match(s, r, c) : s \in Spans, r \in 1..2, c \in Captures}

UpToThree == {{}} \cup {{m, n, o} : m, n, o \in SomeMatches}

Seconds == [s |-> 1, m |-> 60]

(***************************************************************************)
(* One tool at a time.                                                     *)
(***************************************************************************)
ExportRests ==
    /\ run = "idle" /\ given = 0 /\ final = {} /\ part = {} /\ before = {}
    /\ undone = {} /\ code = "none" /\ runs = 0

AuthRests ==
    /\ account = FALSE /\ twoFactor = FALSE /\ sent = {} /\ locked = FALSE /\ codes = 0
    /\ authPhone = {} /\ phoneCodeHash = {} /\ passwordRequired = FALSE
    /\ answer = Failure /\ lost = FALSE /\ script = "host" /\ requests = 0

ParserRests == Collect({})

Init ==
    \/ tool = "ask" /\ ExportRests /\ job \in Questions /\ AuthRests /\ ParserRests
    \/ tool = "export" /\ ExportInit /\ AuthRests /\ ParserRests
    \/ tool = "authorize" /\ AuthInit /\ ExportRests /\ job = Job(SomeChat, Whole) /\ ParserRests
    \/ tool = "parse" /\ ParserInit /\ ExportRests /\ job = Job(SomeChat, Whole) /\ AuthRests

Next ==
    \/ tool = "export" /\ ExportNext /\ UNCHANGED <<tool, authVars, parserVars>>
    \/ tool = "authorize" /\ AuthNext /\ UNCHANGED <<tool, exportVars, parserVars>>
    \/ tool = "parse" /\ ParserNext /\ UNCHANGED <<tool, exportVars, authVars>>

Spec == Init /\ [][Next]_<<tool, exportVars, authVars, parserVars>>

(***************************************************************************)
(* The exit codes of both commands tell what they left behind.             *)
(***************************************************************************)
ExitCodesTell == ExportExitTells /\ AuthorizeExitTells
=============================================================================
