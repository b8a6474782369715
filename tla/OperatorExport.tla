--------------------------- MODULE OperatorExport ---------------------------
(***************************************************************************)
(* The operator's `export` command: it streams an export into a .part file *)
(* beside the final one, and makes it the final file when it is complete.  *)
(* Every step may fail, the process may be killed between any two, and the *)
(* machine may lose power, which takes what was not synced.                *)
(*                                                                         *)
(* A file is a set of at most one [data, synced, whole]: its lines, how    *)
(* many of them are on the disk, and, as history, whether it holds an      *)
(* export to its end.                                                      *)
(***************************************************************************)
EXTENDS ExportSelection

CONSTANTS
    Jobs,     \* [chat, args, toFile, authorized]: what the operator may ask
    Earlier,  \* the messages a file may hold before the first run
    MaxRuns   \* runs of the command

VARIABLES
    run,      \* where run_export is
    job,      \* what it was asked
    given,    \* messages it wrote
    final,    \* the output file
    part,     \* the .part file
    before,   \* history: the output file when the run began
    undone,   \* both files before a replacement that the disk may not have yet
    code,     \* exit code of the last run
    runs      \* runs so far

exportVars == <<run, job, given, final, part, before, undone, code, runs>>

Stages ==
    {"idle", "query", "open", "start", "stream", "sync", "replace", "close"}
Codes == {"none", "ok", "failed", "killed", "off"}

\* The worker refuses the export before its first message.
Refused(j) == ~j.authorized \/ Refuses(j.chat, ExportQuery(j.args))
Result(j) == Exported(j.chat, j.args)
Lines(j) == Result(j).messages

\* A job says what is asked of which chat, and whether it writes a file.
ASSUME JobsAssumption ==
    /\ MaxRuns \in Nat
    /\ Earlier \in Seq(Range(Earlier))
    /\ \A j \in Jobs : j.toFile \in BOOLEAN /\ IsChat(j.chat) /\ IsArgs(j.args)

File(data, synced, whole) == {[data |-> data, synced |-> synced, whole |-> whole]}

ExportInit ==
    /\ run = "idle" /\ job \in Jobs /\ given = 0
    /\ final \in {{}, File(Earlier, Len(Earlier), TRUE)}
    /\ part = {} /\ before = final /\ undone = {}
    /\ code = "none" /\ runs = 0

Goes(from, to) == run = from /\ run' = to

\* run_export raises; its `finally` closes the worker if there is one.
Raises(from, to) ==
    /\ Goes(from, to)
    /\ code' = "failed"
    /\ UNCHANGED <<job, given, final, part, before, undone, runs>>

Begin ==
    /\ Goes("idle", "query")
    /\ runs < MaxRuns
    /\ job' \in Jobs
    /\ before' = final
    /\ runs' = runs + 1 /\ given' = 0 /\ code' = "none"
    /\ UNCHANGED <<final, part, undone>>

QueryParsed ==
    /\ Goes("query", "open")
    /\ ValidQuery(ExportQuery(job.args))
    /\ UNCHANGED <<job, given, final, part, before, undone, code, runs>>

QueryInvalid == ~ValidQuery(ExportQuery(job.args)) /\ Raises("query", "idle")

OpenOutputAppends ==  \* Mutant: open("a") keeps what an earlier run left.
    /\ Goes("open", "start")
    /\ part' = IF job.toFile /\ part = {} THEN File(<<>>, 0, FALSE) ELSE part
    /\ UNCHANGED <<job, given, final, before, undone, code, runs>>

\* open("w") empties what an earlier run left.
OpenOutput ==
    /\ Goes("open", "start")
    /\ part' = IF job.toFile THEN File(<<>>, 0, FALSE) ELSE part
    /\ UNCHANGED <<job, given, final, before, undone, code, runs>>

OpenFails == job.toFile /\ Raises("open", "idle")

StartWorker ==
    /\ Goes("start", "stream")
    /\ UNCHANGED <<job, given, final, part, before, undone, code, runs>>

\* _start_worker closes what it started; missing options, a worker that exits
\* or a hello that times out all end here.
StartFails == Raises("start", "idle")

\* write_message: a line, and a flush of Python's buffer.
WriteMessage ==
    /\ Goes("stream", "stream")
    /\ ~Refused(job) /\ given < Len(Lines(job))
    /\ given' = given + 1
    /\ part' = IF job.toFile
               THEN {[f EXCEPT !.data = Append(@, Lines(job)[given'])] : f \in part}
               ELSE part
    /\ UNCHANGED <<job, final, before, undone, code, runs>>

\* The worker refuses or ends, the disk is full, or Ctrl-C.
StreamFails == Raises("stream", "close")

StreamEnds ==
    /\ ~Refused(job) /\ given = Len(Lines(job))
    /\ Goes("stream", IF job.toFile THEN "sync" ELSE "close")
    /\ part' = IF job.toFile THEN {[f EXCEPT !.whole = TRUE] : f \in part} ELSE part
    /\ code' = IF job.toFile THEN code ELSE "ok"
    /\ UNCHANGED <<job, given, final, before, undone, runs>>

CommitSyncForgotten ==  \* Mutant: os.replace without fsync.
    /\ Goes("sync", "replace")
    /\ UNCHANGED <<job, given, final, part, before, undone, code, runs>>

CommitSync ==
    /\ Goes("sync", "replace")
    /\ part' = {[f EXCEPT !.synced = Len(f.data)] : f \in part}
    /\ UNCHANGED <<job, given, final, before, undone, code, runs>>

CommitReplace ==
    /\ Goes("replace", "close")
    /\ final' = part /\ part' = {}
    /\ undone' = undone \cup {[final |-> final, part |-> part]}
    /\ code' = "ok"
    /\ UNCHANGED <<job, given, before, runs>>

CommitFails == Raises("sync", "close") \/ Raises("replace", "close")

Close ==
    /\ Goes("close", "idle")
    /\ UNCHANGED <<job, given, final, part, before, undone, code, runs>>

\* process.close raises when the killed worker is not reaped in time; main
\* then fails although the file may have been replaced.
CloseFails == Raises("close", "idle")

Killed ==
    /\ run # "idle" /\ run' = "idle"
    /\ code' = "killed"
    /\ UNCHANGED <<job, given, final, part, before, undone, runs>>

\* What the disk may hold of a file after the power was lost.
Left(f) == UNION {File(SubSeq(f.data, 1, n), n, f.whole /\ n = Len(f.data)) : n \in f.synced..Len(f.data)}
Survivors(file) == IF file = {} THEN {{}} ELSE {{g} : g \in UNION {Left(f) : f \in file}}

\* The directory is never synced, so replacements may be lost too, the last ones first.
PowerLoss ==
    /\ run' = "idle" /\ code' = "off"
    /\ \/ final' \in Survivors(final) /\ part' \in Survivors(part)
       \/ \E files \in undone : final' = files.final /\ part' \in Survivors(files.part)
    /\ undone' = {}
    /\ UNCHANGED <<job, given, before, runs>>

RunsExport ==
    \/ QueryParsed \/ QueryInvalid
    \/ OpenOutput \/ OpenFails
    \/ StartWorker \/ StartFails
    \/ WriteMessage \/ StreamFails \/ StreamEnds
    \/ CommitSync \/ CommitReplace \/ CommitFails
    \/ Close \/ CloseFails

ExportNext == Begin \/ RunsExport \/ Killed \/ PowerLoss

ExportSpec == ExportInit /\ [][ExportNext]_exportVars
-----------------------------------------------------------------------------
(***************************************************************************)
(* The backends deliver what was asked for (offset dates, early end, limit *)
(* and merged root change nothing), and so does the mock for its messages. *)
(***************************************************************************)
ExportSelects ==
    LET valid == ValidQuery(ExportQuery(job.args))
    IN  /\ valid /\ ~Refused(job) =>
             Answers(Result(job), Asked(job.chat.history, job.args), job.args)
        /\ valid =>
             LET whole == [job.args EXCEPT !.topic = 0]
             IN  Answers(MockExported(job.chat.history, job.args),
                         Asked(job.chat.history, whole), whole)

(***************************************************************************)
(* Whatever fails and whenever the machine stops, the output file is what  *)
(* it was or a whole export, and one that is on the disk.                  *)
(***************************************************************************)
FinalIsComplete == \A f \in final : f.whole /\ f.synced = Len(f.data)

(***************************************************************************)
(* After a run the file is as before or holds what this run exported, and  *)
(* it holds it when the exit code says so.  Only a power loss may also     *)
(* undo what the runs before it have done.                                 *)
(***************************************************************************)
Holds(file, lines) == file # {} /\ \A f \in file : f.data = lines

ExportExitTells ==
    run = "idle" /\ runs > 0 =>
        /\ final = before \/ Holds(final, Lines(job)) \/ (code = "off" /\ runs > 1)
        /\ code = "ok" /\ job.toFile => Holds(final, Lines(job))

(***************************************************************************)
(* "The topic component is derived from the message itself, so exporting a *)
(* message from the whole chat and exporting the same message through a    *)
(* topic filter yields the same identity."                                 *)
(***************************************************************************)
SameIdentity ==
    LET throughTopic == {Lines(job)[i] : i \in DOMAIN Lines(job)}
        whole == [job EXCEPT !.args.topic = 0, !.args.limit = {}]
        wholeChat == {Lines(whole)[i] : i \in DOMAIN Lines(whole)}
    IN  ~Refused(job) => throughTopic \subseteq wholeChat
=============================================================================
