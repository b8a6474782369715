--------------------------- MODULE ResultStreams ---------------------------
(***************************************************************************)
(* What _TelethonRuntime.stream promises its caller: the values arrive in  *)
(* the order they were made, none skipped or repeated; the end, or the     *)
(* failure, arrives after the last of them; and the caller may leave after *)
(* any value.  Each stream is independent of the others.                   *)
(***************************************************************************)
EXTENDS Naturals

CONSTANT Streams

VARIABLES
    made,   \* [Streams -> how many values the operation has emitted]
    ended,  \* [Streams -> how the operation ended: "open" while it has not]
    got,    \* [Streams -> the last value the caller was given]
    seen    \* [Streams -> how the stream ended for its caller]

streamVars == <<made, ended, got, seen>>

Init ==
    /\ made = [s \in Streams |-> 0] /\ got = [s \in Streams |-> 0]
    /\ ended = [s \in Streams |-> "open"] /\ seen = [s \in Streams |-> "open"]

Make(s) ==
    /\ ended[s] = "open"
    /\ made' = [made EXCEPT ![s] = @ + 1]
    /\ UNCHANGED <<ended, got, seen>>

End(s) ==
    /\ ended[s] = "open"
    /\ \E how \in {"done", "failed"} : ended' = [ended EXCEPT ![s] = how]
    /\ UNCHANGED <<made, got, seen>>

Give(s) ==
    /\ seen[s] = "open" /\ got[s] < made[s]
    /\ got' = [got EXCEPT ![s] = @ + 1]
    /\ UNCHANGED <<made, ended, seen>>

GiveEnd(s) ==
    /\ seen[s] = "open" /\ got[s] = made[s] /\ ended[s] # "open"
    /\ seen' = [seen EXCEPT ![s] = ended[s]]
    /\ UNCHANGED <<made, ended, got>>

Leave(s) ==
    /\ seen[s] = "open" /\ got[s] > 0
    /\ seen' = [seen EXCEPT ![s] = "left"]
    /\ UNCHANGED <<made, ended, got>>

Next == \E s \in Streams : Make(s) \/ End(s) \/ Give(s) \/ GiveEnd(s) \/ Leave(s)

Spec == Init /\ [][Next]_streamVars
=============================================================================
