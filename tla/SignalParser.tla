---------------------------- MODULE SignalParser ----------------------------
(***************************************************************************)
(* How parse_message settles the matches of its rules: the candidates are  *)
(* taken from left to right; one that overlaps an accepted candidate of    *)
(* another meaning withdraws it and blocks the region of both.  Signals    *)
(* and outcomes are settled apart, each as here.                           *)
(*                                                                         *)
(* A match is [start, end, rule, what, amount, unit]: where it is in the   *)
(* text, the number of its rule, what it captured (symbol and direction,   *)
(* or result and symbol; empty when one is not known), and its expiry.  An *)
(* amount that is missing is the empty set.                                *)
(***************************************************************************)
EXTENDS Integers, FiniteSets

CONSTANTS
    Messages,      \* the messages: sets of matches
    MaxLength,     \* the length of the longest text
    Unit,          \* seconds of each unit of time
    DefaultUnit    \* the unit of an amount that has none

\* A match is a span of the text.
ASSUME ParserAssumption ==
    /\ MaxLength \in Nat
    /\ \A found \in Messages : \A m \in found : m.end \in 0..MaxLength /\ m.start \in 0..m.end

VARIABLES
    todo,         \* candidates not looked at yet
    accepted,
    blocked,      \* regions [start, end]
    misses,       \* signal_rule_miss and outcome_rule_miss diagnostics
    ambiguities,  \* ambiguous_overlapping diagnostics
    seen          \* history: the candidates looked at

parserVars == <<todo, accepted, blocked, misses, ambiguities, seen>>

Overlap(c, d) == c.start < d.end /\ d.start < c.end

\* No unit without an amount, and no amount of an unknown unit.
ValidExpiry(m) ==
    IF m.amount = {} THEN m.unit = "" ELSE m.unit \in DOMAIN Unit \cup {""}

Valid(m) == m.what # "" /\ ValidExpiry(m)

ExpirySeconds(m) ==
    LET unit == IF m.unit = "" THEN DefaultUnit ELSE m.unit
    IN  {n * Unit[unit] : n \in m.amount}

Candidate(m) ==
    [start |-> m.start, end |-> m.end, rule |-> m.rule,
     signature |-> <<m.what, ExpirySeconds(m)>>]

\* finditer: the matches of one rule do not overlap.
FoundBy(found) ==
    \A m, n \in found : m # n /\ m.rule = n.rule => ~Overlap(m, n) /\ <<m.start, m.end>> # <<n.start, n.end>>

Collect(found) ==
    /\ FoundBy(found)
    /\ todo = {Candidate(m) : m \in {x \in found : Valid(x)}}
    /\ misses = Cardinality({x \in found : ~Valid(x)})
    /\ accepted = {} /\ blocked = {} /\ ambiguities = 0 /\ seen = {}

\* sorted: by start, then rule, then end.
Sooner(c, d) ==
    \/ c.start < d.start
    \/ c.start = d.start /\ c.rule < d.rule
    \/ c.start = d.start /\ c.rule = d.rule /\ c.end < d.end

Takes(c) ==
    /\ c \in todo
    /\ \A d \in todo : ~Sooner(d, c)
    /\ todo' = todo \ {c}
    /\ seen' = seen \cup {c}
    /\ UNCHANGED misses

Overlapped(c) == {a \in accepted : Overlap(c, a)}
IsBlocked(c) == \E b \in blocked : Overlap(c, b)
IsDuplicate(c) == \E a \in Overlapped(c) : a.signature = c.signature

SkipBlocked(c) ==
    /\ Takes(c)
    /\ IsBlocked(c)
    /\ UNCHANGED <<accepted, blocked, ambiguities>>

SkipDuplicate(c) ==
    /\ Takes(c)
    /\ ~IsBlocked(c) /\ IsDuplicate(c)
    /\ UNCHANGED <<accepted, blocked, ambiguities>>

Least(S) == CHOOSE x \in S : \A y \in S : x <= y
Greatest(S) == CHOOSE x \in S : \A y \in S : y <= x

\* The region of a conflict.
Hull(c) ==
    LET group == {c} \cup Overlapped(c)
    IN  [start |-> Least({d.start : d \in group}), end |-> Greatest({d.end : d \in group})]

ConflictOwnSpan(c) ==  \* Mutant: only the candidate's own span is blocked.
    /\ Takes(c)
    /\ ~IsBlocked(c) /\ ~IsDuplicate(c) /\ Overlapped(c) # {}
    /\ accepted' = accepted \ Overlapped(c)
    /\ blocked' = blocked \cup {[start |-> c.start, end |-> c.end]}
    /\ ambiguities' = ambiguities + 1

Conflict(c) ==
    /\ Takes(c)
    /\ ~IsBlocked(c) /\ ~IsDuplicate(c) /\ Overlapped(c) # {}
    /\ accepted' = accepted \ Overlapped(c)
    /\ blocked' = blocked \cup {Hull(c)}
    /\ ambiguities' = ambiguities + 1

Accept(c) ==
    /\ Takes(c)
    /\ ~IsBlocked(c) /\ Overlapped(c) = {}
    /\ accepted' = accepted \cup {c}
    /\ UNCHANGED <<blocked, ambiguities>>

ParserInit == \E found \in Messages : Collect(found)

ParserNext == \E c \in todo : SkipBlocked(c) \/ SkipDuplicate(c) \/ Conflict(c) \/ Accept(c)

ParserSpec == ParserInit /\ [][ParserNext]_parserVars
-----------------------------------------------------------------------------
(***************************************************************************)
(* No two results overlap, none lies in a region reported as ambiguous,    *)
(* and a candidate is dropped only for such a region or for a result that  *)
(* says the same in the same place.                                        *)
(***************************************************************************)
Disjoint == \A c, d \in accepted : c # d => ~Overlap(c, d)

OutsideBlocked == \A a \in accepted, b \in blocked : ~Overlap(a, b)

Explained ==
    \A c \in seen :
        \/ c \in accepted
        \/ \E b \in blocked : Overlap(c, b)
        \/ \E a \in accepted : a.signature = c.signature /\ Overlap(c, a)

MatchesSettled == Disjoint /\ OutsideBlocked /\ Explained /\ Cardinality(blocked) <= ambiguities
=============================================================================
