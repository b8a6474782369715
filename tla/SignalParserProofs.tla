------------------------- MODULE SignalParserProofs -------------------------
(***************************************************************************)
(* Theorems about SignalParser, for every set of messages whose matches    *)
(* are spans of a text, and every number of rules.                         *)
(***************************************************************************)
EXTENDS SignalParser, FiniteSetTheorems, WellFoundedInduction, TLAPS

IsSpan(c) == c.end \in 0..MaxLength /\ c.start \in 0..c.end

(***************************************************************************)
(* The ends of a conflict's region exist.                                  *)
(***************************************************************************)
LEMMA SmallestExists ==
    ASSUME NEW S, S \subseteq Nat, S # {}
    PROVE  \E x \in S : \A y \in S : x <= y
  <1>1. PICK x \in S : \A y \in S : <<y, x>> \notin OpToRel(<, Nat)
    BY NatLessThanWellFounded, WFMin
  <1>2. ASSUME NEW y \in S PROVE x <= y
    <2>1. ~(y < x)
      BY <1>1 DEF OpToRel
    <2> QED
      BY <2>1
  <1> QED
    BY <1>2

LEMMA LeastFacts ==
    ASSUME NEW S, S \subseteq Nat, S # {}
    PROVE  Least(S) \in S /\ \A y \in S : Least(S) <= y
  <1>1. \E x \in S : \A y \in S : x <= y
    BY SmallestExists
  <1> QED
    BY <1>1 DEF Least

LEMMA GreatestFacts ==
    ASSUME NEW S, S \subseteq 0..MaxLength, S # {}
    PROVE  Greatest(S) \in S /\ \A y \in S : y <= Greatest(S)
  <1>1. MaxLength \in Nat
    BY ParserAssumption
  <1> DEFINE T == {MaxLength - y : y \in S}
  <1>2. T \subseteq Nat /\ T # {}
    <2>1. ASSUME NEW y \in S PROVE MaxLength - y \in Nat
      BY <1>1
    <2>2. T \subseteq Nat
      BY <2>1
    <2>3. PICK y \in S : TRUE
      OBVIOUS
    <2>4. MaxLength - y \in T
      OBVIOUS
    <2> QED
      BY <2>2, <2>4
  <1>3. PICK t \in T : \A u \in T : t <= u
    BY <1>2, SmallestExists
  <1>4. PICK x \in S : t = MaxLength - x
    BY <1>3
  <1>5. ASSUME NEW y \in S PROVE y <= x
    <2>1. MaxLength - y \in T
      OBVIOUS
    <2>2. t <= MaxLength - y
      BY <1>3, <2>1
    <2>3. x \in Int /\ y \in Int
      BY <1>4
    <2> QED
      BY <1>1, <1>4, <2>2, <2>3
  <1>6. x \in S /\ \A y \in S : y <= x
    BY <1>4, <1>5
  <1> QED
    BY <1>6 DEF Greatest

\* The region of a conflict holds the candidate and everything that it overlaps.
LEMMA HullFacts ==
    ASSUME NEW c, IsSpan(c), \A a \in accepted : IsSpan(a)
    PROVE  /\ Hull(c).start \in Nat /\ Hull(c).end \in Nat
           /\ \E x \in {c} \cup Overlapped(c) : Hull(c).start = x.start
           /\ \E x \in {c} \cup Overlapped(c) : Hull(c).end = x.end
           /\ \A x \in {c} \cup Overlapped(c) : Hull(c).start <= x.start /\ x.end <= Hull(c).end
  <1> DEFINE group == {c} \cup Overlapped(c)
             starts == {d.start : d \in group}
             ends == {d.end : d \in group}
  <1>1. \A d \in group : IsSpan(d)
    BY DEF Overlapped
  <1>2. starts \subseteq Nat /\ starts # {} /\ ends \subseteq 0..MaxLength /\ ends # {}
    BY <1>1, ParserAssumption DEF IsSpan
  <1>3. Hull(c) = [start |-> Least(starts), end |-> Greatest(ends)]
    BY DEF Hull
  <1>4. Hull(c).start = Least(starts) /\ Hull(c).end = Greatest(ends)
    BY <1>3
  <1>5. Least(starts) \in starts /\ \A y \in starts : Least(starts) <= y
    BY <1>2, LeastFacts
  <1>6. Greatest(ends) \in ends /\ \A y \in ends : y <= Greatest(ends)
    BY <1>2, GreatestFacts
  <1>7. ends \subseteq Nat
    BY <1>2, ParserAssumption
  <1> QED
    BY <1>2, <1>4, <1>5, <1>6, <1>7
-----------------------------------------------------------------------------
(***************************************************************************)
(* The inductive invariant.                                                *)
(***************************************************************************)
SpansInv ==
    /\ \A c \in todo \cup accepted \cup seen : IsSpan(c)
    /\ \A b \in blocked : b.start \in Nat /\ b.end \in Nat
    /\ accepted \subseteq seen

CountInv == IsFiniteSet(blocked) /\ ambiguities \in Nat /\ Cardinality(blocked) <= ambiguities

ParserInv == SpansInv /\ CountInv /\ Disjoint /\ OutsideBlocked /\ Explained

LEMMA OverlapSymmetric == \A c, d : Overlap(c, d) = Overlap(d, c)
  BY DEF Overlap

LEMMA ParserInvInit == ParserInit => ParserInv
  <1> SUFFICES ASSUME NEW found \in Messages, Collect(found) PROVE ParserInv
    BY DEF ParserInit
  <1>1. \A m \in found : IsSpan(Candidate(m))
    BY ParserAssumption DEF IsSpan, Candidate
  <1>2. SpansInv
    BY <1>1 DEF Collect, SpansInv
  <1>3. CountInv
    BY FS_EmptySet DEF Collect, CountInv
  <1> QED
    BY <1>2, <1>3 DEF Collect, ParserInv, Disjoint, OutsideBlocked, Explained

LEMMA TakesFacts ==
    ASSUME SpansInv, NEW c, Takes(c)
    PROVE  /\ IsSpan(c) /\ c \in todo /\ c \in seen' /\ seen' = seen \cup {c}
           /\ \A d \in todo' \cup seen' : IsSpan(d)
  BY DEF SpansInv, Takes

LEMMA SkipKeeps ==
    ASSUME ParserInv, NEW c, SkipBlocked(c) \/ SkipDuplicate(c)
    PROVE  ParserInv'
  <1> USE DEF ParserInv
  <1>1. UNCHANGED <<accepted, blocked, ambiguities>> /\ Takes(c)
    BY DEF SkipBlocked, SkipDuplicate
  <1>2. SpansInv'
    BY <1>1, TakesFacts DEF SpansInv
  <1>3. CountInv' /\ Disjoint' /\ OutsideBlocked'
    BY <1>1 DEF CountInv, Disjoint, OutsideBlocked
  <1>4. \/ \E b \in blocked : Overlap(c, b)
        \/ \E a \in accepted : a.signature = c.signature /\ Overlap(c, a)
    BY DEF SkipBlocked, SkipDuplicate, IsBlocked, IsDuplicate, Overlapped
  <1>5. Explained'
    BY <1>1, <1>4, TakesFacts DEF Explained
  <1> QED
    BY <1>2, <1>3, <1>5

LEMMA AcceptKeeps == ASSUME ParserInv, NEW c, Accept(c) PROVE ParserInv'
  <1> USE DEF ParserInv
  <1>1. /\ Takes(c) /\ accepted' = accepted \cup {c} /\ UNCHANGED <<blocked, ambiguities>>
        /\ \A b \in blocked : ~Overlap(c, b)
        /\ \A a \in accepted : ~Overlap(c, a) /\ ~Overlap(a, c)
    BY OverlapSymmetric DEF Accept, IsBlocked, Overlapped
  <1>2. SpansInv'
    BY <1>1, TakesFacts DEF SpansInv
  <1>3. CountInv' /\ Disjoint' /\ OutsideBlocked'
    BY <1>1 DEF CountInv, Disjoint, OutsideBlocked
  <1>4. Explained'
    BY <1>1, TakesFacts DEF Explained
  <1> QED
    BY <1>2, <1>3, <1>4

LEMMA ConflictKeeps == ASSUME ParserInv, NEW c, Conflict(c) PROVE ParserInv'
  <1> USE DEF ParserInv
  <1> DEFINE h == Hull(c)
  <1>1. /\ Takes(c) /\ accepted' = accepted \ Overlapped(c) /\ blocked' = blocked \cup {h}
        /\ ambiguities' = ambiguities + 1 /\ Overlapped(c) # {}
    BY DEF Conflict
  <1>2. IsSpan(c) /\ \A a \in accepted : IsSpan(a)
    BY <1>1, TakesFacts DEF SpansInv
  <1>3. /\ h.start \in Nat /\ h.end \in Nat
        /\ \E x \in {c} \cup Overlapped(c) : h.start = x.start
        /\ \E x \in {c} \cup Overlapped(c) : h.end = x.end
        /\ \A x \in {c} \cup Overlapped(c) : h.start <= x.start /\ x.end <= h.end
    BY <1>2, HullFacts
  <1>4. \A x \in {c} \cup Overlapped(c) :
          x.start \in Nat /\ x.end \in Nat /\ x.start <= x.end
    BY <1>2, ParserAssumption DEF IsSpan, Overlapped
  <1> HIDE DEF h
  <1>5. SpansInv'
    BY <1>1, <1>3, TakesFacts DEF SpansInv
  <1>6. CountInv'
    <2>1. IsFiniteSet(blocked) /\ Cardinality(blocked) \in Nat
      BY FS_CardinalityType DEF CountInv
    <2>2. /\ IsFiniteSet(blocked \cup {h})
          /\ Cardinality(blocked \cup {h}) =
               IF h \in blocked THEN Cardinality(blocked) ELSE Cardinality(blocked) + 1
      BY <2>1, FS_AddElement
    <2>3. IsFiniteSet(blocked') /\ Cardinality(blocked') <= Cardinality(blocked) + 1
      BY <1>1, <2>1, <2>2
    <2>4. Cardinality(blocked') \in Nat
      BY <2>3, FS_CardinalityType
    <2> QED
      BY <1>1, <2>1, <2>3, <2>4 DEF CountInv
  <1>7. Disjoint'
    BY <1>1 DEF Disjoint
  \* What stays lies on one side of the candidate, and of all that it overlaps.
  <1>8. ASSUME NEW a \in accepted' PROVE ~Overlap(a, h)
    <2>1. a \in accepted /\ ~Overlap(c, a)
      BY <1>1 DEF Overlapped
    <2>2. a.start \in Nat /\ a.end \in Nat /\ a.start <= a.end
      BY <1>2, <2>1, ParserAssumption DEF IsSpan
    <2>3. ASSUME NEW x \in Overlapped(c)
          PROVE  (a.end <= x.start \/ x.end <= a.start) /\ c.start < x.end /\ x.start < c.end
      <3>1. x \in accepted /\ Overlap(c, x) /\ a # x
        BY <2>1 DEF Overlapped
      <3>2. ~Overlap(a, x)
        BY <2>1, <3>1 DEF Disjoint
      <3> QED
        BY <1>4, <2>2, <3>1, <3>2 DEF Overlap
    <2>4. a.end <= c.start \/ c.end <= a.start
      BY <1>4, <2>1, <2>2 DEF Overlap
    <2>5. CASE a.end <= c.start
      <3>1. \A x \in {c} \cup Overlapped(c) : a.end <= x.start
        BY <1>4, <2>2, <2>3, <2>5
      <3> QED
        BY <1>3, <1>4, <2>2, <3>1 DEF Overlap
    <2>6. CASE c.end <= a.start
      <3>1. \A x \in {c} \cup Overlapped(c) : x.end <= a.start
        BY <1>4, <2>2, <2>3, <2>6
      <3> QED
        BY <1>3, <1>4, <2>2, <3>1 DEF Overlap
    <2> QED
      BY <2>4, <2>5, <2>6
  <1>9. OutsideBlocked'
    BY <1>1, <1>8 DEF OutsideBlocked
  \* Whatever overlaps one of the group overlaps the region.
  <1>10. ASSUME NEW d, d.start \in Nat, d.end \in Nat, NEW x \in {c} \cup Overlapped(c), Overlap(d, x)
         PROVE  Overlap(d, h)
    BY <1>3, <1>4, <1>10 DEF Overlap
  <1>11. ASSUME NEW d \in seen'
         PROVE  \/ d \in accepted'
                \/ \E b \in blocked' : Overlap(d, b)
                \/ \E a \in accepted' : a.signature = d.signature /\ Overlap(d, a)
    <2>1. d.start \in Nat /\ d.end \in Nat
      BY <1>1, TakesFacts, ParserAssumption DEF IsSpan
    <2>2. ASSUME NEW a \in Overlapped(c), d = a \/ Overlap(d, a) PROVE Overlap(d, h)
      <3>1. CASE d = a
        BY <1>10, <2>1, <3>1, OverlapSymmetric DEF Overlapped
      <3>2. CASE Overlap(d, a)
        BY <1>10, <2>1, <3>2
      <3> QED
        BY <2>2, <3>1, <3>2
    <2>3. CASE d = c
      <3>1. PICK a \in Overlapped(c) : Overlap(d, a)
        BY <1>1, <2>3 DEF Overlapped
      <3> QED
        BY <1>1, <2>2, <3>1
    <2>4. CASE d # c
      <3>1. d \in seen
        BY <1>1, <2>4, TakesFacts
      <3>2. CASE d \in accepted
        BY <1>1, <2>2, <3>2
      <3>3. CASE \E b \in blocked : Overlap(d, b)
        BY <1>1, <3>3
      <3>4. CASE \E a \in accepted : a.signature = d.signature /\ Overlap(d, a)
        BY <1>1, <2>2, <3>4
      <3> QED
        BY <3>1, <3>2, <3>3, <3>4 DEF Explained
    <2> QED
      BY <2>3, <2>4
  <1>12. Explained'
    BY <1>11 DEF Explained
  <1> QED
    BY <1>5, <1>6, <1>7, <1>9, <1>12

LEMMA ParserInvStep == ParserInv /\ [ParserNext]_parserVars => ParserInv'
  <1> SUFFICES ASSUME ParserInv, [ParserNext]_parserVars PROVE ParserInv'
    OBVIOUS
  <1>1. CASE ParserNext
    BY <1>1, SkipKeeps, AcceptKeeps, ConflictKeeps DEF ParserNext
  <1>2. CASE UNCHANGED parserVars
    BY <1>2 DEF parserVars, ParserInv, SpansInv, CountInv, Disjoint, OutsideBlocked, Explained
  <1> QED
    BY <1>1, <1>2

\* In every message, whatever its rules match: no two results overlap, none lies in a region
\* that was reported, and what was dropped is accounted for.
THEOREM OverlapsSettled == ParserSpec => []MatchesSettled
  <1>1. ParserInv => MatchesSettled
    BY DEF ParserInv, CountInv, MatchesSettled
  <1> QED
    BY <1>1, ParserInvInit, ParserInvStep, PTL DEF ParserSpec
=============================================================================
