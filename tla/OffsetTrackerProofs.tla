------------------------- MODULE OffsetTrackerProofs -------------------------
(***************************************************************************)
(* Facts about the tracker operations: they keep the tracker's type, and   *)
(* the high-water mark they compute ends a run of completed offsets that   *)
(* starts right above the committed one.                                   *)
(***************************************************************************)
EXTENDS OffsetTracker, TLAPS, WellFoundedInduction

\* Every nonempty set of naturals has a least element.
LEMMA LeastNatural ==
  ASSUME NEW T, T \subseteq Nat, T # {}
  PROVE  \E x \in T : \A y \in T : x <= y
<1> DEFINE R == OpToRel(<, Nat)
<1>1. IsWellFoundedOn(R, Nat)
  BY NatLessThanWellFounded
<1>2. \A a, b \in Nat : a < b => <<a, b>> \in R
  BY DEF OpToRel
<1> HIDE DEF R
<1>3. PICK x \in T : \A y \in T : ~(<<y, x>> \in R)
  BY <1>1, WFMin
<1>4. \A y \in T : ~(y < x)
  BY <1>2, <1>3
<1>5. \A y \in T : x <= y
  BY <1>4
<1> QED
  BY <1>5

\* A nonempty set of offsets has a least element, and Min (used for the first
\* gap head and the least in-flight offset) returns it.
LEMMA MinOfOffsets ==
  ASSUME NEW S, S \subseteq Offsets, S # {}
  PROVE  Min(S) \in S /\ \A y \in S : Min(S) <= y
<1>1. S \subseteq Nat
  BY MaxOffsetAssumption DEF Offsets
<1>2. \E x \in S : \A y \in S : x <= y
  BY <1>1, LeastNatural
<1> QED
  BY <1>2 DEF Min

\* A nonempty set of offsets has a greatest element, and Max (used for the
\* high-water mark) returns it.
LEMMA MaxOfOffsets ==
  ASSUME NEW S, S \subseteq Offsets \cup {-1}, S # {}
  PROVE  Max(S) \in S /\ \A y \in S : Max(S) >= y
<1> DEFINE T == {n \in Nat : MaxOffset - n \in S}
<1>1. \A y \in S : MaxOffset - y \in Nat /\ MaxOffset - (MaxOffset - y) = y
  BY MaxOffsetAssumption DEF Offsets
<1>2. \A y \in S : MaxOffset - y \in T
  BY <1>1
<1>3. T \subseteq Nat /\ T # {}
  BY <1>2
<1>4. PICK n \in T : \A m \in T : n <= m
  BY <1>3, LeastNatural
<1>5. MaxOffset - n \in S
  BY <1>4
<1>6. \A y \in S : MaxOffset - n >= y
  <2> SUFFICES ASSUME NEW y \in S PROVE MaxOffset - n >= y
    OBVIOUS
  <2>1. n <= MaxOffset - y
    BY <1>2, <1>4
  <2>2. n \in Nat /\ y \in Int
    BY <1>4, MaxOffsetAssumption DEF Offsets
  <2> QED
    BY <2>1, <2>2, MaxOffsetAssumption
<1> QED
  BY <1>5, <1>6 DEF Max

-----------------------------------------------------------------------------
(* The tracker operations *)

\* The first gap head that _bump_version recomputes is an offset or None.
LEMMA FirstGapHeadType ==
  ASSUME NEW t \in Tracker
  PROVE  CalculateFirstGapHead(t) \in Offsets \cup {None}
<1>1. Missing(t) \subseteq Offsets
  BY MaxOffsetAssumption DEF Missing, Tracker, Offsets
<1>2. Missing(t) # {} => Min(Missing(t)) \in Offsets
  BY <1>1, MinOfOffsets
<1> QED
  BY <1>2 DEF CalculateFirstGapHead

\* _bump_version touches the gap cache only.
LEMMA BumpVersionType ==
  ASSUME NEW t \in Tracker
  PROVE  /\ BumpVersion(t) \in Tracker
         /\ BumpVersion(t).last_committed_offset = t.last_committed_offset
         /\ BumpVersion(t).last_fetched_offset = t.last_fetched_offset
         /\ BumpVersion(t).completed_offsets = t.completed_offsets
         /\ BumpVersion(t).epoch = t.epoch
BY FirstGapHeadType DEF BumpVersion, Tracker

\* The high-water mark ends a run of completed offsets right above the
\* committed one (get_committable_high_water_mark without clamp).
LEMMA PotentialHighWaterMarkRun ==
  ASSUME NEW t \in Tracker
  PROVE  /\ PotentialHighWaterMark(t) \in Offsets \cup {-1}
         /\ PotentialHighWaterMark(t) >= t.last_committed_offset
         /\ (t.last_committed_offset + 1) .. PotentialHighWaterMark(t)
              \subseteq t.completed_offsets
<1> DEFINE lc == t.last_committed_offset
<1>1. lc \in Offsets \cup {-1} /\ lc \in Int /\ lc <= MaxOffset
  BY MaxOffsetAssumption DEF Tracker, Offsets
<1>2. CASE ContiguousEnds(t) = {}
  BY <1>1, <1>2 DEF PotentialHighWaterMark
<1>3. CASE ContiguousEnds(t) # {}
  <2>1. ContiguousEnds(t) \subseteq Offsets \cup {-1}
    BY <1>1, MaxOffsetAssumption DEF ContiguousEnds, Offsets
  <2>2. PotentialHighWaterMark(t) \in ContiguousEnds(t)
    BY <1>3, <2>1, MaxOfOffsets DEF PotentialHighWaterMark
  <2>3. PotentialHighWaterMark(t) >= lc
    BY <1>1, <2>2, MaxOffsetAssumption DEF ContiguousEnds
  <2>4. (lc + 1) .. PotentialHighWaterMark(t) \subseteq t.completed_offsets
    BY <2>2 DEF ContiguousEnds
  <2> QED
    BY <2>1, <2>2, <2>3, <2>4
<1> QED
  BY <1>2, <1>3

\* Clamped below the least in-flight offset, the mark still ends such a run.
LEMMA CommittableHighWaterMarkRun ==
  ASSUME NEW t \in Tracker, NEW min_inflight \in Offsets \cup {None}
  PROVE  LET hwm == GetCommittableHighWaterMark(t, min_inflight)
         IN  /\ hwm \in Offsets \cup {-1}
             /\ (t.last_committed_offset + 1) .. hwm \subseteq t.completed_offsets
<1> DEFINE hwm == GetCommittableHighWaterMark(t, min_inflight)
           phwm == PotentialHighWaterMark(t)
<1>1. /\ phwm \in Offsets \cup {-1}
      /\ (t.last_committed_offset + 1) .. phwm \subseteq t.completed_offsets
  BY PotentialHighWaterMarkRun
<1>2. hwm \in Offsets \cup {-1} /\ hwm <= phwm
  BY <1>1, MaxOffsetAssumption DEF GetCommittableHighWaterMark, Offsets, None
<1>3. t.last_committed_offset \in Int /\ phwm \in Int /\ hwm \in Int
  BY <1>1, <1>2, MaxOffsetAssumption DEF Tracker, Offsets
<1>4. (t.last_committed_offset + 1) .. hwm \subseteq (t.last_committed_offset + 1) .. phwm
  BY <1>2, <1>3
<1> QED
  BY <1>1, <1>2, <1>4

\* mark_complete adds at most its offset to the completed ones.
LEMMA MarkCompleteEffect ==
  ASSUME NEW t \in Tracker, NEW o \in Offsets
  PROVE  /\ MarkComplete(t, o) \in Tracker
         /\ MarkComplete(t, o).completed_offsets \subseteq t.completed_offsets \cup {o}
         /\ MarkComplete(t, o).last_committed_offset = t.last_committed_offset
<1> DEFINE u == [t EXCEPT !.completed_offsets = @ \cup {o}]
<1>1. /\ u \in Tracker
      /\ u.completed_offsets = t.completed_offsets \cup {o}
      /\ u.last_committed_offset = t.last_committed_offset
  BY DEF Tracker
<1>2. MarkComplete(t, o) \in {t, BumpVersion(u)}
  BY DEF MarkComplete
<1> HIDE DEF u
<1> QED
  BY <1>1, <1>2, BumpVersionType

\* commit_through moves the committed offset to c at most, and forgets
\* completed offsets without adding any.
LEMMA CommitThroughEffect ==
  ASSUME NEW t \in Tracker, NEW c \in Offsets \cup {-1}
  PROVE  /\ CommitThrough(t, c) \in Tracker
         /\ CommitThrough(t, c).completed_offsets \subseteq t.completed_offsets
         /\ CommitThrough(t, c).last_committed_offset \in {t.last_committed_offset, c}
         /\ CommitThrough(t, c).last_committed_offset >= t.last_committed_offset
<1> DEFINE u == [t EXCEPT !.completed_offsets = @ \ ((t.last_committed_offset + 1) .. c),
                          !.last_committed_offset = c]
<1>1. /\ u \in Tracker
      /\ u.completed_offsets = t.completed_offsets \ ((t.last_committed_offset + 1) .. c)
      /\ u.last_committed_offset = c
  BY DEF Tracker
<1>2. /\ c <= t.last_committed_offset => CommitThrough(t, c) = t
      /\ ~(c <= t.last_committed_offset) => CommitThrough(t, c) = BumpVersion(u)
  BY DEF CommitThrough
<1>3. t.last_committed_offset \in Int /\ c \in Int
  BY MaxOffsetAssumption DEF Tracker, Offsets
<1> HIDE DEF u
<1> QED
  BY <1>1, <1>2, <1>3, BumpVersionType

\* update_last_fetched_offset leaves completion and commit state alone.
LEMMA UpdateLastFetchedOffsetEffect ==
  ASSUME NEW t \in Tracker, NEW o \in Offsets
  PROVE  /\ UpdateLastFetchedOffset(t, o) \in Tracker
         /\ UpdateLastFetchedOffset(t, o).completed_offsets = t.completed_offsets
         /\ UpdateLastFetchedOffset(t, o).last_committed_offset = t.last_committed_offset
<1> DEFINE u == [t EXCEPT !.last_fetched_offset = o]
<1>1. /\ u \in Tracker
      /\ u.completed_offsets = t.completed_offsets
      /\ u.last_committed_offset = t.last_committed_offset
  BY DEF Tracker
<1>2. UpdateLastFetchedOffset(t, o) \in {t, BumpVersion(u)}
  BY DEF UpdateLastFetchedOffset
<1> HIDE DEF u
<1> QED
  BY <1>1, <1>2, BumpVersionType

\* get_gaps touches the blocking timestamps only.
LEMMA GetGapsEffect ==
  ASSUME NEW t \in Tracker
  PROVE  /\ GetGaps(t) \in Tracker
         /\ GetGaps(t).completed_offsets = t.completed_offsets
         /\ GetGaps(t).last_committed_offset = t.last_committed_offset
<1>1. GapStarts(t) \subseteq Offsets
  BY MaxOffsetAssumption DEF GapStarts, Missing, Tracker, Offsets
<1> QED
  BY <1>1 DEF GetGaps, Tracker

-----------------------------------------------------------------------------
(* Two invariants of a tracker *)

AboveCommitted(t) == \A o \in t.completed_offsets : o > t.last_committed_offset

GapHeadCoherent(t) == t.first_gap_head = CalculateFirstGapHead(t)

\* mark_complete ignores offsets at or below the committed one.
LEMMA MarkCompleteAbove ==
  ASSUME NEW t \in Tracker, NEW o \in Offsets, AboveCommitted(t)
  PROVE  AboveCommitted(MarkComplete(t, o))
<1> DEFINE u == [t EXCEPT !.completed_offsets = @ \cup {o}]
<1>1. /\ u \in Tracker
      /\ u.completed_offsets = t.completed_offsets \cup {o}
      /\ u.last_committed_offset = t.last_committed_offset
  BY DEF Tracker
<1> HIDE DEF u
<1>2. CASE o > t.last_committed_offset /\ o \notin t.completed_offsets
  <2>1. MarkComplete(t, o) = BumpVersion(u)
    BY <1>2 DEF MarkComplete, u
  <2> QED
    BY <1>1, <1>2, <2>1, BumpVersionType DEF AboveCommitted
<1>3. CASE ~(o > t.last_committed_offset /\ o \notin t.completed_offsets)
  BY <1>3 DEF MarkComplete
<1> QED
  BY <1>2, <1>3

\* commit_through drops the completed offsets it commits.
LEMMA CommitThroughAbove ==
  ASSUME NEW t \in Tracker, NEW c \in Offsets \cup {-1}, AboveCommitted(t)
  PROVE  AboveCommitted(CommitThrough(t, c))
<1> DEFINE u == [t EXCEPT !.completed_offsets = @ \ ((t.last_committed_offset + 1) .. c),
                          !.last_committed_offset = c]
<1>1. /\ u \in Tracker
      /\ u.completed_offsets = t.completed_offsets \ ((t.last_committed_offset + 1) .. c)
      /\ u.last_committed_offset = c
  BY DEF Tracker
<1>2. t.last_committed_offset \in Int /\ c \in Int /\ t.completed_offsets \subseteq Int
  BY MaxOffsetAssumption DEF Tracker, Offsets
<1> HIDE DEF u
<1>3. CASE c <= t.last_committed_offset
  BY <1>3 DEF CommitThrough
<1>4. CASE ~(c <= t.last_committed_offset)
  <2>1. CommitThrough(t, c) = BumpVersion(u)
    BY <1>4 DEF CommitThrough, u
  <2>2. AboveCommitted(u)
    BY <1>1, <1>2 DEF AboveCommitted
  <2> QED
    BY <1>1, <2>1, <2>2, BumpVersionType DEF AboveCommitted
<1> QED
  BY <1>3, <1>4

\* _bump_version makes the gap cache coherent.
LEMMA BumpVersionCoherent ==
  ASSUME NEW t \in Tracker
  PROVE  GapHeadCoherent(BumpVersion(t))
<1>1. Missing(BumpVersion(t)) = Missing(t)
  BY BumpVersionType DEF Missing
<1>2. BumpVersion(t).first_gap_head = CalculateFirstGapHead(t)
  BY DEF BumpVersion, Tracker
<1> QED
  BY <1>1, <1>2 DEF GapHeadCoherent, CalculateFirstGapHead

\* Every operation of the tracker leaves the gap cache coherent.
LEMMA OperationsCoherent ==
  ASSUME NEW t \in Tracker, GapHeadCoherent(t),
         NEW o \in Offsets, NEW c \in Offsets \cup {-1}
  PROVE  /\ GapHeadCoherent(UpdateLastFetchedOffset(t, o))
         /\ GapHeadCoherent(GetGaps(t))
         /\ GapHeadCoherent(MarkComplete(t, o))
         /\ GapHeadCoherent(CommitThrough(t, c))
<1>1. [t EXCEPT !.last_fetched_offset = o] \in Tracker
  BY DEF Tracker
<1>2. [t EXCEPT !.completed_offsets = @ \cup {o}] \in Tracker
  BY DEF Tracker
<1>3. [t EXCEPT !.completed_offsets = @ \ ((t.last_committed_offset + 1) .. c),
                !.last_committed_offset = c] \in Tracker
  BY DEF Tracker
<1>4. GapHeadCoherent(UpdateLastFetchedOffset(t, o))
  BY <1>1, BumpVersionCoherent DEF UpdateLastFetchedOffset
<1>5. GapHeadCoherent(GetGaps(t))
  <2> DEFINE g == GetGaps(t)
  <2>1. /\ g.last_committed_offset = t.last_committed_offset
        /\ g.last_fetched_offset = t.last_fetched_offset
        /\ g.completed_offsets = t.completed_offsets
        /\ g.first_gap_head = t.first_gap_head
    BY DEF GetGaps, Tracker
  <2> HIDE DEF g
  <2> QED
    BY <2>1 DEF GapHeadCoherent, CalculateFirstGapHead, Missing, g
<1>6. GapHeadCoherent(MarkComplete(t, o))
  BY <1>2, BumpVersionCoherent DEF MarkComplete
<1>7. GapHeadCoherent(CommitThrough(t, c))
  BY <1>3, BumpVersionCoherent DEF CommitThrough
<1> QED
  BY <1>4, <1>5, <1>6, <1>7
=============================================================================
