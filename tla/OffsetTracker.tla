---------------------------- MODULE OffsetTracker ----------------------------
(***************************************************************************)
(* The offset ledger of one assigned partition                             *)
(* (control_plane/offset_tracker.py), as operations on a tracker record.   *)
(* Offsets are 0 .. MaxOffset; MaxOffset bounds the part of the partition  *)
(* log that is modelled.  last_committed_offset and last_fetched_offset    *)
(* are -1 before anything is committed or fetched, and None stands for     *)
(* Python's None where an offset is optional.                              *)
(*                                                                         *)
(* The gap list is cached in the code under (last_committed, last_fetched, *)
(* version); every mutation bumps the version, so the cache never answers  *)
(* for another state and is not represented.  _first_gap_head, which is    *)
(* cached without a key, is.                                               *)
(***************************************************************************)
EXTENDS Integers, FiniteSetsExt

CONSTANT MaxOffset

ASSUME MaxOffsetAssumption == MaxOffset \in Nat

Offsets == 0 .. MaxOffset

None == -1

Tracker ==
  [ last_committed_offset : Offsets \cup {-1},
    last_fetched_offset   : Offsets \cup {-1},
    completed_offsets     : SUBSET Offsets,
    epoch                 : Nat,
    first_gap_head        : Offsets \cup {None},
    blocking              : SUBSET Offsets ]

-----------------------------------------------------------------------------
(* Queries *)

\* The fetched offsets above the committed one that are not complete.
Missing(t) ==
  ((t.last_committed_offset + 1) .. t.last_fetched_offset) \ t.completed_offsets

CalculateFirstGapHead(t) ==
  IF Missing(t) = {} THEN None ELSE Min(Missing(t))

IsCompletedUncommitted(t, o) ==
  /\ t.last_committed_offset < o
  /\ o <= t.last_fetched_offset
  /\ o \in t.completed_offsets

\* The offsets the walk over the sorted completed set passes through: it goes
\* on for as long as the set has no element but the successors of the
\* committed offset, and stops at the first hole or at the first stale element.
ContiguousEnds(t) ==
  { h \in t.last_committed_offset .. MaxOffset :
      { o \in t.completed_offsets : o <= h } = (t.last_committed_offset + 1) .. h }

\* Mutant: the highest completed offset, holes or not.
HighestCompleted(t) ==
  IF t.completed_offsets = {} THEN t.last_committed_offset ELSE Max(t.completed_offsets)

PotentialHighWaterMark(t) ==
  IF ContiguousEnds(t) = {} THEN t.last_committed_offset
                            ELSE Max(ContiguousEnds(t))

GetCommittableHighWaterMark(t, min_inflight) ==
  IF min_inflight # None /\ min_inflight <= PotentialHighWaterMark(t)
  THEN min_inflight - 1
  ELSE PotentialHighWaterMark(t)

\* The starts of the ranges get_gaps returns.
GapStarts(t) ==
  { o \in Missing(t) : o = t.first_gap_head \/ o - 1 \in t.completed_offsets }

-----------------------------------------------------------------------------
(* Operations *)

BumpVersion(t) == [t EXCEPT !.first_gap_head = CalculateFirstGapHead(t)]

NewTracker(starting_offset, initial_completed_offsets) ==
  BumpVersion(
    [ last_committed_offset |-> starting_offset - 1,
      last_fetched_offset   |-> starting_offset - 1,
      completed_offsets     |-> initial_completed_offsets,
      epoch                 |-> 0,
      first_gap_head        |-> None,
      blocking              |-> {} ])

IncrementEpoch(t) == [t EXCEPT !.epoch = @ + 1]

RehydrateAssignmentState(t, committed, fetched) ==
  BumpVersion([t EXCEPT !.last_committed_offset = committed,
                        !.last_fetched_offset = fetched])

\* Mutant: the version, and with it the gap cache, is not refreshed.
MarkCompleteStaleCache(t, o) ==
  IF o > t.last_committed_offset THEN [t EXCEPT !.completed_offsets = @ \cup {o}] ELSE t

MarkComplete(t, o) ==
  IF o > t.last_committed_offset /\ o \notin t.completed_offsets
  THEN BumpVersion([t EXCEPT !.completed_offsets = @ \cup {o}])
  ELSE t

\* Mutant: without the early return for an offset that is already committed.
CommitThroughUnguarded(t, c) ==
  BumpVersion([t EXCEPT !.completed_offsets = @ \ ((t.last_committed_offset + 1) .. c),
                        !.last_committed_offset = c])

CommitThrough(t, c) ==
  IF c <= t.last_committed_offset
  THEN t
  ELSE BumpVersion(
         [t EXCEPT !.completed_offsets =
                     @ \ ((t.last_committed_offset + 1) .. c),
                   !.last_committed_offset = c])

\* Mutant: the revoke commits everything fetched.
AdvanceToLastFetched(t) == CommitThrough(t, t.last_fetched_offset)

AdvanceHighWaterMark(t) == CommitThrough(t, GetCommittableHighWaterMark(t, None))

UpdateLastFetchedOffset(t, o) ==
  IF o > t.last_fetched_offset
  THEN BumpVersion([t EXCEPT !.last_fetched_offset = o])
  ELSE t

\* get_gaps keeps a timestamp for exactly the current gap starts; the offsets
\* with a timestamp are all that the blocking timeout looks at.
GetGaps(t) == [t EXCEPT !.blocking = GapStarts(t)]
=============================================================================
