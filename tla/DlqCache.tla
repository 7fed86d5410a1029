------------------------------- MODULE DlqCache -------------------------------
(***************************************************************************)
(* The raw payloads kept for a later dead-letter publish                   *)
(* (DlqCacheSupport, BrokerDlqSupport): an insertion-ordered map with a    *)
(* running total of its bytes.                                             *)
(*                                                                         *)
(* A cache is [entries, size_bytes]; an entry is [tp, offset, size].       *)
(***************************************************************************)
EXTENDS SequencesExt, FiniteSetsExt, Integers

CONSTANTS
  CacheMaxBytes,    \* message_cache_max_bytes; 0 disables caching, below 0 is no limit
  FullPayloadMode   \* dlq_enabled with dlq_payload_mode FULL

EmptyCache == [entries |-> << >>, size_bytes |-> 0]

ShouldCacheMessagePayloads == FullPayloadMode /\ CacheMaxBytes # 0

SumOfSizes(entries) == FoldSeq(LAMBDA e, total : e.size + total, 0, entries)

CachedAt(cache, tp, offset) ==
  {i \in DOMAIN cache.entries :
     cache.entries[i].tp = tp /\ cache.entries[i].offset = offset}

\* Mutant: the entry goes, its bytes stay in the total.
PopForgetsSize(cache, tp, offset) ==
  [cache EXCEPT !.entries = SelectSeq(@, LAMBDA e : ~(e.tp = tp /\ e.offset = offset))]

PopCachedMessage(cache, tp, offset) ==
  IF CachedAt(cache, tp, offset) = {} THEN cache
  ELSE LET i == CHOOSE i \in CachedAt(cache, tp, offset) : TRUE
       IN  [ entries    |-> RemoveAt(cache.entries, i),
             size_bytes |-> Max({0, cache.size_bytes - cache.entries[i].size}) ]

\* How many of the oldest entries make room for size more bytes.
Evictions(cache, size) ==
  IF CacheMaxBytes < 0 THEN 0
  ELSE Min({n \in 0 .. Len(cache.entries) :
              \/ n = Len(cache.entries)
              \/ cache.size_bytes - SumOfSizes(SubSeq(cache.entries, 1, n)) + size
                   <= CacheMaxBytes})

Evict(cache, n) ==
  [ entries    |-> SubSeq(cache.entries, n + 1, Len(cache.entries)),
    size_bytes |-> Max({0, cache.size_bytes - SumOfSizes(SubSeq(cache.entries, 1, n))}) ]

\* A payload above the whole budget is not kept, and takes its older version
\* with it.
CacheMessageForDlq(cache, tp, offset, size) ==
  LET popped == PopCachedMessage(cache, tp, offset)
      room   == Evict(popped, Evictions(popped, size))
  IN  IF ~ShouldCacheMessagePayloads \/ (CacheMaxBytes > 0 /\ size > CacheMaxBytes)
      THEN popped
      ELSE [ entries    |-> Append(room.entries, [tp |-> tp, offset |-> offset, size |-> size]),
             size_bytes |-> room.size_bytes + size ]

DropPartitionMessages(cache, tp) ==
  LET dropped == SelectSeq(cache.entries, LAMBDA e : e.tp = tp)
  IN  [ entries    |-> SelectSeq(cache.entries, LAMBDA e : e.tp # tp),
        size_bytes |-> Max({0, cache.size_bytes - SumOfSizes(dropped)}) ]
=============================================================================
