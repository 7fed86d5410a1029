-------------------------- MODULE WorkQueueTopology --------------------------
(***************************************************************************)
(* The virtual queues of the scheduler                                     *)
(* (control_plane/work_queue_topology.py), as operations on a topology     *)
(* record.  A queue key is a partition with a key; an empty sequence       *)
(* stands for a queue that does not exist, since the code drops a queue as *)
(* soon as it is empty.                                                    *)
(*                                                                         *)
(* head_queue_keys_by_offset is written wherever head_offsets is and, an   *)
(* offset of a partition having one key, is its inverse; looking a queue   *)
(* up by its head offset stands for it.                                    *)
(***************************************************************************)
EXTENDS Integers, SequencesExt

CONSTANTS Partitions, Keys

QueueKeys == Partitions \X Keys

NoOffset == -1

\* items is the set the queued work items come from.
TopologyType(items) ==
  [ virtual_partition_queues : [QueueKeys -> Seq(items)],
    runnable_queue_keys      : Seq(QueueKeys),
    active_runnable          : SUBSET QueueKeys,
    head_offsets             : [QueueKeys -> Nat \cup {NoOffset}] ]

EmptyTopology ==
  [ virtual_partition_queues |-> [q \in QueueKeys |-> << >>],
    runnable_queue_keys      |-> << >>,
    active_runnable          |-> {},
    head_offsets             |-> [q \in QueueKeys |-> NoOffset] ]

Queue(t, q) == t.virtual_partition_queues[q]

-----------------------------------------------------------------------------
\* RunnableQueueKeys is an ordered dictionary: appending a key that is present
\* leaves it where it is.
AppendKey(keys, q) == IF Contains(keys, q) THEN keys ELSE Append(keys, q)

DeactivateQueueKey(t, q) ==
  [t EXCEPT !.active_runnable = @ \ {q},
            !.head_offsets[q] = NoOffset,
            !.runnable_queue_keys = SelectSeq(@, LAMBDA k : k # q)]

ActivateQueueKey(t, q) ==
  IF q \in t.active_runnable
  THEN t
  ELSE [t EXCEPT !.runnable_queue_keys = AppendKey(@, q),
                 !.active_runnable = @ \cup {q}]

RefreshQueueHead(t, q) ==
  IF Queue(t, q) = << >>
  THEN DeactivateQueueKey(t, q)
  ELSE ActivateQueueKey([DeactivateQueueKey(t, q) EXCEPT
                           !.head_offsets[q] = Head(Queue(t, q)).offset], q)

\* enqueue_batch, one item of the batch at a time: only the item that makes the
\* queue non-empty registers it.
Enqueue(t, q, item) ==
  LET filled == [t EXCEPT !.virtual_partition_queues[q] = Append(@, item)]
  IN  IF Queue(t, q) = << >> THEN RefreshQueueHead(filled, q) ELSE filled

\* The first n items leave; the queue is dropped when empty, else gets a new head.
DequeueSubmittedItems(t, q, n) ==
  RefreshQueueHead(
    [t EXCEPT !.virtual_partition_queues[q] = SubSeq(@, n + 1, Len(@))], q)

RevokeQueues(t, tps) ==
  LET gone == {q \in QueueKeys : q[1] \in tps}
  IN  [ virtual_partition_queues |->
          [q \in QueueKeys |-> IF q \in gone THEN << >> ELSE Queue(t, q)],
        runnable_queue_keys |-> SelectSeq(t.runnable_queue_keys, LAMBDA q : q \notin gone),
        active_runnable     |-> t.active_runnable \ gone,
        head_offsets        |->
          [q \in QueueKeys |-> IF q \in gone THEN NoOffset ELSE t.head_offsets[q]] ]

-----------------------------------------------------------------------------
(* Selection.  A pick is a queue key with the topology it leaves behind. *)

\* The eligible queues whose head is the blocking offset of its partition, those
\* with the lowest offset; equal offsets of two partitions are taken in any order.
PickBlockingQueueKey(t, blocking, eligible) ==
  LET matching == {q \in t.active_runnable \cap eligible :
                     /\ blocking[q[1]] # NoOffset
                     /\ t.head_offsets[q] = blocking[q[1]]}
  IN  { [key  |-> q,
         rest |-> [t EXCEPT !.active_runnable = @ \ {q},
                            !.runnable_queue_keys = SelectSeq(@, LAMBDA k : k # q)]] :
        q \in {q \in matching : \A r \in matching : t.head_offsets[q] <= t.head_offsets[r]} }

\* The first eligible queue in runnable order; the ones passed over go to the
\* back, and keys that are inactive or have no queue (none, when the topology
\* is coherent) are dropped.
PickNextRunnableQueueKey(t, eligible) ==
  LET keys == t.runnable_queue_keys
      live == {q \in t.active_runnable : Queue(t, q) # << >>}
      hits == {i \in DOMAIN keys : keys[i] \in live \cap eligible}
  IN  { [key  |-> keys[i],
         rest |-> [t EXCEPT
                     !.active_runnable = live \ {keys[i]},
                     !.runnable_queue_keys =
                       SubSeq(keys, i + 1, Len(keys))
                         \o SelectSeq(SubSeq(keys, 1, i - 1), LAMBDA q : q \in live)]] :
        i \in {i \in hits : \A j \in hits : i <= j} }

PopNextQueueKey(t, blocking, eligible) ==
  IF PickBlockingQueueKey(t, blocking, eligible) # {}
  THEN PickBlockingQueueKey(t, blocking, eligible)
  ELSE PickNextRunnableQueueKey(t, eligible)

-----------------------------------------------------------------------------
\* Every queue with work is registered once, under its head offset, and no
\* other queue is.
Coherent(t) ==
  /\ IsInjective(t.runnable_queue_keys)
  /\ ToSet(t.runnable_queue_keys) = t.active_runnable
  /\ t.active_runnable = {q \in QueueKeys : Queue(t, q) # << >>}
  /\ \A q \in QueueKeys :
       t.head_offsets[q] = IF Queue(t, q) = << >> THEN NoOffset
                                                  ELSE Head(Queue(t, q)).offset
=============================================================================
