---------------------------- MODULE MCWorkManager ----------------------------
(* Values for model checking WorkManager. *)
EXTENDS WorkManager

CONSTANTS p1, p2, a, b

\* One partition: two records of key a around one of key b.
OnePartition == {p1}

InterleavedKeys == [tp \in {p1} |-> <<a, b, a>>]

\* Two partitions.
TwoPartitions == {p1, p2}

TwoLogs == [tp \in {p1, p2} |-> IF tp = p1 THEN <<a, a>> ELSE <<a>>]

TwoKeys == {a, b}

BothStatuses == {"SUCCESS", "FAILURE"}

SuccessOnly == {"SUCCESS"}

AllFaults == {"revoke", "submit"}

RevokeOnly == {"revoke"}

OneOrTwo == {1, 2}

Two == {2}

AllModes == {"key_hash", "partition", "unordered"}

KeyHash == {"key_hash"}

BothBatching == BOOLEAN

NotBatched == {FALSE}
=============================================================================
