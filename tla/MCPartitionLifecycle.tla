------------------------ MODULE MCPartitionLifecycle ------------------------
(* Values for model checking PartitionLifecycle. *)
EXTENDS PartitionLifecycle

\* A log without holes.
DenseLog == Offsets

\* Every fault the environment can cause, and the subsets the runs tell apart.
AllFaults == {"revoke", "crash", "commit", "dlq", "lookup"}

HandoverFaults == AllFaults \ {"lookup"}

RevokeOnly == {"revoke"}

\* Offsets around the step from two to three digits, and around the step from
\* two to three bytes of a bitset that starts at the first of them.
RoundTripOffsets == (98 .. 107) \cup (113 .. 115)

\* encode_metadata then decode_metadata gives back exactly the offsets that were
\* encoded and stays within the size limit, whichever of the two formats was
\* chosen; it gives back none only when neither format fits.
ASSUME MetadataRoundTrip ==
  \A offsets \in SUBSET RoundTripOffsets :
    LET base    == Min(RoundTripOffsets)
        payload == EncodeMetadata(offsets, base)
    IN  IF payload.type = "O"
        THEN /\ RleEncodeOffsets(offsets).length > MaxMetadataSize
             /\ ~Fits(BitsetEncodeOffsets(offsets, base))
        ELSE DecodeMetadata(payload) = offsets /\ payload.length <= MaxMetadataSize
=============================================================================
