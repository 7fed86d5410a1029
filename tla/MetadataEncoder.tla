-------------------------- MODULE MetadataEncoder --------------------------
(***************************************************************************)
(* The commit metadata that carries the completed offsets of a partition   *)
(* from one owner to the next (control_plane/metadata_encoder.py).         *)
(*                                                                         *)
(* A payload keeps the structure of the text the code writes: the runs of  *)
(* "R1-3,5" or the base and bytes of "B1:17".  Its length is the length of *)
(* that text, because the choice between the two and the drop to "O" turn  *)
(* on nothing else.                                                        *)
(***************************************************************************)
EXTENDS Integers, FiniteSetsExt

CONSTANT MaxMetadataSize   \* max_metadata_size, in characters

ASSUME MetadataEncoderAssumption == MaxMetadataSize \in Nat \ {0}

\* The decimal digits of an offset.
Digits(n) == IF n = 0 THEN 1 ELSE CHOOSE d \in 1 .. 19 : 10 ^ (d - 1) <= n /\ n < 10 ^ d

\* The maximal runs of consecutive offsets.
Runs(offsets) ==
  {r \in offsets \X offsets :
     /\ r[1] - 1 \notin offsets /\ r[2] + 1 \notin offsets
     /\ r[1] .. r[2] # {} /\ r[1] .. r[2] \subseteq offsets}

RunLength(r) == IF r[1] = r[2] THEN Digits(r[1]) ELSE Digits(r[1]) + 1 + Digits(r[2])

\* The runs are joined by commas.
RleEncodeOffsets(offsets) ==
  LET runs == Runs(offsets)
  IN  [type |-> "R", runs |-> runs,
       length |-> 1 + MapThenSumSet(RunLength, runs) + Max({0, Cardinality(runs) - 1})]

\* The empty payload, which neither encoding chooses.
Dropped == [type |-> "O", length |-> 1]

\* One bit for each offset from base on, in whole bytes of two hex digits.
BitsetEncodeOffsets(offsets, base) ==
  LET relative == {o - base : o \in {p \in offsets : p >= base}}
      bytes    == IF relative = {} THEN 0 ELSE (Max(relative) + 8) \div 8
  IN  IF bytes > MaxMetadataSize THEN Dropped
      ELSE [type |-> "B", base |-> base,
            bits |-> [i \in 0 .. bytes - 1 |-> {b \in 0 .. 7 : 8 * i + b \in relative}],
            length |-> 1 + Digits(base) + 1 + 2 * bytes]

Fits(payload) == payload.type # "O" /\ payload.length <= MaxMetadataSize

\* The shorter of the two that fits; the run-length one when they tie.
EncodeMetadata(offsets, base) ==
  LET rle    == RleEncodeOffsets(offsets)
      bitset == BitsetEncodeOffsets(offsets, base)
  IN  CASE ~Fits(rle) /\ ~Fits(bitset) -> Dropped
        [] ~Fits(rle) /\ Fits(bitset)  -> bitset
        [] Fits(rle) /\ ~Fits(bitset)  -> rle
        [] OTHER -> IF rle.length <= bitset.length THEN rle ELSE bitset

RleDecodeOffsets(payload) == UNION {r[1] .. r[2] : r \in payload.runs}

BitsetDecodeOffsets(payload) ==
  UNION {{payload.base + 8 * i + b : b \in payload.bits[i]} : i \in DOMAIN payload.bits}

\* An empty payload or one of another format decodes to nothing.
DecodeMetadata(payload) ==
  CASE payload.type = "R" -> RleDecodeOffsets(payload)
    [] payload.type = "B" -> BitsetDecodeOffsets(payload)
    [] OTHER -> {}
=============================================================================
