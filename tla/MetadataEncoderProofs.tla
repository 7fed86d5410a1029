------------------------ MODULE MetadataEncoderProofs ------------------------
(***************************************************************************)
(* What the next owner of a partition decodes was encoded by the last one, *)
(* for every set of offsets, every base and every metadata size.           *)
(***************************************************************************)
EXTENDS MetadataEncoder, TLAPS

\* The run-length payload of a set decodes to members of that set.
LEMMA RleDecodedWasEncoded ==
  ASSUME NEW offsets
  PROVE  /\ RleEncodeOffsets(offsets).type = "R"
         /\ RleDecodeOffsets(RleEncodeOffsets(offsets)) \subseteq offsets
<1>1. RleEncodeOffsets(offsets).runs = Runs(offsets) /\ RleEncodeOffsets(offsets).type = "R"
  BY DEF RleEncodeOffsets
<1>2. \A r \in Runs(offsets) : r[1] .. r[2] \subseteq offsets
  BY DEF Runs
<1> QED
  BY <1>1, <1>2 DEF RleDecodeOffsets

\* The bitset payload of a set is dropped or decodes to members of that set:
\* bit b of byte i stands for the offset base + 8 * i + b on both sides.
LEMMA BitsetDecodedWasEncoded ==
  ASSUME NEW offsets \in SUBSET Int, NEW base \in Int,
         NEW payload, payload = BitsetEncodeOffsets(offsets, base)
  PROVE  \/ payload.type = "O"
         \/ payload.type = "B" /\ BitsetDecodeOffsets(payload) \subseteq offsets
<1> DEFINE relative == {o - base : o \in {p \in offsets : p >= base}}
           bytes    == IF relative = {} THEN 0 ELSE (Max(relative) + 8) \div 8
           bits     == [i \in 0 .. bytes - 1 |-> {b \in 0 .. 7 : 8 * i + b \in relative}]
<1>1. CASE payload = Dropped
  BY <1>1 DEF Dropped
<1>2. CASE payload = [type |-> "B", base |-> base, bits |-> bits,
                      length |-> 1 + Digits(base) + 1 + 2 * bytes]
  <2>1. payload.type = "B" /\ payload.base = base /\ payload.bits = bits
    BY <1>2
  <2>2. ASSUME NEW i \in 0 .. bytes - 1, NEW b \in bits[i]
        PROVE  base + 8 * i + b \in offsets
    <3>1. b \in 0 .. 7 /\ 8 * i + b \in relative
      BY <2>2
    <3>2. PICK o \in offsets : 8 * i + b = o - base
      BY <3>1
    <3>3. i \in Int /\ b \in Int /\ o \in Int
      BY <3>1
    <3>4. base + 8 * i + b = o
      BY <3>2, <3>3, SMT
    <3> QED
      BY <3>4
  <2>3. DOMAIN bits = 0 .. bytes - 1
    OBVIOUS
  <2> HIDE DEF bits
  <2>4. BitsetDecodeOffsets(payload) \subseteq offsets
    <3>1. SUFFICES ASSUME NEW x \in BitsetDecodeOffsets(payload)
                   PROVE  x \in offsets
      OBVIOUS
    <3>2. PICK i \in DOMAIN bits : x \in {base + 8 * i + b : b \in bits[i]}
      BY <2>1 DEF BitsetDecodeOffsets
    <3>3. PICK b \in bits[i] : x = base + 8 * i + b
      BY <3>2
    <3> QED
      BY <2>2, <2>3, <3>3
  <2> QED
    BY <2>1, <2>4
<1> QED
  BY <1>1, <1>2 DEF BitsetEncodeOffsets

\* decode_metadata after encode_metadata yields no offset that was not encoded:
\* a record can be skipped after a hand-over only if its old owner completed it.
THEOREM DecodedWasEncoded ==
  ASSUME NEW offsets \in SUBSET Int, NEW base \in Int
  PROVE  DecodeMetadata(EncodeMetadata(offsets, base)) \subseteq offsets
<1> DEFINE rle    == RleEncodeOffsets(offsets)
           bitset == BitsetEncodeOffsets(offsets, base)
<1>1. EncodeMetadata(offsets, base) \in {Dropped, rle, bitset}
  BY DEF EncodeMetadata
<1>2. DecodeMetadata(Dropped) = {}
  BY DEF DecodeMetadata, Dropped
<1>3. DecodeMetadata(rle) \subseteq offsets
  BY RleDecodedWasEncoded DEF DecodeMetadata
<1>4. DecodeMetadata(bitset) \subseteq offsets
  <2> HIDE DEF bitset
  <2>1. \/ bitset.type = "O"
        \/ bitset.type = "B" /\ BitsetDecodeOffsets(bitset) \subseteq offsets
    BY BitsetDecodedWasEncoded DEF bitset
  <2> QED
    BY <2>1 DEF DecodeMetadata
<1> QED
  BY <1>1, <1>2, <1>3, <1>4
=============================================================================
