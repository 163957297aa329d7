----------------------------- MODULE FrameCodec -----------------------------
(***************************************************************************)
(* The wire format of struct WireFrame (src/src/protocol/mod.rs), byte by  *)
(* byte: length prefix, type byte, nonce, payload.  The code has two       *)
(* parsers; the one for a buffer, from_bytes, is here, the one for a       *)
(* stream, read_from, is the reader of module FrameStream.                 *)
(***************************************************************************)
EXTENDS Integers, SequencesExt

CONSTANTS
  Base,            \* the number of values of a byte: 256 in the code
  PrefixLen,       \* bytes of the length prefix: 4
  NonceLen,        \* bytes of the nonce: 8
  MAX_FRAME_SIZE   \* 65536

\* What a digit is worth, by the number of digits after it.
Weight[k \in Nat] == IF k = 0 THEN 1 ELSE Base * Weight[k - 1]

ASSUME CodecAssumption ==
  /\ Base \in Nat /\ Base > 5
  /\ PrefixLen \in Nat \ {0} /\ NonceLen \in Nat \ {0}
  /\ MAX_FRAME_SIZE \in Nat /\ 1 + NonceLen <= MAX_FRAME_SIZE
  /\ MAX_FRAME_SIZE < Weight[PrefixLen]

Bytes == 0 .. Base - 1
MessageTypes == 1 .. 5
HeaderLen == 1 + NonceLen

\* What a WireFrame of the code may hold, whatever its size.
WireFrames == [msg_type : MessageTypes, nonce : 0 .. Weight[NonceLen] - 1, payload : Seq(Bytes)]

\* The len low digits of n, the high ones first: with len = PrefixLen also the
\* cast `as u32`, which drops the digits above.
to_be_bytes(n, len) == [ i \in 1 .. len |-> (n \div Weight[len - i]) % Base ]

from_be_bytes(bytes) == FoldLeft(LAMBDA n, b : n * Base + b, 0, bytes)

header_bytes(f) == <<f.msg_type>> \o to_be_bytes(f.nonce, NonceLen)

serialize(f) ==
  to_be_bytes(HeaderLen + Len(f.payload), PrefixLen) \o header_bytes(f) \o f.payload

\* The fields of a frame without its prefix.
parts(raw_data) ==
  [ msg_type |-> raw_data[1],
    nonce |-> from_be_bytes(SubSeq(raw_data, 2, HeaderLen)),
    payload |-> SubSeq(raw_data, HeaderLen + 1, Len(raw_data)) ]

Err == [error |-> TRUE]

\* Variant: the limit itself is refused.
from_bytes_limit(bytes) ==
  LET frame_len == from_be_bytes(SubSeq(bytes, 1, PrefixLen))
      raw_data == SubSeq(bytes, PrefixLen + 1, Len(bytes))
  IN  IF /\ Len(bytes) >= PrefixLen + HeaderLen
         /\ frame_len = Len(raw_data)
         /\ frame_len >= HeaderLen /\ frame_len < MAX_FRAME_SIZE
         /\ raw_data[1] \in MessageTypes
        THEN parts(raw_data) ELSE Err

from_bytes(bytes) ==
  LET frame_len == from_be_bytes(SubSeq(bytes, 1, PrefixLen))
      raw_data == SubSeq(bytes, PrefixLen + 1, Len(bytes))
  IN  IF /\ Len(bytes) >= PrefixLen + HeaderLen
         /\ frame_len = Len(raw_data)
         /\ frame_len >= HeaderLen /\ frame_len <= MAX_FRAME_SIZE
         /\ raw_data[1] \in MessageTypes
        THEN parts(raw_data) ELSE Err

=============================================================================
