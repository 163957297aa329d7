----------------------------- MODULE WireFrame -----------------------------
(***************************************************************************)
(* struct WireFrame of src/src/protocol/mod.rs as the two ends see it: the *)
(* type, the nonce, what the payload is made of and how long it is.  A     *)
(* handshake payload is an ephemeral key followed by a ciphertext, a       *)
(* transport payload one ciphertext, a Close payload is empty.             *)
(***************************************************************************)
EXTENDS NoiseCrypto

KEY_LEN == 32
TAG_LEN == 16
MAX_FRAME_SIZE == 65536
HeaderLen == 9    \* type and nonce
PrefixLen == 4    \* the length prefix

MessageTypes == {"HandshakeInit", "HandshakeResp", "DataPayload", "Heartbeat", "Close"}

\* A type byte outside 1..5.
UnknownType == "unknown"

\* A plaintext is what it says, the number of the request it belongs to, and
\* its length in bytes.
Plaintext(text, id, size) == [text |-> text, id |-> id, size |-> size]

NoCiphertext ==
  [Ciphertext(<<>>, 0, <<>>, Plaintext("none", 0, 0)) EXCEPT !.intact = FALSE]

Frame(msg_type, nonce, ephemeral, ciphertext, payload_len) ==
  [ msg_type |-> msg_type, nonce |-> nonce, ephemeral |-> ephemeral,
    ciphertext |-> ciphertext, payload_len |-> payload_len ]

HandshakeFrame(msg_type, ephemeral, ciphertext) ==
  Frame(msg_type, 0, ephemeral, ciphertext, KEY_LEN + ciphertext.plaintext.size + TAG_LEN)

\* A transport frame carries the nonce its ciphertext was sealed with.
SealedFrame(msg_type, ciphertext) ==
  Frame(msg_type, ciphertext.nonce, NoKey, ciphertext, ciphertext.plaintext.size + TAG_LEN)

CloseFrame(nonce) == Frame("Close", nonce, NoKey, NoCiphertext, 0)

max_payload_size == MAX_FRAME_SIZE - HeaderLen
is_valid_payload_size(len) == len <= max_payload_size

\* read_from returns Ok for a frame that arrived whole: its length passes the
\* check on the prefix and its type byte is known.
read_from(f) ==
  /\ HeaderLen + f.payload_len <= MAX_FRAME_SIZE
  /\ f.msg_type \in MessageTypes

\* `frame.payload_len() + 13`, what the metrics count for a frame.
WireBytes(f) == f.payload_len + PrefixLen + HeaderLen

=============================================================================
