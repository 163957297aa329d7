# A TLA+ model of noise-tunnel-rs

This directory specifies the Rust program in `src/` (a Noise_NK style tunnel:
X25519 handshake, ChaCha20-Poly1305 transport, framing over TCP, an anti-replay
window, a tokio client and server), model-checks the specifications with TLC on
small instances and proves the central ones with TLAPS for every value of their
constants. Source paths below are relative to the repository root: `crypto` is
`src/crypto/mod.rs`, `protocol` is `src/protocol/mod.rs`.

## 1. The system

| component | source | state | operations |
|---|---|---|---|
| anti-replay filter | `protocol` `ReplayFilter` | u128 bitmap, newest number, window size, three counters | `with_window_size`, `validate_and_record`, `has_seen`, `min_valid_seq`, `reset` |
| cipher state | `crypto` `CipherState` | 32-byte key, u64 nonce | `encrypt`, `decrypt`, `rekey`, `reset_nonce`, `remaining_nonces`, `is_exhausted` |
| key agreement | `crypto` `diffie_hellman`, `derive_session_keypair`; `protocol` `hash_handshake_state` | none (pure) | X25519, transcript hash, HKDF |
| wire frame | `protocol` `WireFrame`, `MessageType` | none (values); the buffers of a read or write under way | `new`, `serialize_into`, `from_bytes`, `write_to`, `read_from` |
| client | `client.rs` `TunnelClient` | position in the session, two ciphers, metrics | `perform_handshake`, `send_secure_message` (with optional timeout), `start_interactive_session` |
| server session | `server.rs` `handle_client_with_prologue` | position, two ciphers, one `ReplayFilter`, metrics | handshake, the five arms of the transport loop |
| accept loop | `server.rs` `TunnelServer::run` | shared `AtomicUsize`, limit | bind, accept, limit check, spawn, release, `reset_connections` |
| metrics | `stats.rs` `SessionMetrics` | byte and frame counters, clocks | `record_tx`, `record_rx`, rates |
| command line | `main.rs` | none | the `server` and `client` commands build both ends from their arguments |
| the rest | `verify.rs`, `bench.rs`, `error.rs`, `lib.rs` | none | self-test, benchmark, error text |

How they interact. `main` turns the arguments of a command into a client or a
server. The accept loop spawns one task per connection; tasks share only the
connection counter, and so do several accept loops of one server (`run` takes
`&self`). A task and a client share only the TCP link. On it the client sends
HandshakeInit (its ephemeral key and a tag that proves it knows the server's static
key), the server answers HandshakeResp (its ephemeral key and an encrypted
acknowledgement), and both derive two transport keys. The client then sends one
request at a time (DataPayload or Heartbeat) and waits for one frame. The server
passes each transport frame through the replay filter and then through its
receiving cipher, and any error ends the session. A Close frame ends it regularly;
it is not encrypted and carries no tag.

What is hard here, and where it is dealt with (`PROJECT.json` lists each hazard
at its line):

* window arithmetic on a 128-bit bitmap with a smaller window, forgetting numbers
  as it slides (`ReplayFilter`);
* the nonce counter at u64::MAX, where `encrypt` checks after sealing and
  `decrypt` does not check at all, and rekeying at two different moments
  (`CipherPair`);
* two stages of verification, the first of which records a number before the
  second has authenticated it (`ReceivePath`, `Tunnel`);
* frames written and read in pieces, a writer that goes away in the middle of one,
  a length prefix that is damaged or cut by a cast, and two parsers that have to
  agree (`FrameStream`);
* a handshake whose ends reach the transport phase at different times, over a
  link that fails, whose response anybody can make who has read the first message,
  and keys that must agree whenever both ends understand each other (`Tunnel`);
* an interactive client that takes the next frame as the answer to the last
  request; a timeout that drops an operation at any await; two ends that could wait
  for each other; size limits that differ for a request and its answer (`Tunnel`);
* a check-then-increment on a Relaxed counter that tasks decrement at any moment
  and that several accept loops may check at once (`Listener`).

## 2. The modules

```
ReplayGuard   (abstract)  <--refines--  ReplayFilter
FrameChannel  (abstract)  <--refines--  FrameStream
RequestReply  (abstract)  <--refines--  Tunnel

ReplayFilter  EXTENDS  ReplayWindow
CipherPair    EXTENDS  NoiseCrypto
ReceivePath   EXTENDS  ReplayWindow, NoiseCrypto
FrameStream   EXTENDS  FrameCodec
Tunnel        EXTENDS  ReplayWindow, WireFrame (and NoiseCrypto), SessionMetrics, CommandLine
Listener
```

`MC*` modules and `.cfg` files give the constants their values. The theorems are
in `ReplayWindowLemmas`, `ReplayFilterProofs`, `CipherPairProofs`,
`ReceivePathProofs`, `ListenerProofs`, `FrameStreamProofs`, `TunnelProofs` and
`TunnelTcpProofs`.

**ReplayWindow** is `struct ReplayFilter` as a record with its methods as
operators. The bitmap is the set of its one-bits; `<<` loses bits past
`BitmapBits` (128 in the code). The split of `validate_and_record` into
`accepts`, `slide` and `mark` follows its three branches: first number, newer
number, number inside the window.

**ReplayFilter** drives one filter with arbitrary numbers and resets, and keeps
the set of accepted numbers as history. **ReplayGuard** states what such a filter
promises, using only that history: a number is accepted exactly when it is fresh
and less than a window older than everything accepted. `ImplementsGuard` is the
refinement.

**NoiseCrypto** models `crypto` symbolically. A Diffie-Hellman secret is the
unordered pair of its halves; hashes, derived keys and ciphertexts are the terms
they were computed from. The nonce arithmetic is exact: `encrypt` seals and then
fails at the last nonce, dropping the ciphertext; `decrypt` wants its own counter
and then increments without a check, which wraps in a release build. (A debug
build would panic; `DecryptNeverOverflows` shows that neither happens.)

**CipherPair** is one direction: a sender and a receiver that share a key. The
receiver may be handed any released ciphertext at any time with any expected
nonce and associated data; either end rekeys or resets on its own.

**ReceivePath** is the server's verification, filter then cipher, against a
sender that does not wait. `Tunnel` cannot reach these states, because
`TunnelClient` has at most one request under way, but the filter was written for
them.

**FrameCodec** is the byte format: `to_be_bytes`, the cast of the length to the
prefix, `serialize_into` and `from_bytes`, in any base and with any field widths.
**FrameStream** is one direction of a connection as bytes: `write_all` puts a
chunk of any size on the wire (`WriteSome`), `read_exact` takes a chunk of any size
into the prefix buffer (`ReadPrefix`) or the frame buffer (`ReadBody`), the end of
the stream or a reset is noticed wherever the reader stands (`ReadFails`), the
writer's stream is dropped between or inside frames (`WriterCloses`), and a byte
may be altered (`ByteAltered`), the prefix included. **FrameChannel** is what the
two ends may rely on: a FIFO channel of whole frames, whose first `good` frames
arrive as sent. `ImplementsChannel` is the refinement; `good` ends before the
first frame that is too long or was altered.

**WireFrame** and **SessionMetrics** hold the frame record as the sessions use it,
its size arithmetic, the conditions under which `read_from` refuses it, and the
counters. **CommandLine** is the `server` and `client` commands of `main`: what
they build from their arguments, the defaults, and the key text that does not
parse. A key pair in hex stands for itself; a server started without a private
key has one of its own.

**Tunnel** is a client and its server task over a link with two queues of whole
frames, which is what `FrameChannel` provides while nothing is altered. Steps run
from one await to the next, as tokio schedules them:

| action | code |
|---|---|
| `Init` | every client and server that `CommandLine` builds from the run's arguments |
| `ClientConnect` | `TcpStream::connect`, in either session |
| `ClientSendsInit`, `ClientReadsResp` | `perform_handshake` before and after its read |
| `ClientNotConnected` | `main` returns before a session, or nobody serves the address |
| `ClientSendsMessage`, `ClientReadsOnlyReply` | `send_secure_message`: request; answer and Close |
| `UserSendsText`, `UserPings`, `UserQuits`, `UserEndsInput`, `ClientReadsReply` | the loop of `start_interactive_session` |
| `ClientTimesOut` | `tokio::time::timeout` around `send_secure_message` |
| `ServerAccepts`, `ServerReadsInit` | accept or drop; handshake in `handle_client_with_prologue` |
| `ServerReads` (with `ServerAnswers`) | one turn of the transport loop, every arm |
| `ClientBreaks`, `ServerBreaks` | a read that fails |
| `Fault` | reset, partition, refused connection, altered, duplicated or reordered frames, a HandshakeResp made by somebody else |

Reads can fail only as TCP lets them: after a reset, at the end of the stream,
or on a dead link when the reader has unacknowledged data of its own. A write
after the peer has closed or reset may succeed or fail.

The tag of HandshakeResp is keyed by DH(e_c, e_s) alone (`client.rs`:138-150), and what
it authenticates is public. So it shows that whoever answers holds the private half of
the ephemeral key in the answer, and not that they hold the server's static key.
`OtherAnswers` is such an answer, sealed under an ephemeral key of somebody else's, that
gets to the client before the server's. `ClientAccepts` takes it.

**RequestReply** is what such a connection promises to the programs that use it:
requests served in order and once, one at a time, and each answer shown the answer
to its request, whichever end closes when. `ImplementsRequestReply` maps the
positions of client and server to "new", "open" and "closed" and the histories of
requests, handled requests and shown answers to themselves.

**Listener** is `TunnelServer::run`, called any number of times on one server, the
spawned tasks and `reset_connections`. Every access to the counter is `Relaxed`:
increments and decrements act on the newest value, while the load of an accept loop
may return any value since that loop last saw the counter (`stale[l]` keeps exactly
those). The load, the increment and the spawn are separate steps; sessions end and
release their slots, and other loops load and increment, in between.

Definitions commented `Variant:` are not part of the model. Each states how a
definition would read with a plausible slip in the code (a dropped check, a
boundary off by one, a swapped label) and is used to confirm that some property
notices it.

## 3. The runs

| run | question | bounds |
|---|---|---|
| `replay_filter` | does the bitmap filter give the verdicts of the full history; is the proofs' invariant an invariant | 3-bit bitmap, numbers 0..6, requested sizes 0, 1, 2, 3, 5, six calls between resets |
| `cipher_pair` | nonce uniqueness, order, budget and overflow of one direction | nonces 0..2, start nonce 0 or 1, two keys, three messages |
| `receive_path` | do filter and cipher together deliver the sender's stream | 3-bit bitmap, eight frames |
| `receive_reorder` | *violated*: a frame overtaken inside the window is tolerated | as above |
| `frame_stream` | is the byte stream a channel of whole frames; do the two parsers agree; does a frame arrive and does the reader end | bytes of 6 values, prefix of 1, nonce of 2, frames of 3 or 4 bytes, two frames, one altered byte |
| `tunnel_tcp` | request and reply, accounting, no mutual wait and termination, for every way to start the two commands, under TCP failures and timeouts | nonces 0..4, sizes 5, 65496, 65511, 65512, one fault |
| `tunnel_damage` | which keys the ends hold, what is handled and shown under them, nonce pairs and order when frames are disturbed and the handshake is answered by somebody else | three faults, nonces 0..3 |
| `tunnel_other` | *violated*: only the server completes the client's handshake | one answer of somebody else |
| `tunnel_echo_size` | *violated*: what the server handled is answered | the two size limits |
| `listener` | counter, excess over the limit and liveness of the accept loops | two loops, three connections, limits none, 0, 1, 2, one reset |
| `listener_loops` | *violated*: `max_connections` is a maximum, on a server whose `run` is called twice | two loops, two connections |
| `listener_reset` | *violated*: a full server is serving somebody | one loop, three connections, one reset |

Why the bounds are enough. Three bits and seven numbers let the window slide past
the whole bitmap, with requested sizes below, at and above the clamp, so every
branch and boundary of `validate_and_record` is met; for other values the proofs
of section 5 take over. With `MaxNonce` 2 both ends of a cipher pair reach the last
nonce under two keys. In `FrameStream` the frames are an empty one, one at the limit,
one a byte over it, and one so long that the cast of its length gives that of an
empty frame and whose payload looks like a frame; the altered byte takes an illegal,
a shorter and a longer length or type. Two frames are enough for a shifted boundary
to swallow part of the next frame. Sessions in `Tunnel` run until a cipher is
exhausted; the arguments of the commands cover a key that does not parse, none and
the right one, both prologues, with and without a timeout, full or not. Sizes are the
real ones, taken at the boundaries: the longest message whose echo fits (65496), the
longest that fits itself (65511), and one more. Three connections against a limit of
one or two give a refusal, a race of a release with a load and of two loops, and a
connection admitted afterwards.

`CHECK_DEADLOCK FALSE` appears where the system stops: a closed receive path, a
byte stream with nothing left to send, a session that is over or on a dead link, a
listener whose clients are all dealt with. That two ends do not wait for each
other is therefore a property of its own, `NoMutualWait`.

**Fairness.** `Tunnel!FairSpec` assumes weak fairness of the client's steps, of the
server's and of the timer: tokio polls a task whose socket is ready and fires
elapsed timers. Nothing obliges the user at the prompt, or the network. A client
that waits on a dead link has no enabled step and is allowed to wait for ever, as
in the code. `FrameStream!FairSpec` assumes the reader and `write_all` go on when
they can; nobody has to send another frame or to close. `Listener!FairSpec` assumes
each accept loop runs when it can, that accept does not fail for ever, and that a task
whose session has ended releases its slot; no session is obliged to end.

## 4. What the runs found

1. *Reordering inside the window ends the session.* README.md:36 and
   `protocol`:357 say the window tolerates out-of-order delivery. The filter does;
   the cipher behind it accepts only its own counter (`crypto`:248), and the `?`
   at `server.rs`:267 closes the session (`receive_reorder`).
2. *The echo of a large message cannot be read.* The server prepends 15 bytes and
   checks no size; messages of 65497 to 65511 bytes are handled but the client
   refuses the answer (`tunnel_echo_size`).
3. *The handshake does not authenticate the server.* README.md:301 says that only the
   legitimate server can complete it. A client whose handshake somebody else answered
   returns from `perform_handshake` with Ok, reports a secure session and sends its first
   request (`tunnel_other`). The transport keys mix in DH(e_c, s_s), so the damage ends
   there: nobody but the client holds those keys, nothing sent under them is handled
   and nothing is ever shown (`HandshakeAgreement`, in `tunnel_damage` and proved).
4. *`max_connections` is no maximum for a server that runs twice.* `server.rs`:41 and
   README.md:140 say it is. `run` takes `&self`; two accept loops may both load the
   counter before either increments it (`listener_loops`). While one loop has run, as
   `main` starts it, the maximum holds; with several the excess is one session for each
   loop but the first, and no more (`ExcessBounded`, in `listener`; both are proved).
5. *`reset_connections` while sessions run wraps the counter*: later decrements go
   below zero and a server with a limit then refuses every client
   (`listener_reset`).

Three more follow from the code as it stands, without an order of events to look for, and
no run states them. The model has all three behaviours.

* *Close is not authenticated*, although README.md:167 says it is. The frame has no
  ciphertext (`protocol`:147), and the header of a frame is not part of what its tag
  covers, so a frame whose type becomes Close ends the transport loop with Ok
  (`server.rs`:291). It can cut a session short, and neither skip nor make up a request
  or an answer (`DeliveredInOrder`).
* *The interactive session has no timer*, although `client.rs`:35 says of the timeout that
  it is for network operations: the read at `client.rs`:320 waits on a dead link for ever.
* *The interactive client can fall one answer behind.* A frame of another type answers
  the pending request without an error and leaves the real answer unread
  (`client.rs`:322), as after a second copy of HandshakeResp. On an undisturbed TCP
  stream this does not happen: `ReplyCorrelation`, in `tunnel_tcp` and proved.

Everything else listed in section 3 holds within its bounds. In particular:

* Although the filter records a number before authentication, a refused frame
  always ends the session, so the filter is never out of step with the cipher while
  it matters (`FilterMatchesCipher`).
* With one accept loop a stale `Relaxed` load never lets one session too many in,
  because without resets the counter only decreases between two increments of that
  loop (`ExcessBounded`; `NeverOverLimit` is the theorem).
* A client built with another key or prologue than the server's gets no session with
  that server, but it may finish its handshake with somebody else, and then holds keys
  that serve nobody (`MismatchNeverEstablishes`).
* A frame is never torn, merged with another or moved, whatever the chunking and
  wherever the writer stops. A frame of 2^32 bytes or more, which `write_to` does not
  refuse, would arrive as other frames: `FrameChannel` calls the channel garbled from
  there on, and what arrives then has no valid tag.

## 5. What is proved

All proofs are of `Spec => []...` for arbitrary constants subject to the named
assumptions in the modules (positive bitmap width and largest nonce, a finite set of
connections smaller than `usize::MAX`, a finite set of accept loops, limits that are
`None` or a number, message sizes that are natural numbers, a base of at least six
values and a size limit that fits the length prefix and holds a header). A theorem with a
further hypothesis says so below.

**ReplayWindowLemmas** holds what the filter's operators preserve, for the two
modules of proofs that use the filter: the window size stays between 1 and the
bitmap width, the bitmap inside its width, and the newest accepted number is the one
recorded.

**ReplayFilterProofs.** The invariant `IInv` says that the newest number is the
last one, that inside the window the bitmap equals the history bit by bit, and
that the counters add up. `AcceptedOnce` alone is not inductive: the filter's
state does not mention forgotten numbers, and only the agreement of bitmap and
history rules out that a forgotten one is let in again. Bits between the window
size and the bitmap width may be set; the invariant leaves them open and the
proof shows nothing reads them. From it follow `TypeCorrect`,
`NoNumberAcceptedTwice`, `HasSeenIsHistory` and the refinement
`FilterImplementsGuard` (initial states map to initial states, each call to the
guard's step with the same verdict).

**CipherPairProofs.** `IInv` adds to the types: every released nonce is below the
last one and, without a reset, below the sender's counter (`BelowCounter`); nonces
under one key grow in order of release (`Increasing`); the receiver is never ahead
(`ReceiverBehind`). From it follow `TypeCorrect`, `NoNonceReuse`, and
`DecryptIncrementSafe`. The last holds even with resets, because `encrypt` never
releases the last nonce and `decrypt` needs a released ciphertext to move.

`HInv` builds on that invariant and adds what the two histories have to do with the
counters: the receiver takes the keys in order
(`OpenedUpToKey`), what it opened under its key is what was released below its
counter (`OpenedBelowCounter`), and the sender's counter is the number of messages
released under its key (`ReleasedCounted`). The message a `decrypt` takes is then the
next one in the order of release, which gives `ReceiverInOrder`; `NonceBudget` is
arithmetic on `ReleasedCounted`.

**ReceivePathProofs.** `IInv` numbers the frames (`FramesNumbered`), makes the
receiver's counter the length of what was delivered (`CounterIsLength`) and says that
while the session is open the newest number of the filter is the one before that
counter (`FilterInStep`). The last is what is lost when a frame passes the filter and
not the cipher, and the session then ends with that very step. From it follow
`StreamDelivered` and `FilterAdmitsNext`.

**ListenerProofs.** `IInv` adds to the counter and the limit what each loop knows of
the connection it deals with (`CurrentStatus`) and a bound (`RoomForExposed`): the
slots in use, together with the loops that may still take one, are at most the limit
plus the number of started loops, less one. A loop is exposed when it is past the load
or may still load a value below the limit. Neither `ExcessBounded` nor
`LimitRespected` is inductive without this, since the increment does not look at the limit. An increment that reaches the
limit moves its own loop out of the exposed ones, because it has seen the newest
value; one that stays below leaves room for every loop. From it follow
`CounterCorrect`, `ExcessIsBounded` and, for a server with one accept loop,
`NeverOverLimit`. The types of the variables are a part of `IInv` and no result: every
update of the counter is modulo its size.

**FrameStreamProofs** has four parts. The first is what the code's loops over bytes
compute for every length: an induction principle for sets of numbers
(`LeastNumber`, `Induction`), that a recursive function exists and obeys its equation
(`Recursion`, `WeightSteps`), and that the fold behind `from_be_bytes` reads digit by
digit (`FoldExists`, `FromBytes`). Digits written are read back (`RoundTrip`), and so
are frames: `CodecRoundTrip` says that `from_bytes` undoes `serialize_into` on every
frame within the size limit. The second part is the reader. `IInv` adds to the types
where it stands (`Buffers`): inside a prefix, with nothing of the frame, or inside a
frame whose size was accepted and not reached. `TypeOK` alone is not inductive, because
it does not say that a prefix is only begun when the frame's buffer is empty. From it
follows `TypeCorrect`. The third is `ParsersAlike`: within the prefix `from_bytes` has
too little to go by (`TooShort`), behind it both look at the same size, type and fields
(`ParsedFrame`, `BodyRead`). It holds whatever bytes arrive, so it does not depend on what
the writer or the network did.

The fourth is the refinement `ChannelImplemented`. Its invariant `Stream` says where every
byte belongs. The stream is the frames sent, serialised one behind the other, and
`At(s, offsets, p, b)` that b is the byte of that stream at offset p, unless p was altered.
What is not written yet is the end of the last frame (`OutboxTail`); what the reader has
taken, what is under way and what is not written add up to the stream, less what a reset
discarded (`Placed`). The reader is in one of two states. `InStep`: it handed out the
frames sent, all of them good, and its buffers and the wire hold the bytes that come
next. `OffStep`: the stream is garbled, the good frames are received, and nothing is known
of the rest. Three lemmas about a reader in step carry the proof: the prefix of a good
frame is read as the frame's size, and the prefix of the first oversized one is refused
if nothing was altered and no length wraps (`PrefixKnown`); what is read behind the
prefix of a good frame is that frame (`BodyKnown`); and a reader in step holds less than
the frame it is in (`HoldsLess`), so that after a shutdown only the last frame can be
missing. Where a frame ends is a fold over the frames (`EndSteps`, `EndsGrow`), and which
frames are good the greatest element of a set (`GoodIs`, `GoodSend`, `GoodAlter`).

**TunnelProofs** is about one connection under every fault of the model, in any
number. `IInv` has three strands.

* *Origin.* What is intact on its way to the server was sealed by the client, and the
  other way round (`QueuesGenuine`); a ciphertext ever sealed is one of four kinds, the
  two of the handshake, the i-th request under nonce i - 1, and the answer to it
  (`SealedKnown`). `Request(i)` and `Reply(i)` name those terms.
* *Keys.* The server either has no keys or those of the undisturbed handshake
  (`ServerKeys`). The client has none, or those and then the server has its own, or the
  keys of the handshake somebody else answered, and then nothing is handled or shown
  (`ClientKeys`). A valid response is therefore one of two: the server's, whose
  acknowledgement is only sealed once the server has gone on, or the other's, sealed
  under a key that no end ever holds (`OtherAckKey`).
* *Counting.* Every nonce, and the filter's counters, are the length of a history
  (`CountersAgree`, `FilterInStep`), handled requests are those sent, shown answers
  those given (`HandledIsSent`, `RepliesAnswer`, `ShownIsReplied`).

None of the properties is inductive without the others: a frame that decrypts is the
next request because its key tells who sealed it and its nonce which request it is.
That two keys or two hashes differ is read off the terms (`KeysDiffer`); what a valid
tag says is `InitAuthentic`, `RespAuthentic` and the lemmas after them. From `IInv`
follow `TypeCorrect`, `KeysAgree`, `MismatchRefused`, `NonceUnique`, `FilterStays` and
`InOrder`.

**TunnelTcpProofs** assumes `Tcp`: the link may refuse the connection, be reset or stop
carrying anything, but delivers frames unaltered, in order and once, and nobody else's.
Without that hypothesis `ReplyCorrelation` is false: a repeated HandshakeResp breaks it.
`NobodyElse` says that before the server has keys nothing is on its way to the client
and it has none either. `Turns` says on top of that and of `IInv` that at most one frame
is under way in both directions together (`OneFrame`), whose turn it is in the
handshake, at the prompt, behind a request and after the end (`HandshakeTurns`,
`PromptTurn`, `AnswerTurn`, `CloseTurn`), how requests and answers are numbered
(`Numbered`), and that the books of the two ends differ by the frame under way
(`BooksAgree`). `NobodyStuck`, `AnswersMatch` and `TrafficConserved` follow; the last
needs what the fold over a queue of at most one frame is (`BytesInShort`), taken from
the definition of the fold without induction.
`SessionImplemented` is the refinement of `RequestReply`: one lemma for each step of
the abstract session says which histories and phases make it (`SessionAsks`,
`SessionServes`, `SessionShows`, `SessionCloses`), and one for each group of actions
that they do. The bytes and frames counted are unbounded in the proofs.

The invariants of `TunnelProofs`, of `TunnelTcpProofs` and of `ChannelImplemented` were
checked by TLC on the configurations of `tunnel_damage`, `tunnel_tcp` and `frame_stream`
before they were proved.

**Only model-checked:** the liveness properties (`HealthyExchangeSucceeds`,
`TimeoutBoundsOneShot`, `ServerReleased`, `EveryClientAnswered`, `SentArrives`,
`ReaderReleased`), out of this prover's reach with ENABLED and fairness. Every other
property that a passing run checks is a theorem.

## 6. Abstractions, and what is left out

* Cryptography is symbolic: no guessing, no collisions, and the transcript hash is
  injective. Zeroisation has no state to check; key text parses or it does not.
* `Tunnel` moves whole frames, `FrameStream` bytes of one direction. What an altered
  byte can do to frame boundaries is therefore in `FrameStream`, and what an altered
  frame can do to a session in `Tunnel`. A frame that is cut off by a timeout is the
  end of the stream to the reader in both.
* In `Tunnel`, somebody else on the network can answer the client, and can disturb frames.
  They never hold the private half of the server's static key, nor of either end's
  ephemeral key, so they cannot make a transport frame. Somebody who connects to the
  server in the client's place is another client: the handshake authenticates no client.
  What they seal is not in `sealed`, which is the history of the two ends.
* An `accept` that fails (`server.rs`:163-165) changes nothing and is no action of
  `Listener`: the connection stays in the queue and the loop tries again.
  `EveryClientAnswered` assumes that it does not fail for ever.
* A client that connects and neither writes nor leaves keeps the server task at the read
  of HandshakeInit for ever. `Tunnel` has the client that gives up there (its timer, a
  reset), and no client that is silent by intent.
* One client and one server task per `Tunnel`; tasks interact only through the
  counter, which is `Listener`'s subject.
* A message is its number and its length. `/help`, `/info`, `/stats` and blank lines
  change no session state. A plaintext is told apart by its origin, so UTF-8 validity
  does not come up.
* Metrics are the four counters. Clocks and rates need real time, and
  `SessionMetrics::reset` is called by no session.
* A panic in a session task would keep its slot; the one a session could meet, the
  overflow in `decrypt`, is shown not to happen.

Not modelled: `verify` and `bench` are straight-line calls of the library that is
modelled here, timed or printed; `keygen` prints a key and ends; `error` and `lib` are
declarations; accessors, predicates and `Display` only read fields; the tests and
examples were read as evidence of what is intended. How busy an accept loop is when
`accept` keeps failing, and whether another process takes the port that the self-test
found, depend on real time and on other programs.

## 7. Plan

Done, in this order: ReplayWindow, ReplayFilter, ReplayGuard and their proofs;
NoiseCrypto, CipherPair and its proofs; ReceivePath; WireFrame, SessionMetrics and
Tunnel; Listener and its proofs; FrameCodec, FrameStream and FrameChannel;
RequestReply and its refinement by Tunnel; CommandLine; several accept loops in
Listener and its proofs; the proofs about histories and about ReceivePath; the proofs
about Tunnel, first under every fault, then over TCP with the refinement; the proofs
about FrameCodec and FrameStream, with the refinement of FrameChannel; answers to the
handshake that are somebody else's, in Tunnel and its proofs, and the limit of one accept
loop apart from that of several.

Next: a lemma for every liveness property that says in terms of the state which step is
possible where the property expects one, so that only the fairness argument is left to
the model checker.
