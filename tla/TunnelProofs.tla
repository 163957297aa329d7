---------------------------- MODULE TunnelProofs ----------------------------
(***************************************************************************)
(* Key agreement, authentication and order in module Tunnel, for every way *)
(* to start the two commands, every message size, every largest nonce and  *)
(* any number of resets, partitions, frames altered, repeated or reordered *)
(* and answers to the handshake that are not the server's.                 *)
(***************************************************************************)
EXTENDS Tunnel, ReplayWindowLemmas, SequenceTheorems, TLAPS

USE NonceAssumption, WindowAssumption, TunnelAssumption

-----------------------------------------------------------------------------
(* The keys, and what the two ends seal with them *)

H2 == ClientH2(ServerEphemeral)

\* The keys of a handshake nobody interfered with, as the client computes them.
DhEphemeral == diffie_hellman(ClientEphemeral, ServerEphemeral)
InitKey == InitCipher(ClientDhStatic, ClientH1).key
AckKey == RespCipher(DhEphemeral, H2).key
ClientWriteKey == TransportKeys(ClientDhStatic, DhEphemeral, H2).client_write_key
ServerWriteKey == TransportKeys(ClientDhStatic, DhEphemeral, H2).server_write_key

\* The keys of a handshake that somebody else answered.
OtherH2 == ClientH2(OtherEphemeral)
DhOther == diffie_hellman(ClientEphemeral, OtherEphemeral)
OtherAckKey == RespCipher(DhOther, OtherH2).key
OtherClientKey == TransportKeys(ClientDhStatic, DhOther, OtherH2).client_write_key
OtherServerKey == TransportKeys(ClientDhStatic, DhOther, OtherH2).server_write_key

\* The client was built with the server's static key and prologue.
Matching ==
  config.client.pinned = config.server.static /\ config.client.prologue = config.server.prologue

AADOf(msg_type) == IF msg_type = "DataPayload" THEN DataAAD ELSE HeartbeatAAD

InitMessage == Ciphertext(InitKey, 0, ClientH1, Plaintext("HANDSHAKE_INIT_CLIENT", 0, 21))
AckMessage == Ciphertext(AckKey, 0, H2, Plaintext("HANDSHAKE_COMPLETE_ACK", 0, 22))

OtherAck == Ciphertext(OtherAckKey, 0, OtherH2, Plaintext("HANDSHAKE_COMPLETE_ACK", 0, 22))

\* The i-th request, under whatever keys the client has, and the answer to it.
Request(i) == Ciphertext(ctx.key, i - 1, AADOf(sent[i][1]), sent[i][2])
Reply(i) == Ciphertext(ServerWriteKey, i - 1, AADOf(handled[i][1]), replies[i])

ClientSealed == {InitMessage} \cup { Request(i) : i \in DOMAIN sent }
ServerSealed == {AckMessage} \cup { Reply(i) : i \in DOMAIN replies }

-----------------------------------------------------------------------------
(* The types *)

Texts ==
  { "HANDSHAKE_INIT_CLIENT", "HANDSHAKE_COMPLETE_ACK", "message", "PING", "echo", "PONG", "none" }
Plaintexts == [text : Texts, id : Nat, size : Nat]
Requests == {"DataPayload", "Heartbeat"} \X Plaintexts
Answers == [asked : Nat, plaintext : Plaintexts]
Traffic ==
  [bytes_sent : Nat, bytes_received : Nat, frames_sent : Nat, frames_received : Nat]

Ephemerals == {ClientEphemeral, ServerEphemeral, OtherEphemeral, NoKey, "another key"}

Keys ==
  { <<>>, InitKey, AckKey, ClientWriteKey, ServerWriteKey,
    OtherAckKey, OtherClientKey, OtherServerKey }

\* Altered in whatever way, a frame stays one.
Ciphertexts ==
  [ key : Keys, nonce : Nonces,
    aad : {<<>>, ClientH1, H2, OtherH2, DataAAD, HeartbeatAAD}, plaintext : Plaintexts,
    intact : BOOLEAN ]
Frames ==
  [ msg_type : MessageTypes \cup {UnknownType}, nonce : Nonces, ephemeral : Ephemerals,
    ciphertext : Ciphertexts, payload_len : Nat ]

\* What can be on the way to the server: everything that is still intact was sealed
\* by the client.
FromClient == { f \in Frames : f.ciphertext.intact => f.ciphertext \in ClientSealed }

\* What can be on the way to the client: what is still intact was sealed by the
\* server, once it had authenticated the client, or is somebody else's answer.
FromServer ==
  { f \in Frames : f.ciphertext.intact => \/ srx.key # <<>> /\ f.ciphertext \in ServerSealed
                                         \/ f.ciphertext = OtherAck }

TransportKeySet == {ClientWriteKey, ServerWriteKey, OtherClientKey, OtherServerKey}
CipherStates == [key : {<<>>} \cup TransportKeySet, nonce : Nonces]

Types ==
  /\ TypeOK
  /\ cmetrics \in Traffic /\ smetrics \in Traffic
  /\ ctx \in CipherStates /\ crx \in CipherStates
  /\ stx \in CipherStates /\ srx \in CipherStates
  /\ sent \in Seq(Requests) /\ handled \in Seq(Requests)
  /\ replies \in Seq(Plaintexts) /\ shown \in Seq(Answers)

-----------------------------------------------------------------------------
(* The inductive invariant *)

QueuesGenuine == c2s \in Seq(FromClient) /\ s2c \in Seq(FromServer)

SealedKnown ==
  \A c \in sealed :
    \/ c \in ClientSealed
    \/ srx.key # <<>> /\ c \in ServerSealed

\* The server has its keys only if the client knew its identity, the client only
\* if the server has them or somebody else answered it; then it has not been told
\* anything and nothing it sent was handled.
ServerKeys ==
  \/ srx = NoCipher /\ stx = NoCipher /\ spc # "transport"
  \/ /\ srx.key = ClientWriteKey /\ stx.key = ServerWriteKey
     /\ Matching /\ spc \notin {"none", "await_init"}

Handshaking == {"start", "connected", "await_resp"}

ClientKeys ==
  \/ ctx = NoCipher /\ crx = NoCipher /\ cpc \in Handshaking \cup {"err", "timeout"}
  \/ /\ ctx.key = ClientWriteKey /\ crx.key = ServerWriteKey
     /\ srx.key # <<>> /\ cpc \notin Handshaking
  \/ /\ ctx.key = OtherClientKey /\ crx.key = OtherServerKey
     /\ handled = <<>> /\ shown = <<>> /\ cpc \notin Handshaking

\* Every counter is the length of the history it counts.
CountersAgree ==
  /\ ctx.nonce = Len(sent) /\ srx.nonce = Len(handled)
  /\ stx.nonce = Len(replies) /\ crx.nonce = Len(shown)

HandledIsSent ==
  /\ Len(handled) <= Len(sent)
  /\ \A i \in DOMAIN handled : handled[i] = sent[i]

\* In the transport loop every handled request has its answer.
RepliesAnswer ==
  /\ Len(replies) <= Len(handled)
  /\ spc = "transport" => Len(replies) = Len(handled)

ShownIsReplied ==
  /\ Len(shown) <= Len(replies)
  /\ \A i \in DOMAIN shown : shown[i].plaintext = replies[i]

\* The filter counts what the cipher does from before the session on.
FilterInStep ==
  spc \in {"none", "await_init", "transport"} =>
    /\ filter.total_rejected = 0
    /\ filter.total_accepted = srx.nonce
    /\ IF filter.initialized THEN filter.last_seq = srx.nonce - 1 ELSE srx.nonce = 0

IInv ==
  /\ Types
  /\ QueuesGenuine
  /\ SealedKnown
  /\ ServerKeys
  /\ ClientKeys
  /\ CountersAgree
  /\ HandledIsSent
  /\ RepliesAnswer
  /\ ShownIsReplied
  /\ FilterInStep

-----------------------------------------------------------------------------
(* Facts about the terms *)

\* The keys differ: in the hash, in the number of secrets or in the label.
LEMMA KeysDiffer ==
  /\ <<>> \notin {InitKey, AckKey, OtherAckKey} \cup TransportKeySet
  /\ InitKey \notin {AckKey, OtherAckKey} \cup TransportKeySet
  /\ AckKey \notin {OtherAckKey} \cup TransportKeySet /\ OtherAckKey \notin TransportKeySet
  /\ ClientWriteKey \notin {ServerWriteKey, OtherClientKey, OtherServerKey}
  /\ ServerWriteKey \notin {OtherClientKey, OtherServerKey}
  /\ OtherClientKey # OtherServerKey
  <1>1. H2 # OtherH2 /\ ClientH1 # H2 /\ ClientH1 # OtherH2
    BY DEF H2, OtherH2, ClientH1, ClientH2, hash_handshake_state, NoKey, ServerEphemeral,
       OtherEphemeral
  <1>. QED
    BY <1>1 DEF TransportKeySet, InitKey, AckKey, ClientWriteKey, ServerWriteKey, OtherAckKey,
       OtherClientKey, OtherServerKey, InitCipher, RespCipher, TransportKeys,
       derive_session_keys, new, with_nonce

\* The associated data says what a request is.
LEMMA AADsDiffer == DataAAD # HeartbeatAAD
  BY DEF DataAAD, HeartbeatAAD

\* While the two ends keep their configuration they keep their keys.
LEMMA FixedTerms ==
  ASSUME config' = config
  PROVE  /\ ClientH1' = ClientH1 /\ H2' = H2 /\ Matching' = Matching
         /\ InitKey' = InitKey /\ AckKey' = AckKey
         /\ ClientWriteKey' = ClientWriteKey /\ ServerWriteKey' = ServerWriteKey
         /\ OtherClientKey' = OtherClientKey /\ OtherServerKey' = OtherServerKey
         /\ InitMessage' = InitMessage /\ AckMessage' = AckMessage /\ OtherAck' = OtherAck
         /\ CipherStates' = CipherStates /\ Ciphertexts' = Ciphertexts /\ Frames' = Frames
  BY DEF Matching, InitKey, AckKey, ClientWriteKey, ServerWriteKey, OtherAckKey, OtherClientKey,
         OtherServerKey, InitCipher, RespCipher, TransportKeys, derive_session_keys, H2, OtherH2,
         ClientH1, ClientH2, ClientDhStatic, InitMessage, AckMessage, OtherAck, TransportKeySet,
         Keys, CipherStates, Ciphertexts, Frames

\* While nothing is sealed, what is genuine does not change.
LEMMA SealedFixed ==
  ASSUME UNCHANGED <<config, sent, handled, replies, srx>>, ctx'.key = ctx.key \/ sent = <<>>
  PROVE  /\ ClientSealed' = ClientSealed /\ ServerSealed' = ServerSealed
         /\ FromClient' = FromClient /\ FromServer' = FromServer
  <1>1. /\ \A i \in DOMAIN sent : Request(i)' = Request(i)
        /\ \A i : Reply(i)' = Reply(i)
    BY FixedTerms DEF Request, Reply
  <1>2. ClientSealed' = ClientSealed /\ ServerSealed' = ServerSealed
    BY <1>1, FixedTerms DEF ClientSealed, ServerSealed
  <1>. QED
    BY <1>2, FixedTerms DEF FromClient, FromServer

Extends(s, t) == \A i \in DOMAIN s : i \in DOMAIN t /\ t[i] = s[i]

\* What was genuine stays so while the client sends more.
LEMMA ClientSealedGrows ==
  ASSUME config' = config, ctx'.key = ctx.key, Extends(sent, sent')
  PROVE  ClientSealed \subseteq ClientSealed' /\ FromClient \subseteq FromClient'
  <1>1. \A i \in DOMAIN sent : i \in DOMAIN sent' /\ Request(i)' = Request(i)
    BY FixedTerms DEF Extends, Request
  <1>2. ClientSealed \subseteq ClientSealed'
    BY <1>1, FixedTerms DEF ClientSealed
  <1>. QED
    BY <1>2, FixedTerms DEF FromClient

\* The same for the server, which answers what it has handled.
LEMMA ServerSealedGrows ==
  ASSUME Types, RepliesAnswer, config' = config,
         Extends(handled, handled'), Extends(replies, replies'),
         srx.key # <<>> => srx'.key # <<>>
  PROVE  ServerSealed \subseteq ServerSealed' /\ FromServer \subseteq FromServer'
  <1>1. DOMAIN replies \subseteq DOMAIN handled
    BY DEF Types, RepliesAnswer
  <1>2. \A i \in DOMAIN replies : i \in DOMAIN replies' /\ Reply(i)' = Reply(i)
    BY <1>1, FixedTerms DEF Extends, Reply
  <1>3. ServerSealed \subseteq ServerSealed'
    BY <1>2, FixedTerms DEF ServerSealed
  <1>. QED
    BY <1>3, FixedTerms DEF FromServer

\* A history that nothing is appended to extends itself.
LEMMA Unextended == ASSUME NEW s PROVE Extends(s, s)
  BY DEF Extends

\* What appending to a history does to its length, its elements and its domain.
LEMMA AppendExtends ==
  ASSUME NEW S, NEW s \in Seq(S), NEW e \in S
  PROVE  /\ Extends(s, Append(s, e))
         /\ Append(s, e) \in Seq(S)
         /\ Len(Append(s, e)) = Len(s) + 1
         /\ Append(s, e)[Len(s) + 1] = e
         /\ DOMAIN Append(s, e) = DOMAIN s \cup {Len(s) + 1}
  BY DEF Extends

-----------------------------------------------------------------------------
(* Facts about frames and queues *)

\* record_tx and record_rx leave the counters natural numbers.
LEMMA TrafficCounts ==
  ASSUME NEW m \in Traffic, NEW n \in Nat
  PROVE  record_tx(m, n) \in Traffic /\ record_rx(m, n) \in Traffic
  <1>1. /\ m.bytes_sent \in Nat /\ m.bytes_received \in Nat
        /\ m.frames_sent \in Nat /\ m.frames_received \in Nat
    BY DEF Traffic
  <1>2. /\ m.bytes_sent + n \in Nat /\ m.bytes_received + n \in Nat
        /\ m.frames_sent + 1 \in Nat /\ m.frames_received + 1 \in Nat
    BY <1>1
  <1>. QED
    BY <1>1, <1>2, Zenon DEF Traffic, record_tx, record_rx

\* The counters of a session's metrics are natural numbers, as the type invariant
\* says it.
LEMMA TrafficIsNat ==
  ASSUME NEW m \in Traffic
  PROVE  \A field \in DOMAIN m : m[field] \in Nat
  BY DEF Traffic

\* Whatever happens to a frame, it is still one, and what is intact is what it was.
LEMMA DamageStays ==
  ASSUME NEW f \in Frames, NEW g \in Damaged(f)
  PROVE  g \in Frames /\ (g.ciphertext.intact => g.ciphertext = f.ciphertext)
  <1>1. CASE \E t \in MessageTypes \cup {UnknownType} : g = [f EXCEPT !.msg_type = t]
    BY <1>1 DEF Frames
  <1>2. CASE \E n \in Nonces : g = [f EXCEPT !.nonce = n]
    BY <1>2 DEF Frames
  <1>3. CASE g = [f EXCEPT !.ephemeral = "another key"]
    BY <1>3 DEF Frames, Ephemerals
  <1>4. CASE g = [f EXCEPT !.ciphertext.intact = FALSE]
    <2>1. [f.ciphertext EXCEPT !.intact = FALSE] \in Ciphertexts
      BY DEF Frames, Ciphertexts
    <2>. QED
      BY <1>4, <2>1 DEF Frames, Ciphertexts
  <1>. QED
    BY <1>1, <1>2, <1>3, <1>4 DEF Damaged

\* A queue disturbed in whatever way holds what it held, altered or not.
LEMMA DisturbedStays ==
  ASSUME NEW S, NEW queue \in Seq(S), \A f \in S : Damaged(f) \subseteq S,
         NEW fault \in {"damage", "duplicate", "reorder"}, NEW q \in Disturbed(fault, queue)
  PROVE  q \in Seq(S)
  <1>1. CASE fault = "damage"
    <2>1. PICK i \in DOMAIN queue : \E f \in Damaged(queue[i]) : q = ReplaceAt(queue, i, f)
      BY <1>1 DEF Disturbed
    <2>2. PICK f \in Damaged(queue[i]) : q = ReplaceAt(queue, i, f)
      BY <2>1
    <2>3. f \in S
      BY <2>2
    <2>. QED
      BY <2>2, <2>3, ExceptSeq DEF ReplaceAt
  <1>2. CASE fault = "duplicate"
    BY <1>2 DEF Disturbed
  <1>3. CASE fault = "reorder"
    <2>1. PICK i \in 1 .. Len(queue) - 1 : q = InsertAt(RemoveAt(queue, i), i + 1, queue[i])
      BY <1>3 DEF Disturbed
    <2>. DEFINE r == RemoveAt(queue, i)
    <2>2. r \in Seq(S) /\ Len(r) = Len(queue) - 1
      <3>1. /\ SubSeq(queue, 1, i - 1) \in Seq(S) /\ Len(SubSeq(queue, 1, i - 1)) = i - 1
            /\ SubSeq(queue, i + 1, Len(queue)) \in Seq(S)
            /\ Len(SubSeq(queue, i + 1, Len(queue))) = Len(queue) - i
        OBVIOUS
      <3>. QED
        BY <3>1, ConcatProperties DEF RemoveAt
    <2>. HIDE DEF r
    <2>3. SubSeq(r, 1, i) \in Seq(S) /\ SubSeq(r, i + 1, Len(r)) \in Seq(S)
      BY <2>2
    <2>4. <<queue[i]>> \in Seq(S)
      OBVIOUS
    <2>5. i + 1 - 1 = i
      OBVIOUS
    <2>6. InsertAt(r, i + 1, queue[i]) \in Seq(S)
      BY <2>3, <2>4, <2>5, ConcatProperties DEF InsertAt
    <2>. QED
      BY <2>1, <2>6 DEF r
  <1>. QED
    BY <1>1, <1>2, <1>3

\* Genuine frames stay genuine under way.
LEMMA GenuineStays ==
  /\ \A f \in FromClient : Damaged(f) \subseteq FromClient
  /\ \A f \in FromServer : Damaged(f) \subseteq FromServer
  BY DamageStays DEF FromClient, FromServer

\* What the two ends put on the link are frames.
LEMMA FramesBuilt ==
  /\ \A nonce \in Nonces : CloseFrame(nonce) \in Frames /\ ~CloseFrame(nonce).ciphertext.intact
  /\ \A c \in Ciphertexts, msg_type \in MessageTypes, ephemeral \in Ephemerals :
       /\ SealedFrame(msg_type, c) \in Frames /\ SealedFrame(msg_type, c).ciphertext = c
       /\ HandshakeFrame(msg_type, ephemeral, c) \in Frames
       /\ HandshakeFrame(msg_type, ephemeral, c).ciphertext = c
  <1>1. NoCiphertext \in Ciphertexts /\ ~NoCiphertext.intact
    <2>. DEFINE c == Ciphertext(<<>>, 0, <<>>, Plaintext("none", 0, 0))
    <2>1. c \in Ciphertexts
      BY DEF Ciphertext, Ciphertexts, Keys, Plaintext, Plaintexts, Texts, Nonces
    <2>. HIDE DEF c
    <2>2. [c EXCEPT !.intact = FALSE] \in Ciphertexts /\ ~[c EXCEPT !.intact = FALSE].intact
      BY <2>1 DEF Ciphertexts
    <2>. QED
      BY <2>2 DEF NoCiphertext, c
  <1>2. \A nonce \in Nonces : CloseFrame(nonce) \in Frames /\ ~CloseFrame(nonce).ciphertext.intact
    BY <1>1 DEF CloseFrame, Frame, Frames, Ephemerals, MessageTypes
  <1>3. \A c \in Ciphertexts : c.nonce \in Nonces /\ c.plaintext.size \in Nat
    BY DEF Ciphertexts, Plaintexts
  <1>4. 0 \in Nonces /\ NoKey \in Ephemerals
    BY DEF Nonces, Ephemerals
  <1>5. ASSUME NEW c \in Ciphertexts, NEW msg_type \in MessageTypes, NEW ephemeral \in Ephemerals
        PROVE  /\ SealedFrame(msg_type, c) \in Frames /\ SealedFrame(msg_type, c).ciphertext = c
               /\ HandshakeFrame(msg_type, ephemeral, c) \in Frames
               /\ HandshakeFrame(msg_type, ephemeral, c).ciphertext = c
    <2>1. c.plaintext.size + TAG_LEN \in Nat /\ KEY_LEN + c.plaintext.size + TAG_LEN \in Nat
      BY <1>3 DEF TAG_LEN, KEY_LEN
    <2>. QED
      BY <1>3, <1>4, <2>1, Zenon DEF SealedFrame, HandshakeFrame, Frame, Frames
  <1>. QED
    BY <1>2, <1>5

\* What the metrics count for a frame is a natural number.
LEMMA WireBytesIsNat == \A f \in Frames : WireBytes(f) \in Nat
  BY DEF Frames, WireBytes, PrefixLen, HeaderLen

\* The terms sealed have the types of ciphertexts.
LEMMA SealedTypes ==
  ASSUME Types, CountersAgree
  PROVE  /\ InitMessage \in Ciphertexts /\ AckMessage \in Ciphertexts
         /\ OtherAck \in Ciphertexts
         /\ \A i \in DOMAIN sent : Request(i) \in Ciphertexts
         /\ RepliesAnswer => \A i \in DOMAIN replies : Reply(i) \in Ciphertexts
  <1>1. InitMessage \in Ciphertexts
    BY DEF InitMessage, Ciphertext, Ciphertexts, Keys, Plaintext, Plaintexts, Texts, Nonces
  <1>2. AckMessage \in Ciphertexts /\ OtherAck \in Ciphertexts
    BY DEF AckMessage, OtherAck, Ciphertext, Ciphertexts, Keys, Plaintext, Plaintexts, Texts, Nonces
  <1>3. ASSUME NEW i \in DOMAIN sent PROVE Request(i) \in Ciphertexts
    <2>1. sent[i][2] \in Plaintexts /\ AADOf(sent[i][1]) \in {DataAAD, HeartbeatAAD}
      BY DEF Types, Requests, AADOf
    <2>2. i - 1 \in Nonces
      BY DEF Types, CountersAgree, CipherStates, Nonces
    <2>3. ctx.key \in Keys
      BY DEF Types, CipherStates, TransportKeySet, Keys
    <2>. QED
      BY <2>1, <2>2, <2>3, Zenon DEF Request, Ciphertext, Ciphertexts
  <1>4. ASSUME RepliesAnswer, NEW i \in DOMAIN replies PROVE Reply(i) \in Ciphertexts
    <2>1. replies[i] \in Plaintexts /\ AADOf(handled[i][1]) \in {DataAAD, HeartbeatAAD}
      BY <1>4 DEF Types, Requests, AADOf, RepliesAnswer
    <2>2. i - 1 \in Nonces
      BY DEF Types, CountersAgree, CipherStates, Nonces
    <2>. QED
      BY <2>1, <2>2, Zenon DEF Reply, Ciphertext, Ciphertexts, Keys
  <1>. QED
    BY <1>1, <1>2, <1>3, <1>4

-----------------------------------------------------------------------------
(* The invariant holds initially *)

\* Two ends that have not met yet satisfy the invariant.
LEMMA InitIInv == Init => IInv
  <1>. SUFFICES ASSUME Init PROVE IInv
    OBVIOUS
  <1>1. /\ NoCipher \in CipherStates /\ NoCipher.nonce = 0
        /\ NoTraffic \in Traffic
        /\ with_window_size(BitmapBits) \in ReplayFilters
        /\ with_window_size(BitmapBits).total_rejected = 0
        /\ with_window_size(BitmapBits).total_accepted = 0
        /\ with_window_size(BitmapBits).initialized = FALSE
    BY ClampedSize DEF NoCipher, new, with_nonce, CipherStates, Nonces, NoTraffic, Traffic,
       with_window_size, EmptyFilter, ReplayFilters, Seqs
  <1>2. TypeOK
    BY <1>1, TrafficIsNat DEF Init, TypeOK, CipherStates
  <1>3. Types
    BY <1>1, <1>2 DEF Init, Types
  <1>4. QueuesGenuine
    BY DEF Init, QueuesGenuine
  <1>5. SealedKnown
    BY DEF Init, SealedKnown
  <1>6. ServerKeys /\ ClientKeys
    BY DEF Init, ServerKeys, ClientKeys, Handshaking
  <1>7. CountersAgree /\ HandledIsSent /\ RepliesAnswer /\ ShownIsReplied
    BY <1>1 DEF Init, CountersAgree, HandledIsSent, RepliesAnswer, ShownIsReplied
  <1>8. FilterInStep
    BY <1>1 DEF Init, FilterInStep
  <1>. QED
    BY <1>3, <1>4, <1>5, <1>6, <1>7, <1>8 DEF IInv

-----------------------------------------------------------------------------
(* Steps that change neither the ciphers nor what the two programs have done *)

ClientMoves ==
  \/ cpc' = cpc
  \/ cpc' \in {"err", "timeout"}
  \/ cpc = "start" /\ cpc' = "connected"
  \/ cpc \notin Handshaking \cup {"err", "timeout"} /\ cpc' \in {"ok", "idle"}

ServerMoves ==
  \/ spc' = spc
  \/ spc' = "err"
  \/ spc = "none" /\ spc' \in {"refused", "await_init"}
  \/ spc = "transport" /\ spc' = "ok"

OtherMoves ==
  /\ UNCHANGED <<config, ctx, crx, sent, shown, stx, srx, handled, replies, sealed>>
  /\ ClientMoves /\ ServerMoves
  /\ link' \in {"none", "up", "reset", "down"}
  /\ \/ filter' = filter
     \/ filter' \in ReplayFilters /\ spc' = "err"
  /\ cmetrics' \in Traffic /\ smetrics' \in Traffic
  /\ c2s' \in Seq(FromClient) /\ s2c' \in Seq(FromServer)

\* A step that leaves the ciphers and the histories alone and keeps the link genuine
\* preserves the invariant.
LEMMA OtherStep ==
  ASSUME IInv, OtherMoves
  PROVE  IInv'
  <1>. USE DEF OtherMoves
  <1>1. /\ ClientSealed' = ClientSealed /\ ServerSealed' = ServerSealed
        /\ FromClient' = FromClient /\ FromServer' = FromServer
    BY SealedFixed
  <1>2. cpc' \in {"start", "connected", "await_resp", "send", "idle", "await_reply", "await_pong",
                  "ok", "err", "timeout"}
    BY DEF ClientMoves, IInv, Types, TypeOK
  <1>3. spc' \in {"none", "await_init", "transport", "ok", "err", "refused"}
    BY DEF ServerMoves, IInv, Types, TypeOK
  <1>4. filter' \in ReplayFilters
    BY DEF IInv, Types, TypeOK
  <1>5. TypeOK'
    BY <1>2, <1>3, <1>4, TrafficIsNat DEF IInv, Types, TypeOK
  <1>6. Types'
    BY <1>5, FixedTerms DEF IInv, Types
  <1>7. QueuesGenuine' /\ SealedKnown'
    BY <1>1 DEF IInv, QueuesGenuine, SealedKnown
  <1>8. ServerKeys'
    BY FixedTerms DEF IInv, ServerKeys, ServerMoves, NoCipher
  <1>9. ClientKeys'
    BY FixedTerms DEF IInv, ClientKeys, ClientMoves, Handshaking, NoCipher
  <1>10. CountersAgree' /\ HandledIsSent' /\ ShownIsReplied'
    BY DEF IInv, CountersAgree, HandledIsSent, ShownIsReplied
  <1>11. RepliesAnswer'
    BY DEF IInv, RepliesAnswer, ServerMoves
  <1>12. FilterInStep'
    BY DEF IInv, FilterInStep, ServerMoves
  <1>. QED
    BY <1>6, <1>7, <1>8, <1>9, <1>10, <1>11, <1>12 DEF IInv

-----------------------------------------------------------------------------
(* What a tag that verifies says *)

\* A HandshakeInit that authenticates comes from a client that was built with the
\* server's key and prologue, and carries that client's ephemeral key.
LEMMA InitAuthentic ==
  ASSUME Types, NEW f, f.ciphertext \in ClientSealed, ServerAuthenticates(f)
  PROVE  f.ephemeral = ClientEphemeral /\ Matching
  <1>. DEFINE dh == diffie_hellman(config.server.static, f.ephemeral)
  <1>1. f.ciphertext.key = <<<<dh>>, ServerH1(f.ephemeral), "client">>
    BY DEF ServerAuthenticates, decrypts, Opens, InitCipher, derive_session_keys, new, with_nonce
  <1>. HIDE DEF dh
  <1>2. CASE f.ciphertext = InitMessage
    BY <1>1, <1>2 DEF InitMessage, Ciphertext, InitKey, InitCipher, derive_session_keys, new,
       with_nonce, ServerH1, ClientH1, hash_handshake_state, Matching
  <1>3. CASE \E i \in DOMAIN sent : f.ciphertext = Request(i)
    <2>1. f.ciphertext.key = ctx.key /\ ctx.key \in {<<>>} \cup TransportKeySet
      BY <1>3 DEF Request, Ciphertext, Types, CipherStates
    <2>. QED
      BY <1>1, <2>1 DEF TransportKeySet, ClientWriteKey, ServerWriteKey, OtherClientKey,
         OtherServerKey, TransportKeys, derive_session_keys
  <1>. QED
    BY <1>2, <1>3 DEF ClientSealed

\* A HandshakeResp that the client accepts carries the ephemeral key of whoever sealed
\* it: the server or somebody else.
LEMMA RespAuthentic ==
  ASSUME NEW f \in FromServer, ClientAccepts(f)
  PROVE  \/ f.ephemeral = ServerEphemeral /\ srx.key # <<>>
         \/ f.ephemeral = OtherEphemeral
  <1>. DEFINE dh == diffie_hellman(ClientEphemeral, f.ephemeral)
  <1>1. f.ciphertext.key = <<<<dh>>, ClientH2(f.ephemeral), "server">> /\ f.ciphertext.intact
    BY DEF ClientAccepts, decrypts, Opens, RespCipher, derive_session_keys, new, with_nonce
  <1>. HIDE DEF dh
  <1>2. CASE srx.key # <<>> /\ f.ciphertext = AckMessage
    BY <1>1, <1>2 DEF AckMessage, Ciphertext, AckKey, RespCipher, derive_session_keys, new,
       with_nonce, H2, ClientH2, hash_handshake_state
  <1>3. CASE \E i \in DOMAIN replies : f.ciphertext = Reply(i)
    BY <1>1, <1>3 DEF Reply, Ciphertext, ServerWriteKey, TransportKeys, derive_session_keys
  <1>4. CASE f.ciphertext = OtherAck
    BY <1>1, <1>4 DEF OtherAck, Ciphertext, OtherAckKey, RespCipher, derive_session_keys, new,
       with_nonce, OtherH2, ClientH2, hash_handshake_state
  <1>. QED
    BY <1>1, <1>2, <1>3, <1>4 DEF FromServer, ServerSealed

\* The server and a client that matches it compute the same terms.
LEMMA TermsAgree ==
  ASSUME Matching
  PROVE  /\ ServerH2(ClientEphemeral) = H2
         /\ diffie_hellman(config.server.static, ClientEphemeral) = ClientDhStatic
         /\ diffie_hellman(ServerEphemeral, ClientEphemeral) = DhEphemeral
  BY DEF Matching, ServerH2, H2, ClientH2, hash_handshake_state, diffie_hellman, ClientDhStatic,
     DhEphemeral

\* A request that decrypts is the next one, and is what its frame says it is.
LEMMA RequestAuthentic ==
  ASSUME Types, NEW c \in ClientSealed, NEW aad, NEW n,
         srx.key = ClientWriteKey, decrypts(srx, c, aad, n)
  PROVE  /\ ctx.key = ClientWriteKey
         /\ n = srx.nonce /\ srx.nonce + 1 \in DOMAIN sent
         /\ c = Request(srx.nonce + 1) /\ aad = AADOf(sent[srx.nonce + 1][1])
  <1>1. c # InitMessage
    BY KeysDiffer DEF InitMessage, Ciphertext, decrypts, Opens, TransportKeySet
  <1>2. PICK i \in DOMAIN sent : c = Request(i)
    BY <1>1 DEF ClientSealed
  <1>3. n = srx.nonce /\ i - 1 = n /\ aad = AADOf(sent[i][1]) /\ ctx.key = ClientWriteKey
    BY <1>2 DEF Request, Ciphertext, decrypts, Opens
  <1>4. i = srx.nonce + 1
    BY <1>3 DEF Types
  <1>. QED
    BY <1>2, <1>3, <1>4

\* An answer that decrypts is the next one.
LEMMA ReplyAuthentic ==
  ASSUME Types, NEW c \in ServerSealed, NEW aad, NEW n,
         crx.key \in {ServerWriteKey, OtherServerKey}, decrypts(crx, c, aad, n)
  PROVE  crx.key = ServerWriteKey /\ n = crx.nonce /\ crx.nonce + 1 \in DOMAIN replies /\ c = Reply(crx.nonce + 1)
  <1>1. c # AckMessage
    BY KeysDiffer DEF AckMessage, Ciphertext, decrypts, Opens, TransportKeySet
  <1>2. PICK i \in DOMAIN replies : c = Reply(i)
    BY <1>1 DEF ServerSealed
  <1>3. n = crx.nonce /\ i - 1 = n /\ crx.key = ServerWriteKey
    BY <1>2 DEF Reply, Ciphertext, decrypts, Opens
  <1>4. i = crx.nonce + 1
    BY <1>3 DEF Types
  <1>. QED
    BY <1>2, <1>3, <1>4

\* decrypt counts on by one: a sender never seals with the last nonce.
LEMMA DecryptCounts ==
  ASSUME NEW c \in CipherStates, c.nonce < MaxNonce
  PROVE  decrypt(c) = [key |-> c.key, nonce |-> c.nonce + 1] /\ decrypt(c) \in CipherStates
  <1>1. (c.nonce + 1) % (MaxNonce + 1) = c.nonce + 1
    BY DEF CipherStates, Nonces
  <1>. QED
    BY <1>1 DEF decrypt, CipherStates, Nonces

\* encrypt counts on by one, and stops before the last nonce.
LEMMA EncryptCounts ==
  ASSUME NEW c \in CipherStates, encrypts(c)
  PROVE  encrypt(c) = [key |-> c.key, nonce |-> c.nonce + 1] /\ encrypt(c) \in CipherStates
  BY DEF encrypts, is_exhausted, encrypt, CipherStates, Nonces

-----------------------------------------------------------------------------
(* The steps of the client *)

\* The client connects.
LEMMA ConnectStep ==
  ASSUME IInv, ClientConnect
  PROVE  IInv'
  <1>1. OtherMoves
    BY DEF ClientConnect, OtherMoves, ClientMoves, ServerMoves, IInv, Types, TypeOK,
       QueuesGenuine, serverVars
  <1>. QED
    BY <1>1, OtherStep

\* The handshake of the client begins: its first frame is written or not.
LEMMA SendsInitStep ==
  ASSUME IInv, ClientSendsInit
  PROVE  IInv'
  <1>. DEFINE frame == HandshakeFrame("HandshakeInit", ClientEphemeral, InitMessage)
  <1>1. /\ UNCHANGED <<config, ctx, crx, cmetrics, sent, shown, serverVars, link, s2c>>
        /\ cpc = "connected" /\ sealed' = sealed \cup {InitMessage}
    BY DEF ClientSendsInit, InitMessage, seal, InitKey, InitCipher, new, with_nonce
  <1>2. PICK ok \in BOOLEAN : /\ c2s' = Written(c2s, frame, ok)
                              /\ cpc' = IF ok THEN "await_resp" ELSE "err"
    BY DEF ClientSendsInit, WriteResults, InitMessage, seal, InitKey, InitCipher, new, with_nonce
  <1>3. /\ ClientSealed' = ClientSealed /\ ServerSealed' = ServerSealed
        /\ FromClient' = FromClient /\ FromServer' = FromServer
    BY <1>1, SealedFixed DEF serverVars
  <1>4. frame \in FromClient
    BY SealedTypes, FramesBuilt DEF IInv, FromClient, ClientSealed, MessageTypes, Ephemerals
  <1>. HIDE DEF frame
  <1>5. QueuesGenuine' /\ SealedKnown'
    BY <1>1, <1>2, <1>3, <1>4, AppendProperties DEF IInv, QueuesGenuine, SealedKnown,
       ClientSealed, Written, serverVars
  <1>6. cpc' \in {"await_resp", "err"}
    BY <1>2
  <1>7. Types'
    BY <1>1, <1>6, FixedTerms DEF IInv, Types, TypeOK, serverVars
  <1>8. ServerKeys' /\ ClientKeys'
    BY <1>1, <1>6, FixedTerms DEF IInv, ServerKeys, ClientKeys, Handshaking, NoCipher, serverVars
  <1>9. CountersAgree' /\ HandledIsSent' /\ RepliesAnswer' /\ ShownIsReplied' /\ FilterInStep'
    BY <1>1 DEF IInv, CountersAgree, HandledIsSent, RepliesAnswer, ShownIsReplied,
       FilterInStep, serverVars
  <1>. QED
    BY <1>5, <1>7, <1>8, <1>9 DEF IInv

\* It ends: either the server has authenticated the client and the keys are the same,
\* or somebody else answered and nothing has been sent yet.
LEMMA ReadsRespStep ==
  ASSUME IInv, ClientReadsResp
  PROVE  IInv'
  <1>. DEFINE f == Head(s2c)
  <1>1. /\ UNCHANGED <<config, cmetrics, sent, shown, serverVars, link, c2s, sealed>>
        /\ cpc = "await_resp" /\ s2c # <<>> /\ s2c' = Tail(s2c)
    BY DEF ClientReadsResp, Readable
  <1>2. f \in FromServer /\ Tail(s2c) \in Seq(FromServer)
    BY <1>1 DEF IInv, QueuesGenuine
  <1>3. ctx = NoCipher /\ crx = NoCipher /\ sent = <<>> /\ shown = <<>>
    BY <1>1 DEF IInv, ClientKeys, Handshaking, CountersAgree, Types, NoCipher, new, with_nonce
  <1>4. CASE ~ClientAccepts(f)
    <2>1. UNCHANGED <<ctx, crx>> /\ cpc' = "err"
      BY <1>4 DEF ClientReadsResp
    <2>2. OtherMoves
      BY <1>1, <1>2, <2>1 DEF OtherMoves, ClientMoves, ServerMoves, IInv, Types, TypeOK,
         QueuesGenuine, serverVars
    <2>. QED
      BY <2>2, OtherStep
  <1>5. CASE ClientAccepts(f)
    <2>1. \/ f.ephemeral = ServerEphemeral /\ srx.key # <<>>
          \/ f.ephemeral = OtherEphemeral
      BY <1>2, <1>5, RespAuthentic
    <2>2. /\ ctx'.nonce = 0 /\ crx'.nonce = 0 /\ cpc' \in {"idle", "send"}
          /\ \/ /\ ctx' = [key |-> ClientWriteKey, nonce |-> 0]
                /\ crx' = [key |-> ServerWriteKey, nonce |-> 0]
                /\ srx.key # <<>>
             \/ /\ ctx' = [key |-> OtherClientKey, nonce |-> 0]
                /\ crx' = [key |-> OtherServerKey, nonce |-> 0]
      BY <1>5, <2>1 DEF ClientReadsResp, new, with_nonce, ClientWriteKey, ServerWriteKey,
         DhEphemeral, H2, OtherClientKey, OtherServerKey, DhOther, OtherH2
    <2>3. ctx' \in CipherStates /\ crx' \in CipherStates
      BY <2>2 DEF CipherStates, TransportKeySet, Nonces
    <2>4. Types'
      <3>1. TypeOK'
        BY <1>1, <2>2, <2>3 DEF IInv, Types, TypeOK, serverVars, CipherStates
      <3>. QED
        BY <1>1, <2>3, <3>1, FixedTerms DEF IInv, Types, serverVars
    <2>5. /\ ClientSealed' = ClientSealed /\ ServerSealed' = ServerSealed
          /\ FromClient' = FromClient /\ FromServer' = FromServer
      BY <1>1, <1>3, SealedFixed DEF serverVars
    <2>6. QueuesGenuine' /\ SealedKnown'
      BY <1>1, <1>2, <2>5 DEF IInv, QueuesGenuine, SealedKnown, serverVars
    <2>7. ServerKeys'
      BY <1>1, FixedTerms DEF IInv, ServerKeys, NoCipher, serverVars
    <2>8. handled = <<>>
      BY <1>3 DEF IInv, Types, HandledIsSent
    <2>9. ClientKeys'
      BY <1>1, <1>3, <2>2, <2>8, FixedTerms DEF ClientKeys, Handshaking, serverVars
    <2>10. CountersAgree'
      BY <1>1, <1>3, <2>2 DEF IInv, CountersAgree, serverVars
    <2>11. HandledIsSent' /\ RepliesAnswer' /\ ShownIsReplied' /\ FilterInStep'
      BY <1>1 DEF IInv, HandledIsSent, RepliesAnswer, ShownIsReplied, FilterInStep, serverVars
    <2>. QED
      BY <2>4, <2>6, <2>7, <2>9, <2>10, <2>11 DEF IInv
  <1>. QED
    BY <1>4, <1>5

\* A request: sealed with the next nonce, counted, and written or not.
LEMMA SendsStep ==
  ASSUME IInv, NEW msg_type \in {"DataPayload", "Heartbeat"}, NEW plaintext \in Plaintexts,
         NEW next \in {"await_reply", "await_pong"}, cpc \in {"send", "idle"},
         ClientSends(msg_type, AADOf(msg_type), plaintext, next),
         UNCHANGED <<config, crx, shown, serverVars, link, s2c, faults>>
  PROVE  IInv'
  <1>. DEFINE c == seal(ctx, AADOf(msg_type), plaintext)
              frame == SealedFrame(msg_type, c)
  <1>0. /\ UNCHANGED <<config, crx, shown, stx, srx, filter, smetrics, handled, replies, link, s2c>>
        /\ spc' = spc
    BY DEF serverVars
  <1>1. ctx.key \in TransportKeySet
    BY DEF IInv, ClientKeys, Handshaking, TransportKeySet
  <1>2. CASE ~encrypts(ctx)
    <2>1. UNCHANGED <<ctx, cmetrics, c2s, sent, sealed>> /\ cpc' = "err"
      BY <1>2 DEF ClientSends
    <2>2. OtherMoves
      BY <1>0, <2>1 DEF OtherMoves, ClientMoves, ServerMoves, IInv, Types, TypeOK, QueuesGenuine
    <2>. QED
      BY <2>2, OtherStep
  <1>3. CASE encrypts(ctx)
    <2>1. PICK ok \in BOOLEAN : c2s' = Written(c2s, frame, ok) /\ cpc' = IF ok THEN next ELSE "err"
      BY <1>3 DEF ClientSends, WriteResults
    <2>2. /\ ctx' = encrypt(ctx)
          /\ cmetrics' = Counted(record_tx(cmetrics, WireBytes(frame)))
          /\ sent' = Append(sent, <<msg_type, plaintext>>)
          /\ sealed' = sealed \cup {c}
      BY <1>3 DEF ClientSends
    <2>3. ctx' = [key |-> ctx.key, nonce |-> ctx.nonce + 1] /\ ctx' \in CipherStates
      BY <1>3, <2>2, EncryptCounts DEF IInv, Types
    <2>4. /\ sent' \in Seq(Requests) /\ Extends(sent, sent') /\ Len(sent') = Len(sent) + 1
          /\ sent'[Len(sent) + 1] = <<msg_type, plaintext>>
          /\ DOMAIN sent' = DOMAIN sent \cup {Len(sent) + 1}
      <3>1. <<msg_type, plaintext>> \in Requests
        BY DEF Requests
      <3>. QED
        BY <2>2, <3>1, AppendExtends DEF IInv, Types
    <2>5. \E i \in DOMAIN sent' : c = Request(i)'
      <3>1. PICK i \in DOMAIN sent' : i = Len(sent) + 1
        BY <2>4
      <3>2. i - 1 = ctx.nonce /\ sent'[i] = <<msg_type, plaintext>>
        BY <2>4, <3>1 DEF IInv, Types, CountersAgree
      <3>3. Request(i)' = Ciphertext(ctx.key, i - 1, AADOf(msg_type), plaintext)
        BY <1>0, <2>3, <3>2 DEF Request
      <3>. QED
        BY <3>2, <3>3 DEF seal
    <2>6. /\ ClientSealed \subseteq ClientSealed' /\ FromClient \subseteq FromClient'
          /\ ServerSealed \subseteq ServerSealed' /\ FromServer \subseteq FromServer'
      BY <1>0, <2>3, <2>4, ClientSealedGrows, ServerSealedGrows, Unextended DEF IInv
    <2>7. c \in ClientSealed'
      BY <2>4, <2>5 DEF ClientSealed
    <2>8. CountersAgree'
      BY <1>0, <2>3, <2>4 DEF IInv, CountersAgree
    <2>9. c \in Ciphertexts
      <3>1. AADOf(msg_type) \in {DataAAD, HeartbeatAAD} /\ ctx.nonce \in Nonces
        BY DEF AADOf, IInv, Types, CipherStates
      <3>. QED
        BY <1>1, <3>1 DEF seal, Ciphertext, Ciphertexts, TransportKeySet, Keys
    <2>. HIDE DEF c
    <2>10. frame \in Frames /\ frame.ciphertext = c
      BY <2>9, FramesBuilt DEF MessageTypes, Ephemerals
    <2>11. frame \in FromClient'
      BY <1>0, <2>7, <2>10, FixedTerms DEF FromClient
    <2>12. QueuesGenuine'
      <3>1. c2s \in Seq(FromClient') /\ s2c \in Seq(FromServer')
        BY <2>6, SeqMonotonic DEF IInv, QueuesGenuine
      <3>. QED
        BY <1>0, <2>1, <2>11, <3>1, AppendProperties DEF QueuesGenuine, Written
    <2>13. SealedKnown'
      BY <1>0, <2>2, <2>6, <2>7 DEF IInv, SealedKnown
    <2>14. cmetrics' \in Traffic
      BY <2>2, <2>10, WireBytesIsNat, TrafficCounts DEF IInv, Types, Counted
    <2>15. cpc' \in {"await_reply", "await_pong", "err"}
      BY <2>1
    <2>16. Types'
      <3>1. TypeOK'
        BY <1>0, <2>3, <2>14, <2>15, TrafficIsNat, FixedTerms DEF IInv, Types, TypeOK, CipherStates
      <3>. QED
        BY <1>0, <2>3, <2>4, <2>14, <3>1, FixedTerms DEF IInv, Types
    <2>17. ServerKeys' /\ ClientKeys'
      BY <1>0, <2>3, <2>15, FixedTerms DEF IInv, ServerKeys, ClientKeys, Handshaking, NoCipher
    <2>18. HandledIsSent'
      BY <1>0, <2>4 DEF IInv, Types, HandledIsSent, Extends
    <2>19. RepliesAnswer' /\ ShownIsReplied' /\ FilterInStep'
      BY <1>0 DEF IInv, RepliesAnswer, ShownIsReplied, FilterInStep
    <2>. QED
      BY <2>8, <2>12, <2>13, <2>16, <2>17, <2>18, <2>19 DEF IInv
  <1>. QED
    BY <1>2, <1>3

\* The client leaves a request to its user, who is done, or finds out that it cannot be
\* answered.
LEMMA ClientEndsStep ==
  ASSUME IInv, ClientNotConnected \/ UserQuits \/ UserEndsInput \/ ClientBreaks \/ ClientTimesOut
  PROVE  IInv'
  <1>1. ASSUME ClientNotConnected \/ ClientBreaks \/ ClientTimesOut PROVE OtherMoves
    BY <1>1 DEF ClientNotConnected, ClientBreaks, ClientTimesOut, OtherMoves, ClientMoves,
       Handshaking, ServerMoves, IInv, Types, TypeOK, QueuesGenuine, serverVars, linkVars
  <1>2. ASSUME UserEndsInput PROVE OtherMoves
    BY <1>2 DEF UserEndsInput, OtherMoves, ClientMoves, Handshaking, ServerMoves, IInv, Types, TypeOK,
       QueuesGenuine, serverVars, linkVars
  <1>3. ASSUME UserQuits PROVE OtherMoves
    <2>1. CloseFrame(ctx.nonce) \in FromClient
      BY FramesBuilt DEF IInv, Types, CipherStates, FromClient
    <2>2. c2s' \in Seq(FromClient)
      BY <1>3, <2>1, AppendProperties DEF UserQuits, Written, IInv, QueuesGenuine
    <2>3. cmetrics' \in Traffic
      BY <1>3, <2>1, WireBytesIsNat, TrafficCounts DEF UserQuits, FromClient, IInv, Types
    <2>. QED
      BY <1>3, <2>2, <2>3 DEF UserQuits, OtherMoves, ClientMoves, Handshaking, ServerMoves, IInv, Types,
         TypeOK, QueuesGenuine, serverVars, linkVars
  <1>. QED
    BY <1>1, <1>2, <1>3, OtherStep

\* The three requests.
LEMMA RequestStep ==
  ASSUME IInv, ClientSendsMessage \/ UserSendsText \/ UserPings
  PROVE  IInv'
  <1>1. ASSUME NEW pc \in {"send", "idle"}, NEW size \in MessageSizes, ClientSendsData(pc, size)
        PROVE  IInv'
    <2>1. Plaintext("message", Len(sent) + 1, size) \in Plaintexts
      BY DEF IInv, Types, Plaintext, Plaintexts, Texts
    <2>2. AADOf("DataPayload") = DataAAD
      BY DEF AADOf
    <2>. QED
      BY <1>1, <2>1, <2>2, SendsStep DEF ClientSendsData
  <1>2. ASSUME UserPings PROVE IInv'
    <2>1. Plaintext("PING", Len(sent) + 1, 4) \in Plaintexts
      BY DEF IInv, Types, Plaintext, Plaintexts, Texts
    <2>2. AADOf("Heartbeat") = HeartbeatAAD
      BY DEF AADOf
    <2>. QED
      BY <1>2, <2>1, <2>2, SendsStep DEF UserPings
  <1>. QED
    BY <1>1, <1>2 DEF ClientSendsMessage, UserSendsText

\* An answer is shown.
LEMMA ShowsStep ==
  ASSUME IInv, NEW f \in FromServer, NEW aad, ClientShows(f, aad),
         cpc \in {"await_reply", "await_pong"}, cpc' \in {"ok", "idle"},
         UNCHANGED <<config, ctx, sent, serverVars, link, sealed>>,
         cmetrics' \in Traffic, c2s' \in Seq(FromClient), s2c' \in Seq(FromServer)
  PROVE  IInv'
  <1>1. UNCHANGED <<config, ctx, sent, spc, stx, srx, filter, smetrics, handled, replies, link, sealed>>
    BY DEF serverVars
  <1>2. crx.key \in {ServerWriteKey, OtherServerKey}
    BY DEF IInv, ClientKeys, Handshaking
  <1>3. decrypts(crx, f.ciphertext, aad, f.nonce) /\ f.ciphertext \in ServerSealed
    BY <1>2, KeysDiffer DEF ClientShows, decrypts, Opens, FromServer, OtherAck, Ciphertext,
       TransportKeySet
  <1>4. /\ crx.key = ServerWriteKey /\ crx.nonce + 1 \in DOMAIN replies
        /\ f.ciphertext = Reply(crx.nonce + 1)
    BY <1>2, <1>3, ReplyAuthentic DEF IInv
  <1>5. crx.nonce < MaxNonce
    BY <1>4 DEF IInv, Types, CountersAgree, CipherStates, Nonces
  <1>6. crx' = [key |-> crx.key, nonce |-> crx.nonce + 1] /\ crx' \in CipherStates
    BY <1>5, DecryptCounts DEF ClientShows, IInv, Types
  <1>. DEFINE a == [asked |-> Len(sent), plaintext |-> f.ciphertext.plaintext]
  <1>7. a \in Answers /\ a.plaintext = replies[crx.nonce + 1]
    BY <1>4 DEF Answers, Reply, Ciphertext, IInv, Types
  <1>8. shown' = Append(shown, a)
    BY DEF ClientShows
  <1>. HIDE DEF a
  <1>9. /\ shown' \in Seq(Answers) /\ Len(shown') = Len(shown) + 1
        /\ shown'[Len(shown) + 1] = a /\ DOMAIN shown' = DOMAIN shown \cup {Len(shown) + 1}
        /\ \A i \in DOMAIN shown : shown'[i] = shown[i]
    BY <1>7, <1>8, AppendExtends DEF IInv, Types, Extends
  <1>10. Types'
    <2>1. TypeOK'
      BY <1>1, <1>6, TrafficIsNat DEF IInv, Types, TypeOK, CipherStates
    <2>. QED
      BY <1>1, <1>6, <1>9, <2>1, FixedTerms DEF IInv, Types
  <1>11. QueuesGenuine' /\ SealedKnown'
    BY <1>1, SealedFixed DEF IInv, QueuesGenuine, SealedKnown
  <1>12. ServerKeys' /\ ClientKeys'
    BY <1>1, <1>4, <1>6, FixedTerms, KeysDiffer DEF IInv, ServerKeys, ClientKeys, Handshaking,
       NoCipher, new, with_nonce, TransportKeySet
  <1>13. CountersAgree'
    BY <1>1, <1>6, <1>9 DEF IInv, CountersAgree
  <1>14. ShownIsReplied'
    <2>1. Len(shown) = crx.nonce /\ Len(shown) \in Nat
      BY DEF IInv, Types, CountersAgree
    <2>2. Len(shown') <= Len(replies)
      BY <1>4, <1>9, <2>1 DEF IInv, Types
    <2>3. \A i \in DOMAIN shown' : shown'[i].plaintext = replies[i]
      BY <1>7, <1>9, <2>1 DEF IInv, ShownIsReplied
    <2>. QED
      BY <1>1, <2>2, <2>3 DEF ShownIsReplied
  <1>15. HandledIsSent' /\ RepliesAnswer' /\ FilterInStep'
    BY <1>1 DEF IInv, HandledIsSent, RepliesAnswer, FilterInStep
  <1>. QED
    BY <1>10, <1>11, <1>12, <1>13, <1>14, <1>15 DEF IInv

\* The answer of send_secure_message.
LEMMA ReadsOnlyReplyStep ==
  ASSUME IInv, ClientReadsOnlyReply
  PROVE  IInv'
  <1>. DEFINE f == Head(s2c)
  <1>1. /\ UNCHANGED <<config, ctx, cmetrics, sent, serverVars, link, faults, sealed>>
        /\ cpc = "await_reply" /\ s2c # <<>> /\ s2c' = Tail(s2c)
    BY DEF ClientReadsOnlyReply, Readable
  <1>2. f \in FromServer /\ s2c' \in Seq(FromServer)
    BY <1>1 DEF IInv, QueuesGenuine
  <1>3. cmetrics' \in Traffic
    BY <1>1 DEF IInv, Types
  <1>4. CASE /\ ClientShows(f, DataAAD) /\ cpc' = "ok"
             /\ \E ok \in BOOLEAN : c2s' = Written(c2s, CloseFrame(ctx.nonce), ok)
    <2>1. CloseFrame(ctx.nonce) \in FromClient
      BY FramesBuilt DEF IInv, Types, CipherStates, FromClient
    <2>2. c2s' \in Seq(FromClient)
      BY <1>4, <2>1, AppendProperties DEF Written, IInv, QueuesGenuine
    <2>. QED
      BY <1>1, <1>2, <1>3, <1>4, <2>2, ShowsStep
  <1>5. CASE cpc' = "err" /\ UNCHANGED <<crx, shown, c2s>>
    <2>1. OtherMoves
      BY <1>1, <1>2, <1>5 DEF OtherMoves, ClientMoves, Handshaking, ServerMoves, IInv, Types, TypeOK,
         QueuesGenuine, serverVars
    <2>. QED
      BY <2>1, OtherStep
  <1>. QED
    BY <1>4, <1>5 DEF ClientReadsOnlyReply, WriteResults

\* An answer in the interactive session.
LEMMA ReadsReplyStep ==
  ASSUME IInv, ClientReadsReply
  PROVE  IInv'
  <1>. DEFINE f == Head(s2c)
              aad == IF cpc = "await_reply" THEN DataAAD ELSE HeartbeatAAD
  <1>1. /\ UNCHANGED <<config, ctx, sent, serverVars, link, c2s, faults, sealed>>
        /\ cpc \in {"await_reply", "await_pong"} /\ s2c # <<>> /\ s2c' = Tail(s2c)
    BY DEF ClientReadsReply, Readable
  <1>2. f \in FromServer /\ s2c' \in Seq(FromServer) /\ c2s' \in Seq(FromClient)
    BY <1>1 DEF IInv, QueuesGenuine
  <1>3. cmetrics' \in Traffic
    <2>1. cmetrics' = cmetrics \/ cmetrics' = record_rx(cmetrics, WireBytes(f))
      BY DEF ClientReadsReply
    <2>. QED
      BY <1>2, <2>1, WireBytesIsNat, TrafficCounts DEF IInv, Types, FromServer
  <1>4. CASE ClientShows(f, aad) /\ cpc' = "idle"
    BY <1>1, <1>2, <1>3, <1>4, ShowsStep
  <1>5. CASE cpc' \in {"err", "ok", "idle"} /\ UNCHANGED <<crx, shown>>
    <2>1. OtherMoves
      BY <1>1, <1>2, <1>3, <1>5 DEF OtherMoves, ClientMoves, Handshaking, ServerMoves, IInv, Types, TypeOK,
         QueuesGenuine, serverVars
    <2>. QED
      BY <2>1, OtherStep
  <1>. QED
    BY <1>4, <1>5 DEF ClientReadsReply

-----------------------------------------------------------------------------
(* The steps of the server *)

\* A connection is taken, or a read of it fails.
LEMMA ServerWaitsStep ==
  ASSUME IInv, ServerAccepts \/ ServerBreaks
  PROVE  IInv'
  <1>1. OtherMoves
    BY DEF ServerAccepts, ServerBreaks, OtherMoves, ClientMoves, ServerMoves, IInv, Types,
       TypeOK, QueuesGenuine, clientVars, linkVars
  <1>. QED
    BY <1>1, OtherStep

\* The handshake of the server: the keys come with the acknowledgement, and only
\* for a client that knew whom it is talking to.
LEMMA ReadsInitStep ==
  ASSUME IInv, ServerReadsInit
  PROVE  IInv'
  <1>. DEFINE f == Head(c2s)
  <1>1. /\ UNCHANGED <<config, cpc, ctx, crx, cmetrics, sent, shown>>
        /\ UNCHANGED <<filter, smetrics, handled, replies, link>>
        /\ spc = "await_init" /\ c2s # <<>> /\ c2s' = Tail(c2s)
    BY DEF ServerReadsInit, Readable, clientVars
  <1>2. f \in FromClient /\ c2s' \in Seq(FromClient)
    BY <1>1 DEF IInv, QueuesGenuine
  <1>3. CASE ~ServerAuthenticates(f)
    <2>1. spc' = "err" /\ UNCHANGED <<stx, srx, s2c, sealed>>
      BY <1>3 DEF ServerReadsInit
    <2>2. OtherMoves
      BY <1>1, <1>2, <2>1 DEF OtherMoves, ClientMoves, ServerMoves, IInv, Types, TypeOK,
         QueuesGenuine
    <2>. QED
      BY <2>2, OtherStep
  <1>4. CASE ServerAuthenticates(f)
    <2>1. f.ephemeral = ClientEphemeral /\ Matching
      BY <1>2, <1>4, InitAuthentic DEF IInv, FromClient, ServerAuthenticates, decrypts, Opens
    <2>2. /\ ServerH2(f.ephemeral) = H2
          /\ diffie_hellman(config.server.static, f.ephemeral) = ClientDhStatic
          /\ diffie_hellman(ServerEphemeral, f.ephemeral) = DhEphemeral
      BY <2>1, TermsAgree
    <2>3. AckMessage = seal(RespCipher(DhEphemeral, H2), H2, Plaintext("HANDSHAKE_COMPLETE_ACK", 0, 22))
      BY DEF AckMessage, seal, AckKey, RespCipher, new, with_nonce
    <2>. DEFINE resp == HandshakeFrame("HandshakeResp", ServerEphemeral, AckMessage)
    <2>4. PICK ok \in BOOLEAN : /\ s2c' = Written(s2c, resp, ok)
                                /\ spc' = IF ok THEN "transport" ELSE "err"
      BY <1>4, <2>2, <2>3 DEF ServerReadsInit, WriteResults
    <2>5. /\ srx' = [key |-> ClientWriteKey, nonce |-> 0]
          /\ stx' = [key |-> ServerWriteKey, nonce |-> 0]
          /\ sealed' = sealed \cup {AckMessage}
      BY <1>4, <2>2, <2>3 DEF ServerReadsInit, new, with_nonce, ClientWriteKey, ServerWriteKey
    <2>6. spc' \in {"transport", "err"}
      BY <2>4
    <2>7. srx' \in CipherStates /\ stx' \in CipherStates /\ srx'.key # <<>>
      BY <2>5, KeysDiffer DEF CipherStates, TransportKeySet, Nonces
    <2>8. srx = NoCipher /\ stx = NoCipher /\ srx.nonce = 0
      BY <1>1 DEF IInv, ServerKeys, NoCipher, new, with_nonce
    <2>9. Types'
      <3>1. TypeOK'
        BY <1>1, <2>6, <2>7 DEF IInv, Types, TypeOK, CipherStates
      <3>. QED
        BY <1>1, <2>7, <3>1, FixedTerms DEF IInv, Types
    <2>10. /\ ClientSealed \subseteq ClientSealed' /\ FromClient \subseteq FromClient'
           /\ ServerSealed \subseteq ServerSealed' /\ FromServer \subseteq FromServer'
      BY <1>1, <2>7, ClientSealedGrows, ServerSealedGrows, Unextended DEF IInv
    <2>11. AckMessage \in ServerSealed'
      BY <1>1, FixedTerms DEF ServerSealed
    <2>12. resp \in FromServer'
      <3>1. resp \in Frames /\ resp.ciphertext = AckMessage
        BY SealedTypes, FramesBuilt DEF IInv, MessageTypes, Ephemerals
      <3>. QED
        BY <1>1, <2>7, <2>11, <3>1, FixedTerms DEF FromServer
    <2>. HIDE DEF resp
    <2>13. QueuesGenuine'
      <3>1. c2s' \in Seq(FromClient') /\ s2c \in Seq(FromServer')
        BY <1>2, <2>10, SeqMonotonic DEF IInv, QueuesGenuine
      <3>. QED
        BY <2>4, <2>12, <3>1, AppendProperties DEF QueuesGenuine, Written
    <2>14. SealedKnown'
      BY <2>5, <2>7, <2>10, <2>11 DEF IInv, SealedKnown
    <2>15. ServerKeys'
      BY <1>1, <2>1, <2>5, <2>6, FixedTerms DEF ServerKeys
    <2>16. ClientKeys'
      BY <1>1, <2>7, FixedTerms DEF IInv, ClientKeys, NoCipher
    <2>17. CountersAgree'
      BY <1>1, <2>5, <2>8 DEF IInv, CountersAgree, NoCipher, new, with_nonce
    <2>18. RepliesAnswer'
      BY <1>1, <2>8 DEF IInv, RepliesAnswer, CountersAgree, NoCipher, new, with_nonce
    <2>19. FilterInStep'
      BY <1>1, <2>5, <2>8 DEF IInv, FilterInStep
    <2>20. HandledIsSent' /\ ShownIsReplied'
      BY <1>1 DEF IInv, HandledIsSent, ShownIsReplied
    <2>. QED
      BY <2>9, <2>13, <2>14, <2>15, <2>16, <2>17, <2>18, <2>19, <2>20 DEF IInv
  <1>. QED
    BY <1>3, <1>4

\* What the filter counts when it takes a number.
LEMMA AcceptCounts ==
  ASSUME NEW f \in ReplayFilters, NEW seq \in Seqs, accepts(f, seq)
  PROVE  /\ validate_and_record(f, seq).total_accepted = f.total_accepted + 1
         /\ validate_and_record(f, seq).total_rejected = f.total_rejected
  <1>. DEFINE m == mark(f, seq)
  <1>1. /\ DOMAIN m = DOMAIN f /\ m.total_seen = f.total_seen
        /\ m.total_accepted = f.total_accepted /\ m.total_rejected = f.total_rejected
    BY DEF mark, ReplayFilters
  <1>2. validate_and_record(f, seq)
          = [m EXCEPT !.total_seen = m.total_seen + 1, !.total_accepted = m.total_accepted + 1]
    BY DEF validate_and_record
  <1>. HIDE DEF m
  <1>3. /\ "total_seen" \in DOMAIN m /\ "total_accepted" \in DOMAIN m
        /\ "total_rejected" \in DOMAIN m
    BY <1>1 DEF ReplayFilters
  <1>4. /\ [m EXCEPT !.total_seen = m.total_seen + 1,
                     !.total_accepted = m.total_accepted + 1].total_accepted = m.total_accepted + 1
        /\ [m EXCEPT !.total_seen = m.total_seen + 1,
                     !.total_accepted = m.total_accepted + 1].total_rejected = m.total_rejected
    BY <1>3
  <1>. QED
    BY <1>1, <1>2, <1>4

\* A request that does not verify ends the session.
LEMMA RefusesStep ==
  ASSUME IInv, spc' = "err", filter' \in ReplayFilters, smetrics' \in Traffic,
         c2s' \in Seq(FromClient),
         UNCHANGED <<config, clientVars, link, srx, stx, handled, replies, s2c, sealed>>
  PROVE  IInv'
  <1>1. OtherMoves
    BY DEF OtherMoves, ClientMoves, ServerMoves, IInv, Types, TypeOK, QueuesGenuine, clientVars
  <1>. QED
    BY <1>1, OtherStep

\* A request that verifies is the next one, and the filter takes its number.
LEMMA VerifiedRequest ==
  ASSUME IInv, spc = "transport", NEW f \in FromClient,
         NEW msg_type \in {"DataPayload", "Heartbeat"},
         decrypts(srx, f.ciphertext, AADOf(msg_type), f.nonce)
  PROVE  /\ ctx.key = ClientWriteKey
         /\ srx.nonce + 1 \in DOMAIN sent /\ srx.nonce < MaxNonce
         /\ sent[srx.nonce + 1] = <<msg_type, f.ciphertext.plaintext>>
         /\ accepts(filter, f.nonce)
         /\ validate_and_record(filter, f.nonce).total_rejected = 0
         /\ validate_and_record(filter, f.nonce).total_accepted = srx.nonce + 1
         /\ validate_and_record(filter, f.nonce).initialized
         /\ validate_and_record(filter, f.nonce).last_seq = srx.nonce
  <1>1. srx.key = ClientWriteKey
    BY DEF IInv, ServerKeys
  <1>2. f.ciphertext \in ClientSealed
    BY DEF FromClient, decrypts, Opens
  <1>. DEFINE n == srx.nonce
  <1>3. /\ ctx.key = ClientWriteKey /\ f.nonce = n /\ n + 1 \in DOMAIN sent
        /\ f.ciphertext = Request(n + 1) /\ AADOf(msg_type) = AADOf(sent[n + 1][1])
    BY <1>1, <1>2, RequestAuthentic DEF IInv
  <1>4. sent[n + 1] \in Requests
    BY <1>3 DEF IInv, Types
  <1>5. sent[n + 1][1] = msg_type
    BY <1>3, <1>4, AADsDiffer DEF AADOf, Requests
  <1>6. sent[n + 1] = <<msg_type, f.ciphertext.plaintext>>
    BY <1>3, <1>4, <1>5 DEF Requests, Request, Ciphertext
  <1>7. n < MaxNonce /\ n \in Seqs /\ filter \in ReplayFilters
    BY <1>3 DEF IInv, Types, TypeOK, CountersAgree, CipherStates, Nonces, Seqs
  <1>8. /\ filter.initialized => n > filter.last_seq
        /\ filter.total_rejected = 0 /\ filter.total_accepted = n
    BY <1>7 DEF IInv, FilterInStep, Seqs
  <1>. HIDE DEF n
  <1>9. /\ accepts(filter, n)
        /\ validate_and_record(filter, n).initialized
        /\ validate_and_record(filter, n).last_seq = n
    BY <1>7, <1>8, NewestRecorded
  <1>10. /\ validate_and_record(filter, n).total_rejected = 0
         /\ validate_and_record(filter, n).total_accepted = n + 1
    BY <1>7, <1>8, <1>9, AcceptCounts
  <1>. QED
    BY <1>3, <1>6, <1>7, <1>9, <1>10 DEF n

\* The request is handled, whether or not an answer can still be sealed.
LEMMA HandlesStep ==
  ASSUME IInv, spc = "transport", NEW f \in FromClient,
         NEW msg_type \in {"DataPayload", "Heartbeat"},
         decrypts(srx, f.ciphertext, AADOf(msg_type), f.nonce),
         filter' = validate_and_record(filter, f.nonce),
         srx' = decrypt(srx), handled' = Append(handled, <<msg_type, f.ciphertext.plaintext>>),
         UNCHANGED <<config, clientVars, link>>
  PROVE  /\ ctx.key = ClientWriteKey /\ srx'.key = srx.key /\ srx'.nonce = srx.nonce + 1
         /\ srx' \in CipherStates
         /\ handled' \in Seq(Requests) /\ Len(handled') = Len(handled) + 1
         /\ Extends(handled, handled')
         /\ handled'[Len(handled) + 1] = <<msg_type, f.ciphertext.plaintext>>
         /\ filter' \in ReplayFilters /\ FilterInStep' /\ HandledIsSent'
  <1>1. /\ ctx.key = ClientWriteKey
        /\ srx.nonce + 1 \in DOMAIN sent /\ srx.nonce < MaxNonce
        /\ sent[srx.nonce + 1] = <<msg_type, f.ciphertext.plaintext>>
        /\ filter'.total_rejected = 0 /\ filter'.total_accepted = srx.nonce + 1
        /\ filter'.initialized /\ filter'.last_seq = srx.nonce
    BY VerifiedRequest
  <1>2. srx' = [key |-> srx.key, nonce |-> srx.nonce + 1] /\ srx' \in CipherStates
    BY <1>1, DecryptCounts DEF IInv, Types
  <1>3. <<msg_type, f.ciphertext.plaintext>> \in Requests
    BY DEF Requests, FromClient, Frames, Ciphertexts
  <1>4. /\ handled' \in Seq(Requests) /\ Len(handled') = Len(handled) + 1
        /\ Extends(handled, handled')
        /\ handled'[Len(handled) + 1] = <<msg_type, f.ciphertext.plaintext>>
        /\ DOMAIN handled' = DOMAIN handled \cup {Len(handled) + 1}
    BY <1>1, <1>3, AppendExtends DEF IInv, Types
  <1>5. filter' \in ReplayFilters
    BY ValidateType DEF IInv, Types, TypeOK, FromClient, Frames, Nonces, Seqs
  <1>6. FilterInStep'
    <2>1. srx.nonce \in Nat /\ srx'.nonce = srx.nonce + 1
      BY <1>2 DEF IInv, Types, CipherStates, Nonces
    <2>. QED
      BY <1>1, <2>1 DEF FilterInStep
  <1>7. HandledIsSent'
    <2>1. Len(handled) = srx.nonce /\ sent' = sent /\ Len(handled) \in Nat
      BY DEF IInv, Types, CountersAgree, clientVars
    <2>2. Len(handled') <= Len(sent)
      BY <1>1, <1>4, <2>1 DEF IInv, Types
    <2>3. \A i \in DOMAIN handled' : handled'[i] = sent[i]
      BY <1>1, <1>4, <2>1 DEF IInv, HandledIsSent, Extends
    <2>. QED
      BY <2>1, <2>2, <2>3 DEF HandledIsSent
  <1>. QED
    BY <1>1, <1>2, <1>4, <1>5, <1>6, <1>7

\* The frame that answers it.
LEMMA AnswersStep ==
  ASSUME IInv, spc = "transport", NEW f \in FromClient,
         NEW msg_type \in {"DataPayload", "Heartbeat"}, f.msg_type = msg_type,
         NEW answer \in Plaintexts, ServerAnswers(f, AADOf(msg_type), answer),
         c2s' \in Seq(FromClient), UNCHANGED <<config, clientVars, link, faults>>
  PROVE  IInv'
  <1>. DEFINE c == seal(stx, AADOf(msg_type), answer)
              frame == SealedFrame(msg_type, c)
              received == record_rx(smetrics, WireBytes(f))
  <1>1. received \in Traffic
    BY WireBytesIsNat, TrafficCounts DEF IInv, Types, FromClient
  <1>2. filter' \in ReplayFilters
    BY ValidateType DEF ServerAnswers, IInv, Types, TypeOK, FromClient, Frames, Nonces, Seqs
  <1>3. CASE /\ spc' = "err" /\ smetrics' = received
             /\ UNCHANGED <<srx, stx, handled, replies, s2c, sealed>>
    BY <1>1, <1>2, <1>3, RefusesStep
  <1>4. CASE /\ decrypts(srx, f.ciphertext, AADOf(msg_type), f.nonce)
             /\ srx' = decrypt(srx)
             /\ handled' = Append(handled, <<msg_type, f.ciphertext.plaintext>>)
    <2>1. /\ ctx.key = ClientWriteKey /\ srx'.key = srx.key /\ srx'.nonce = srx.nonce + 1
          /\ srx' \in CipherStates
          /\ handled' \in Seq(Requests) /\ Len(handled') = Len(handled) + 1
          /\ Extends(handled, handled')
          /\ handled'[Len(handled) + 1] = <<msg_type, f.ciphertext.plaintext>>
          /\ FilterInStep' /\ HandledIsSent'
      BY <1>4, HandlesStep DEF ServerAnswers
    <2>2. UNCHANGED <<config, cpc, ctx, crx, cmetrics, sent, shown, link>>
      BY DEF clientVars
    <2>3. srx.key = ClientWriteKey /\ stx.key = ServerWriteKey /\ Matching /\ srx.key # <<>>
      BY KeysDiffer DEF IInv, ServerKeys, TransportKeySet
    <2>4. Len(replies) = Len(handled) /\ Len(replies) = stx.nonce /\ Len(replies) \in Nat
      BY DEF IInv, Types, RepliesAnswer, CountersAgree
    <2>5. CASE /\ spc' = "err" /\ smetrics' = received
               /\ UNCHANGED <<stx, replies, s2c, sealed>>
      <3>1. /\ ClientSealed \subseteq ClientSealed' /\ FromClient \subseteq FromClient'
            /\ ServerSealed \subseteq ServerSealed' /\ FromServer \subseteq FromServer'
        BY <2>1, <2>2, <2>5, ClientSealedGrows, ServerSealedGrows, Unextended DEF IInv
      <3>2. QueuesGenuine'
        BY <2>5, <3>1, SeqMonotonic DEF IInv, QueuesGenuine
      <3>3. SealedKnown'
        BY <2>1, <2>5, <3>1 DEF IInv, SealedKnown
      <3>4. Types'
        <4>1. TypeOK'
          BY <1>1, <1>2, <2>1, <2>2, <2>5, TrafficIsNat DEF IInv, Types, TypeOK, CipherStates
        <4>. QED
          BY <1>1, <2>1, <2>2, <2>5, <4>1, FixedTerms DEF IInv, Types
      <3>5. ServerKeys' /\ ClientKeys'
        BY <2>1, <2>2, <2>3, <2>5, FixedTerms, KeysDiffer DEF IInv, ServerKeys, ClientKeys,
           NoCipher, new, with_nonce, TransportKeySet
      <3>6. CountersAgree'
        BY <2>1, <2>2, <2>5 DEF IInv, CountersAgree
      <3>7. RepliesAnswer' /\ ShownIsReplied'
        BY <2>1, <2>2, <2>4, <2>5 DEF IInv, RepliesAnswer, ShownIsReplied
      <3>. QED
        BY <2>1, <3>2, <3>3, <3>4, <3>5, <3>6, <3>7 DEF IInv
    <2>6. CASE /\ encrypts(stx) /\ stx' = encrypt(stx)
               /\ smetrics' = record_tx(received, WireBytes(frame))
               /\ replies' = Append(replies, answer)
               /\ sealed' = sealed \cup {c}
               /\ \E ok \in BOOLEAN : /\ s2c' = Written(s2c, frame, ok)
                                      /\ spc' = IF ok THEN spc ELSE "err"
      <3>1. PICK ok \in BOOLEAN : s2c' = Written(s2c, frame, ok) /\ spc' \in {"transport", "err"}
        BY <2>6
      <3>2. stx' = [key |-> stx.key, nonce |-> stx.nonce + 1] /\ stx' \in CipherStates
        BY <2>6, EncryptCounts DEF IInv, Types
      <3>3. /\ replies' \in Seq(Plaintexts) /\ Extends(replies, replies')
            /\ Len(replies') = Len(replies) + 1 /\ replies'[Len(replies) + 1] = answer
            /\ DOMAIN replies' = DOMAIN replies \cup {Len(replies) + 1}
        BY <2>6, AppendExtends DEF IInv, Types
      <3>4. /\ ClientSealed \subseteq ClientSealed' /\ FromClient \subseteq FromClient'
            /\ ServerSealed \subseteq ServerSealed' /\ FromServer \subseteq FromServer'
        BY <2>1, <2>2, <3>3, ClientSealedGrows, ServerSealedGrows, Unextended DEF IInv
      <3>5. c \in ServerSealed'
        <4>1. PICK i \in DOMAIN replies' : i = Len(replies) + 1
          BY <3>3
        <4>2. i - 1 = stx.nonce /\ replies'[i] = answer /\ handled'[i][1] = msg_type
          BY <2>1, <2>4, <3>3, <4>1
        <4>3. Reply(i)' = Ciphertext(ServerWriteKey, i - 1, AADOf(msg_type), answer)
          BY <2>2, <4>2, FixedTerms DEF Reply
        <4>4. c = Reply(i)'
          BY <2>3, <4>2, <4>3 DEF seal
        <4>. QED
          BY <4>4 DEF ServerSealed
      <3>6. c \in Ciphertexts
        <4>1. AADOf(msg_type) \in {DataAAD, HeartbeatAAD} /\ stx.nonce \in Nonces
          BY DEF AADOf, IInv, Types, CipherStates
        <4>. QED
          BY <2>3, <4>1 DEF seal, Ciphertext, Ciphertexts, Keys
      <3>. HIDE DEF c
      <3>7. frame \in Frames /\ frame.ciphertext = c
        BY <3>6, FramesBuilt DEF MessageTypes, Ephemerals
      <3>8. frame \in FromServer'
        BY <2>1, <2>2, <2>3, <3>5, <3>7, FixedTerms DEF FromServer
      <3>9. smetrics' \in Traffic
        BY <1>1, <2>6, <3>7, WireBytesIsNat, TrafficCounts
      <3>. HIDE DEF frame, received
      <3>10. QueuesGenuine'
        <4>1. c2s' \in Seq(FromClient') /\ s2c \in Seq(FromServer')
          BY <3>4, SeqMonotonic DEF IInv, QueuesGenuine
        <4>. QED
          BY <3>1, <3>8, <4>1, AppendProperties DEF QueuesGenuine, Written
      <3>11. SealedKnown'
        BY <2>1, <2>3, <2>6, <3>4, <3>5 DEF IInv, SealedKnown
      <3>12. Types'
        <4>1. TypeOK'
          BY <1>2, <2>1, <2>2, <3>1, <3>2, <3>9, TrafficIsNat DEF IInv, Types, TypeOK, CipherStates
        <4>. QED
          BY <2>1, <2>2, <3>2, <3>3, <3>9, <4>1, FixedTerms DEF IInv, Types
      <3>13. ServerKeys' /\ ClientKeys'
        BY <2>1, <2>2, <2>3, <3>1, <3>2, FixedTerms, KeysDiffer DEF IInv, ServerKeys, ClientKeys,
           NoCipher, new, with_nonce, TransportKeySet
      <3>14. CountersAgree'
        BY <2>1, <2>2, <3>2, <3>3 DEF IInv, CountersAgree
      <3>15. RepliesAnswer'
        BY <2>1, <2>4, <3>3 DEF RepliesAnswer
      <3>16. ShownIsReplied'
        BY <2>2, <2>4, <3>3 DEF IInv, Types, ShownIsReplied, Extends
      <3>. QED
        BY <2>1, <3>10, <3>11, <3>12, <3>13, <3>14, <3>15, <3>16 DEF IInv
    <2>. QED
      BY <1>4, <2>5, <2>6 DEF ServerAnswers, ServerFails, WriteResults
  <1>. QED
    BY <1>3, <1>4 DEF ServerAnswers, ServerFails

\* One turn of the transport loop.
LEMMA ServerReadsStep ==
  ASSUME IInv, ServerReads
  PROVE  IInv'
  <1>. DEFINE f == Head(c2s)
              answer == AnswerTo(f.msg_type, f.ciphertext.plaintext)
  <1>1. /\ UNCHANGED <<config, clientVars, link, faults>>
        /\ spc = "transport" /\ c2s # <<>> /\ c2s' = Tail(c2s)
    BY DEF ServerReads, Readable
  <1>2. f \in FromClient /\ c2s' \in Seq(FromClient)
    BY <1>1 DEF IInv, QueuesGenuine
  <1>3. answer \in Plaintexts
    BY <1>2 DEF FromClient, Frames, Ciphertexts, AnswerTo, Plaintext, Plaintexts, Texts
  <1>4. CASE f.msg_type = "DataPayload" /\ ServerAnswers(f, DataAAD, answer)
    <2>1. AADOf("DataPayload") = DataAAD
      BY DEF AADOf
    <2>. QED
      BY <1>1, <1>2, <1>3, <1>4, <2>1, AnswersStep
  <1>5. CASE f.msg_type = "Heartbeat" /\ ServerAnswers(f, HeartbeatAAD, answer)
    <2>1. AADOf("Heartbeat") = HeartbeatAAD
      BY DEF AADOf
    <2>. QED
      BY <1>1, <1>2, <1>3, <1>5, <2>1, AnswersStep
  <1>6. CASE /\ spc' \in {"ok", spc}
             /\ smetrics' = smetrics \/ smetrics' = record_rx(smetrics, WireBytes(f))
             /\ UNCHANGED <<stx, srx, filter, handled, replies, s2c, sealed>>
    <2>1. smetrics' \in Traffic
      BY <1>2, <1>6, WireBytesIsNat, TrafficCounts DEF IInv, Types, FromClient
    <2>2. OtherMoves
      BY <1>1, <1>2, <1>6, <2>1 DEF OtherMoves, ClientMoves, ServerMoves, IInv, Types, TypeOK,
         QueuesGenuine, clientVars
    <2>. QED
      BY <2>2, OtherStep
  <1>. QED
    BY <1>4, <1>5, <1>6 DEF ServerReads

-----------------------------------------------------------------------------
(* Faults, and the invariant *)

\* Whatever happens to the link and to the frames on it.
LEMMA FaultStep ==
  ASSUME IInv, Fault
  PROVE  IInv'
  <1>1. /\ UNCHANGED <<config, ctx, crx, cmetrics, sent, shown, sealed>>
        /\ UNCHANGED <<spc, stx, srx, filter, smetrics, handled, replies>>
    BY DEF Fault, serverVars
  <1>2. CASE LinkFails \/ ConnectFails
    BY <1>1, <1>2, OtherStep DEF LinkFails, ConnectFails, OtherMoves, ClientMoves, ServerMoves,
       IInv, Types, TypeOK, QueuesGenuine, linkVars
  <1>3. CASE FramesDisturbed
    <2>1. PICK fault \in {"damage", "duplicate", "reorder"} :
            \/ c2s' \in Disturbed(fault, c2s) /\ UNCHANGED s2c
            \/ s2c' \in Disturbed(fault, s2c) /\ UNCHANGED c2s
      BY <1>3 DEF FramesDisturbed
    <2>2. c2s \in Seq(FromClient) /\ s2c \in Seq(FromServer)
      BY DEF IInv, QueuesGenuine
    <2>3. c2s' \in Seq(FromClient) /\ s2c' \in Seq(FromServer)
      BY <2>1, <2>2, DisturbedStays, GenuineStays
    <2>4. OtherMoves
      BY <1>1, <1>3, <2>3 DEF FramesDisturbed, OtherMoves, ClientMoves, ServerMoves, IInv,
         Types, TypeOK
    <2>. QED
      BY <2>4, OtherStep
  <1>4. CASE OtherAnswers
    <2>1. OtherResp = HandshakeFrame("HandshakeResp", OtherEphemeral, OtherAck)
      BY DEF OtherResp, OtherAck, seal, OtherAckKey, OtherH2, DhOther, diffie_hellman, RespCipher,
         new, with_nonce
    <2>2. OtherResp \in FromServer
      BY <2>1, SealedTypes, FramesBuilt DEF IInv, FromServer, MessageTypes, Ephemerals
    <2>3. s2c' \in Seq(FromServer) /\ c2s' \in Seq(FromClient)
      BY <1>4, <2>2, ConcatProperties DEF OtherAnswers, Cons, IInv, QueuesGenuine
    <2>4. OtherMoves
      BY <1>1, <1>4, <2>3 DEF OtherAnswers, OtherMoves, ClientMoves, ServerMoves, IInv,
         Types, TypeOK
    <2>. QED
      BY <2>4, OtherStep
  <1>. QED
    BY <1>2, <1>3, <1>4 DEF Fault

\* Every step preserves the invariant.
LEMMA NextIInv == IInv /\ [Next]_vars => IInv'
  <1>. SUFFICES ASSUME IInv, [Next]_vars PROVE IInv'
    OBVIOUS
  <1>1. CASE Client
    BY <1>1, ConnectStep, SendsInitStep, ReadsRespStep, RequestStep, ClientEndsStep, ReadsOnlyReplyStep,
       ReadsReplyStep DEF Client
  <1>2. CASE User
    BY <1>2, RequestStep, ClientEndsStep DEF User
  <1>3. CASE ClientTimesOut
    BY <1>3, ClientEndsStep
  <1>4. CASE Server
    BY <1>4, ServerWaitsStep, ReadsInitStep, ServerReadsStep DEF Server
  <1>5. CASE Fault
    BY <1>5, FaultStep
  <1>6. CASE UNCHANGED vars
    <2>1. OtherMoves
      BY <1>6 DEF vars, OtherMoves, ClientMoves, ServerMoves, IInv, Types, TypeOK,
         QueuesGenuine, clientVars, serverVars, linkVars
    <2>. QED
      BY <2>1, OtherStep
  <1>. QED
    BY <1>1, <1>2, <1>3, <1>4, <1>5, <1>6 DEF Next

\* Frames on the wire are what their sender sealed, the keys agree, and every counter is
\* the length of the history it counts.
THEOREM InductiveInvariant == Spec => []IInv
  <1>. QED
    BY InitIInv, NextIInv, PTL DEF Spec

-----------------------------------------------------------------------------
(* What follows from it *)

\* Tunnel is type correct: both ends are at a known place and every counter fits its
\* type, however the frames are altered, repeated or reordered.
THEOREM TypeCorrect == Spec => []TypeOK
  <1>1. IInv => TypeOK
    BY DEF IInv, Types
  <1>. QED
    BY <1>1, InductiveInvariant, PTL

\* A client that finished perform_handshake shares both transport keys with the server
\* task it talks to, or nobody has handled anything of it nor told it anything: the
\* keys then come from an answer that was not the server's.
THEOREM KeysAgree == Spec => []HandshakeAgreement
  <1>1. IInv => HandshakeAgreement
    <2>. SUFFICES ASSUME IInv, Established
                  PROVE  /\ ctx.key # crx.key
                         /\ Agreed \/ (AnsweredByOther /\ handled = <<>> /\ shown = <<>>)
      BY DEF HandshakeAgreement
    <2>1. CASE ctx.key = ClientWriteKey /\ crx.key = ServerWriteKey /\ srx.key # <<>>
      <3>1. srx.key = ClientWriteKey /\ stx.key = ServerWriteKey
        BY <2>1 DEF IInv, ServerKeys, NoCipher, new, with_nonce
      <3>. QED
        BY <2>1, <3>1, KeysDiffer DEF Agreed
    <2>2. CASE /\ ctx.key = OtherClientKey /\ crx.key = OtherServerKey
               /\ handled = <<>> /\ shown = <<>>
      BY <2>2, KeysDiffer DEF AnsweredByOther, OtherClientKey, OtherServerKey, DhOther, OtherH2
    <2>. QED
      BY <2>1, <2>2 DEF IInv, ClientKeys, Established
  <1>. QED
    BY <1>1, InductiveInvariant, PTL

\* handle_client does not get as far as transport keys, and a client is shown nothing,
\* when the client was built with another key or another prologue than the server's.
THEOREM MismatchRefused == Spec => []MismatchNeverEstablishes
  <1>1. IInv => MismatchNeverEstablishes
    <2>. SUFFICES ASSUME IInv, ~Matching
                  PROVE  /\ spc # "transport" /\ srx = NoCipher /\ shown = <<>>
                         /\ Established => AnsweredByOther
      BY DEF MismatchNeverEstablishes, Matching
    <2>1. spc # "transport" /\ srx = NoCipher
      BY DEF IInv, ServerKeys
    <2>2. srx.key = <<>> /\ srx.nonce = 0
      BY <2>1 DEF NoCipher, new, with_nonce
    <2>3. shown = <<>>
      BY <2>2 DEF IInv, Types, CountersAgree, RepliesAnswer, ShownIsReplied
    <2>4. Established => AnsweredByOther
      BY <2>2 DEF IInv, ClientKeys, Established, AnsweredByOther, OtherClientKey, OtherServerKey,
         DhOther, OtherH2
    <2>. QED
      BY <2>1, <2>3, <2>4
  <1>. QED
    BY <1>1, InductiveInvariant, PTL

\* No ciphertext other than the same one is ever sealed with a key and nonce that were
\* used before, over the handshake and both directions.
THEOREM NonceUnique == Spec => []NoncePairsUnique
  <1>1. IInv => NoncePairsUnique
    <2>. SUFFICES ASSUME IInv, NEW x \in sealed, NEW y \in sealed,
                         x.key = y.key, x.nonce = y.nonce
                  PROVE  x = y
      BY DEF NoncePairsUnique
    <2>1. x \in ClientSealed \cup ServerSealed /\ y \in ClientSealed \cup ServerSealed
      BY DEF IInv, SealedKnown
    <2>2. /\ InitMessage.key = InitKey /\ AckMessage.key = AckKey
          /\ \A i \in DOMAIN sent : Request(i).key = ctx.key /\ Request(i).nonce = i - 1
          /\ \A i \in DOMAIN replies : Reply(i).key = ServerWriteKey /\ Reply(i).nonce = i - 1
      BY DEF InitMessage, AckMessage, Request, Reply, Ciphertext
    <2>3. /\ \A i \in DOMAIN sent : i \in Int
          /\ \A i \in DOMAIN replies : i \in Int
      BY DEF IInv, Types
    <2>4. \A i \in DOMAIN sent : ctx.key \in {ClientWriteKey, OtherClientKey}
      BY DEF IInv, Types, ClientKeys, CountersAgree, NoCipher, new, with_nonce
    <2>5. /\ InitKey \notin {AckKey, ClientWriteKey, ServerWriteKey, OtherClientKey}
          /\ AckKey \notin {ClientWriteKey, ServerWriteKey, OtherClientKey}
          /\ ServerWriteKey \notin {ClientWriteKey, OtherClientKey}
      BY KeysDiffer DEF TransportKeySet
    <2>6. CASE x = InitMessage
      BY <2>1, <2>2, <2>6, <2>4, <2>5 DEF ClientSealed, ServerSealed
    <2>7. CASE x = AckMessage
      BY <2>1, <2>2, <2>7, <2>4, <2>5 DEF ClientSealed, ServerSealed
    <2>8. CASE \E i \in DOMAIN sent : x = Request(i)
      <3>1. PICK i \in DOMAIN sent : x = Request(i)
        BY <2>8
      <3>2. PICK j \in DOMAIN sent : y = Request(j)
        BY <2>1, <2>2, <3>1, <2>4, <2>5 DEF ClientSealed, ServerSealed
      <3>3. i - 1 = j - 1
        BY <2>2, <3>1, <3>2
      <3>4. i = j
        BY <2>3, <3>3
      <3>. QED
        BY <3>1, <3>2, <3>4
    <2>9. CASE \E i \in DOMAIN replies : x = Reply(i)
      <3>1. PICK i \in DOMAIN replies : x = Reply(i)
        BY <2>9
      <3>2. PICK j \in DOMAIN replies : y = Reply(j)
        BY <2>1, <2>2, <3>1, <2>4, <2>5 DEF ClientSealed, ServerSealed
      <3>3. i - 1 = j - 1
        BY <2>2, <3>1, <3>2
      <3>4. i = j
        BY <2>3, <3>3
      <3>. QED
        BY <3>1, <3>2, <3>4
    <2>. QED
      BY <2>1, <2>6, <2>7, <2>8, <2>9 DEF ClientSealed, ServerSealed
  <1>. QED
    BY <1>1, InductiveInvariant, PTL

\* As long as the transport loop runs, the replay filter has taken exactly the numbers
\* below the nonce of the receiving cipher and refused none.
THEOREM FilterStays == Spec => []FilterMatchesCipher
  <1>1. IInv => FilterMatchesCipher
    BY DEF IInv, FilterInStep, FilterMatchesCipher
  <1>. QED
    BY <1>1, InductiveInvariant, PTL

\* A sequence that agrees with another as far as it goes is a prefix of it.
LEMMA PrefixByElements ==
  ASSUME NEW S, NEW s \in Seq(S), NEW t \in Seq(S), Len(s) <= Len(t),
         \A i \in DOMAIN s : s[i] = t[i]
  PROVE  IsPrefix(s, t)
  <1>1. Len(s) \in Nat /\ Len(t) \in Nat /\ DOMAIN s = 1 .. Len(s) /\ DOMAIN t = 1 .. Len(t)
    OBVIOUS
  <1>2. SubSeq(s, 1, Len(s)) = SubSeq(t, 1, Len(s))
    BY <1>1
  <1>. QED
    BY <1>1, <1>2 DEF IsPrefix

\* The server handles a prefix of what the client sent and the client shows a prefix of
\* the answers, whatever happens to the frames under way.
THEOREM InOrder == Spec => []DeliveredInOrder
  <1>1. IInv => DeliveredInOrder
    <2>. SUFFICES ASSUME IInv PROVE DeliveredInOrder
      OBVIOUS
    <2>. DEFINE plain == [ i \in DOMAIN shown |-> shown[i].plaintext ]
    <2>1. IsPrefix(handled, sent)
      BY PrefixByElements DEF IInv, Types, HandledIsSent
    <2>2. plain \in Seq(Plaintexts) /\ Len(plain) = Len(shown)
      <3>1. Len(shown) \in Nat /\ DOMAIN shown = 1 .. Len(shown)
        BY DEF IInv, Types
      <3>2. \A i \in 1 .. Len(shown) : shown[i].plaintext \in Plaintexts
        <4>1. \A i \in 1 .. Len(shown) : shown[i] \in Answers
          BY ElementOfSeq DEF IInv, Types
        <4>. QED
          BY <4>1 DEF Answers
      <3>3. DOMAIN plain = 1 .. Len(shown) /\ plain \in [1 .. Len(shown) -> Plaintexts]
        BY <3>1, <3>2
      <3>. HIDE DEF plain
      <3>4. \E n \in Nat : plain \in [1 .. n -> Plaintexts]
        BY <3>1, <3>3
      <3>5. plain \in Seq(Plaintexts)
        <4>1. Seq(Plaintexts) = UNION { [1 .. n -> Plaintexts] : n \in Nat }
          BY SeqDef
        <4>2. plain \in UNION { [1 .. n -> Plaintexts] : n \in Nat }
          BY <3>4
        <4>. QED
          BY <4>1, <4>2, Zenon
      <3>6. Len(plain) \in Nat /\ DOMAIN plain = 1 .. Len(plain)
        BY <3>5, LenProperties
      <3>. QED
        BY <3>1, <3>3, <3>5, <3>6
    <2>3. /\ replies \in Seq(Plaintexts) /\ Len(shown) <= Len(replies)
          /\ \A i \in DOMAIN plain : plain[i] = replies[i]
      BY DEF IInv, Types, ShownIsReplied
    <2>. HIDE DEF plain
    <2>4. IsPrefix(plain, replies)
      BY <2>2, <2>3, PrefixByElements
    <2>. QED
      BY <2>1, <2>4 DEF DeliveredInOrder, plain
  <1>. QED
    BY <1>1, InductiveInvariant, PTL

=============================================================================
