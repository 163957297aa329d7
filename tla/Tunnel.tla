------------------------------- MODULE Tunnel -------------------------------
(***************************************************************************)
(* One connection: a TunnelClient (src/src/client.rs) and the task         *)
(* TunnelServer spawns for it (src/src/server.rs), joined by a TCP link.   *)
(*                                                                         *)
(* A step runs from one await to the next: it takes a frame from the link  *)
(* (or finds the link broken), computes, and writes at most one frame.     *)
(***************************************************************************)
EXTENDS ReplayWindow, WireFrame, SessionMetrics, CommandLine, SequencesExt

CONSTANTS
  ClientArgs,    \* the arguments of the client command
  ServerArgs,    \* the arguments of the server command
  AtCapacity,    \* whether a server with a limit is at it when it accepts
  MessageSizes,  \* lengths of the messages sent, in bytes
  Faults,        \* what may happen to the link
  MaxFaults      \* bound: faults per connection

ASSUME TunnelAssumption ==
  /\ MaxNonce <= MaxSeq
  /\ AtCapacity \subseteq BOOLEAN
  /\ MessageSizes \subseteq Nat /\ MaxFaults \in Nat
  /\ Faults \subseteq {"reset", "partition", "damage", "duplicate", "reorder", "answer"}

VARIABLES
  config,                       \* how the two ends were built
  cpc, ctx, crx, cmetrics,      \* the client: where it is, its ciphers and counters
  spc, stx, srx, filter, smetrics, \* the server task
  link, c2s, s2c,               \* the TCP connection and the frames under way
  faults,                       \* faults so far
  sent, handled, replies, shown,  \* history: requests sent and handled, replies sent and shown
  sealed                        \* history: every ciphertext the two ends sealed for the link

clientVars == <<cpc, ctx, crx, cmetrics, sent, shown>>
serverVars == <<spc, stx, srx, filter, smetrics, handled, replies>>
linkVars == <<link, c2s, s2c>>
vars == <<config, clientVars, serverVars, linkVars, faults, sealed>>

ClientEphemeral == "client ephemeral"
ServerEphemeral == "server ephemeral"
OtherEphemeral == "other ephemeral"   \* of whoever answers in the server's place

NoCipher == new(<<>>)

DataAAD == <<"tunnel-data">>
HeartbeatAAD == <<"heartbeat">>

Init ==
  /\ \E client \in ClientArgs, server \in ServerArgs, full \in AtCapacity :
       /\ full => ServerSetup(server).limited
       /\ config = [client |-> ClientSetup(client), server |-> ServerSetup(server), full |-> full]
  /\ cpc = "start" /\ ctx = NoCipher /\ crx = NoCipher /\ cmetrics = NoTraffic
  /\ spc = "none" /\ stx = NoCipher /\ srx = NoCipher /\ smetrics = NoTraffic
  /\ filter = with_window_size(BitmapBits)
  /\ link = "none" /\ c2s = <<>> /\ s2c = <<>>
  /\ faults = 0
  /\ sent = <<>> /\ handled = <<>> /\ replies = <<>> /\ shown = <<>>
  /\ sealed = {}

ClientDone == cpc \in {"ok", "err", "timeout"}
ServerDone == spc \in {"ok", "err", "refused"}

-----------------------------------------------------------------------------
(* The link *)

\* A frame can be read: a reset may still leave what was already received.
Readable(queue) == queue # <<>> /\ link \in {"up", "reset"}

\* A read fails.  An end that closes with unread data sends a reset, which may
\* overtake what it wrote before; without one the other end reads everything
\* and then finds the end of the stream.  On a dead link only an end with
\* unacknowledged data ever notices.
Broken(in, out, peer_done) ==
  \/ link = "reset"
  \/ link = "up" /\ peer_done /\ (in = <<>> \/ out # <<>>)
  \/ link = "down" /\ out # <<>>

\* The results write_to can have.
WriteResults(peer_done) == IF link = "reset" \/ peer_done THEN BOOLEAN ELSE {TRUE}

\* Variant: the writer is buffered and never flushed.
Written_unflushed(queue, frame, ok) == queue

Written(queue, frame, ok) == IF ok THEN Append(queue, frame) ELSE queue

-----------------------------------------------------------------------------
(* The handshake, shared by both ends *)

\* The cipher of HandshakeInit: both ends hold DH(e_c, s_s).
InitCipher(dh_static, h1) ==
  new(derive_session_keys(<<dh_static>>, h1).client_write_key)

\* The cipher of HandshakeResp: both ends hold DH(e_c, e_s).
RespCipher(dh_ephem, h2) ==
  new(derive_session_keys(<<dh_ephem>>, h2).server_write_key)

TransportKeys(dh_static, dh_ephem, h2) == derive_session_keys(<<dh_static, dh_ephem>>, h2)

\* The length check shared by both ends.
HandshakePayload(f, msg_type) ==
  /\ read_from(f)
  /\ f.msg_type = msg_type
  /\ f.payload_len >= KEY_LEN + TAG_LEN

-----------------------------------------------------------------------------
(* The client *)

ClientH1 == hash_handshake_state(config.client.prologue, ClientEphemeral, config.client.pinned, NoKey)

\* Variant: the hash of the client leaves the server's ephemeral key out.
ClientH2_static(e_s) == ClientH1

ClientH2(e_s) == hash_handshake_state(config.client.prologue, ClientEphemeral, config.client.pinned, e_s)
ClientDhStatic == diffie_hellman(ClientEphemeral, config.client.pinned)

\* TcpStream::connect.
ClientConnect ==
  /\ cpc = "start" /\ config.client.started /\ config.server.serving
  /\ cpc' = "connected"
  /\ link' = "up"
  /\ UNCHANGED <<config, ctx, crx, cmetrics, sent, shown, serverVars, c2s, s2c, faults, sealed>>

\* perform_handshake up to the read of the response.
ClientSendsInit ==
  LET ciphertext == seal(InitCipher(ClientDhStatic, ClientH1), ClientH1,
                         Plaintext("HANDSHAKE_INIT_CLIENT", 0, 21))
      frame == HandshakeFrame("HandshakeInit", ClientEphemeral, ciphertext)
  IN  /\ cpc = "connected"
      /\ \E ok \in WriteResults(ServerDone) :
           /\ c2s' = Written(c2s, frame, ok)
           /\ cpc' = IF ok THEN "await_resp" ELSE "err"
      /\ sealed' = sealed \cup {ciphertext}
      /\ UNCHANGED <<config, ctx, crx, cmetrics, sent, shown, serverVars, link, s2c, faults>>

\* main does not get to a session, or there is no server at the address.
ClientNotConnected ==
  /\ cpc = "start" /\ ~(config.client.started /\ config.server.serving)
  /\ cpc' = "err"
  /\ UNCHANGED <<config, ctx, crx, cmetrics, sent, shown, serverVars, linkVars, faults, sealed>>

\* Variant: the tag of the acknowledgement is not looked at.
ClientAccepts_unchecked(f) == HandshakePayload(f, "HandshakeResp")

\* The tag is keyed by DH(e_c, e_s) alone: it shows that whoever answered holds
\* the private half of e_s.  That the answer is the server's shows only later,
\* when a transport message decrypts under keys that mix in DH(e_c, s_s).
ClientAccepts(f) ==
  LET h2 == ClientH2(f.ephemeral)
      dh_ephem == diffie_hellman(ClientEphemeral, f.ephemeral)
  IN  /\ HandshakePayload(f, "HandshakeResp")
      /\ decrypts(RespCipher(dh_ephem, h2), f.ciphertext, h2, 0)
      /\ f.ciphertext.plaintext.text = "HANDSHAKE_COMPLETE_ACK"

\* The rest of perform_handshake.
ClientReadsResp ==
  LET f == Head(s2c)
      keys == TransportKeys(ClientDhStatic, diffie_hellman(ClientEphemeral, f.ephemeral),
                            ClientH2(f.ephemeral))
  IN  /\ cpc = "await_resp" /\ Readable(s2c)
      /\ s2c' = Tail(s2c)
      /\ IF ClientAccepts(f)
           THEN /\ ctx' = new(keys.client_write_key)
                /\ crx' = new(keys.server_write_key)
                /\ cpc' = IF config.client.mode = "repl" THEN "idle" ELSE "send"
           ELSE cpc' = "err" /\ UNCHANGED <<ctx, crx>>
      /\ UNCHANGED <<config, cmetrics, sent, shown, serverVars, link, c2s, faults, sealed>>

\* Only the interactive session keeps metrics.
Counted(m) == IF config.client.mode = "repl" THEN m ELSE cmetrics

\* Encrypts a request and writes it; an error of either ends the session.
ClientSends(msg_type, aad, plaintext, next) ==
  LET ciphertext == seal(ctx, aad, plaintext)
      frame == SealedFrame(msg_type, ciphertext)
  IN  IF ~encrypts(ctx)
        THEN cpc' = "err" /\ UNCHANGED <<ctx, cmetrics, c2s, sent, sealed>>
        ELSE \E ok \in WriteResults(ServerDone) :
               /\ ctx' = encrypt(ctx)
               /\ cmetrics' = Counted(record_tx(cmetrics, WireBytes(frame)))
               /\ c2s' = Written(c2s, frame, ok)
               /\ cpc' = IF ok THEN next ELSE "err"
               /\ sent' = Append(sent, <<msg_type, plaintext>>)
               /\ sealed' = sealed \cup {ciphertext}

ClientSendsData(pc, size) ==
  /\ cpc = pc
  /\ ClientSends("DataPayload", DataAAD, Plaintext("message", Len(sent) + 1, size), "await_reply")
  /\ UNCHANGED <<config, crx, shown, serverVars, link, s2c, faults>>

\* send_secure_message sends its message as soon as the handshake is done.
ClientSendsMessage == \E size \in MessageSizes : ClientSendsData("send", size)

\* A line of text, and /ping, in the interactive session.
UserSendsText == \E size \in MessageSizes : ClientSendsData("idle", size)

UserPings ==
  /\ cpc = "idle"
  /\ ClientSends("Heartbeat", HeartbeatAAD, Plaintext("PING", Len(sent) + 1, 4), "await_pong")
  /\ UNCHANGED <<config, crx, shown, serverVars, link, s2c, faults>>

\* /quit and exit: the Close frame is counted whether or not it can be written.
UserQuits ==
  /\ cpc = "idle"
  /\ cpc' = "ok"
  /\ cmetrics' = record_tx(cmetrics, WireBytes(CloseFrame(ctx.nonce)))
  /\ \E ok \in WriteResults(ServerDone) : c2s' = Written(c2s, CloseFrame(ctx.nonce), ok)
  /\ UNCHANGED <<config, ctx, crx, sent, shown, serverVars, link, s2c, faults, sealed>>

\* End of standard input, or an error reading it: the session ends without a
\* Close frame, with or without an error.
UserEndsInput ==
  /\ cpc = "idle"
  /\ cpc' \in {"ok", "err"}
  /\ UNCHANGED <<config, ctx, crx, cmetrics, sent, shown, serverVars, linkVars, faults, sealed>>

\* The answer decrypts and is shown to the caller as the answer to the last
\* request.
ClientShows(f, aad) ==
  /\ decrypts(crx, f.ciphertext, aad, f.nonce)
  /\ crx' = decrypt(crx)
  /\ shown' = Append(shown, [asked |-> Len(sent), plaintext |-> f.ciphertext.plaintext])

\* send_secure_message: the answer, then a Close frame whose loss is ignored.
ClientReadsOnlyReply ==
  LET f == Head(s2c)
  IN  /\ cpc = "await_reply" /\ config.client.mode = "oneshot" /\ Readable(s2c)
      /\ s2c' = Tail(s2c)
      /\ \/ /\ read_from(f) /\ f.msg_type = "DataPayload"
            /\ ClientShows(f, DataAAD)
            /\ cpc' = "ok"
            /\ \E ok \in WriteResults(ServerDone) :
                 c2s' = Written(c2s, CloseFrame(ctx.nonce), ok)
         \/ /\ ~(/\ read_from(f) /\ f.msg_type = "DataPayload"
                 /\ decrypts(crx, f.ciphertext, DataAAD, f.nonce))
            /\ cpc' = "err"
            /\ UNCHANGED <<crx, shown, c2s>>
      /\ UNCHANGED <<config, ctx, cmetrics, sent, serverVars, link, faults, sealed>>

\* The interactive session: the loop goes on after an answer of another type,
\* and a Close ends it only where a message was sent.
ClientReadsReply ==
  LET f == Head(s2c)
      expected == IF cpc = "await_reply" THEN "DataPayload" ELSE "Heartbeat"
      aad == IF cpc = "await_reply" THEN DataAAD ELSE HeartbeatAAD
  IN  /\ cpc \in {"await_reply", "await_pong"} /\ config.client.mode = "repl" /\ Readable(s2c)
      /\ s2c' = Tail(s2c)
      /\ \/ /\ ~read_from(f)
            /\ cpc' = "err" /\ UNCHANGED <<crx, cmetrics, shown>>
         \/ /\ read_from(f)
            /\ cmetrics' = record_rx(cmetrics, WireBytes(f))
            /\ \/ /\ f.msg_type = expected /\ ClientShows(f, aad)
                  /\ cpc' = "idle"
               \/ /\ f.msg_type = expected /\ ~decrypts(crx, f.ciphertext, aad, f.nonce)
                  /\ cpc' = "err" /\ UNCHANGED <<crx, shown>>
               \/ /\ f.msg_type # expected
                  /\ cpc' = IF f.msg_type = "Close" /\ cpc = "await_reply" THEN "ok" ELSE "idle"
                  /\ UNCHANGED <<crx, shown>>
      /\ UNCHANGED <<config, ctx, sent, serverVars, link, c2s, faults, sealed>>

\* Variant: the interactive session reports the error and prompts again.
ClientBreaks_prompt ==
  /\ cpc \in {"await_resp", "await_reply", "await_pong"}
  /\ Broken(s2c, c2s, ServerDone)
  /\ cpc' = IF config.client.mode = "repl" /\ cpc # "await_resp" THEN "idle" ELSE "err"
  /\ UNCHANGED <<config, ctx, crx, cmetrics, sent, shown, serverVars, linkVars, faults, sealed>>

\* A read of the client fails.
ClientBreaks ==
  /\ cpc \in {"await_resp", "await_reply", "await_pong"}
  /\ Broken(s2c, c2s, ServerDone)
  /\ cpc' = "err"
  /\ UNCHANGED <<config, ctx, crx, cmetrics, sent, shown, serverVars, linkVars, faults, sealed>>

\* Variant: the timeout covers the handshake only.
ClientTimesOut_handshake ==
  /\ config.client.mode = "oneshot" /\ config.client.timeout
  /\ cpc \in {"start", "connected", "await_resp"}
  /\ cpc' = "timeout"
  /\ UNCHANGED <<config, ctx, crx, cmetrics, sent, shown, serverVars, linkVars, faults, sealed>>

\* tokio::time::timeout drops send_secure_message wherever it waits.
ClientTimesOut ==
  /\ config.client.started
  /\ config.client.mode = "oneshot" /\ config.client.timeout /\ ~ClientDone
  /\ cpc' = "timeout"
  /\ UNCHANGED <<config, ctx, crx, cmetrics, sent, shown, serverVars, linkVars, faults, sealed>>

-----------------------------------------------------------------------------
(* The server *)

\* TunnelServer::run takes the connection, or drops it at max_connections.
ServerAccepts ==
  /\ spc = "none" /\ link # "none"
  /\ spc' = IF config.full THEN "refused" ELSE "await_init"
  /\ UNCHANGED <<config, clientVars, stx, srx, filter, smetrics, handled, replies,
                 linkVars, faults, sealed>>

ServerH1(e_c) == hash_handshake_state(config.server.prologue, e_c, config.server.static, NoKey)
ServerH2(e_c) == hash_handshake_state(config.server.prologue, e_c, config.server.static, ServerEphemeral)

\* Variant: the tag of HandshakeInit is not looked at.
ServerAuthenticates_unchecked(f) == HandshakePayload(f, "HandshakeInit")

\* The client knows the server's static key and prologue.
ServerAuthenticates(f) ==
  /\ HandshakePayload(f, "HandshakeInit")
  /\ decrypts(InitCipher(diffie_hellman(config.server.static, f.ephemeral), ServerH1(f.ephemeral)),
              f.ciphertext, ServerH1(f.ephemeral), 0)

\* handle_client_with_prologue up to the transport loop.
ServerReadsInit ==
  LET f == Head(c2s)
      h2 == ServerH2(f.ephemeral)
      dh_static == diffie_hellman(config.server.static, f.ephemeral)
      dh_ephem == diffie_hellman(ServerEphemeral, f.ephemeral)
      keys == TransportKeys(dh_static, dh_ephem, h2)
      ack == seal(RespCipher(dh_ephem, h2), h2, Plaintext("HANDSHAKE_COMPLETE_ACK", 0, 22))
  IN  /\ spc = "await_init" /\ Readable(c2s)
      /\ c2s' = Tail(c2s)
      /\ \/ /\ ~ServerAuthenticates(f)
            /\ spc' = "err" /\ UNCHANGED <<stx, srx, s2c, sealed>>
         \/ /\ ServerAuthenticates(f)
            /\ sealed' = sealed \cup {ack}
            /\ \E ok \in WriteResults(ClientDone) :
                 /\ s2c' = Written(s2c, HandshakeFrame("HandshakeResp", ServerEphemeral, ack), ok)
                 /\ spc' = IF ok THEN "transport" ELSE "err"
            /\ srx' = new(keys.client_write_key)
            /\ stx' = new(keys.server_write_key)
      /\ UNCHANGED <<config, clientVars, filter, smetrics, handled, replies, link, faults>>

\* Variant: the transport loop logs the error and reads on.
ServerFails_logged == UNCHANGED spc

\* `?` in the transport loop returns the error from the handler.
ServerFails == spc' = "err"

\* A request is verified by the replay filter, then by the cipher; either error
\* ends the session.  Then the answer is encrypted, counted and written.
ServerAnswers(f, aad, answer) ==
  LET verified == accepts(filter, f.nonce) /\ decrypts(srx, f.ciphertext, aad, f.nonce)
      ciphertext == seal(stx, aad, answer)
      frame == SealedFrame(f.msg_type, ciphertext)
      received == record_rx(smetrics, WireBytes(f))
  IN  /\ filter' = validate_and_record(filter, f.nonce)
      /\ \/ /\ ~verified
            /\ ServerFails /\ smetrics' = received
            /\ UNCHANGED <<srx, stx, handled, replies, s2c, sealed>>
         \/ /\ verified
            /\ srx' = decrypt(srx)
            /\ handled' = Append(handled, <<f.msg_type, f.ciphertext.plaintext>>)
            /\ \/ /\ ~encrypts(stx)
                  /\ ServerFails /\ smetrics' = received
                  /\ UNCHANGED <<stx, replies, s2c, sealed>>
               \/ /\ encrypts(stx)
                  /\ stx' = encrypt(stx)
                  /\ smetrics' = record_tx(received, WireBytes(frame))
                  /\ replies' = Append(replies, answer)
                  /\ sealed' = sealed \cup {ciphertext}
                  /\ \E ok \in WriteResults(ClientDone) :
                       /\ s2c' = Written(s2c, frame, ok)
                       /\ IF ok THEN UNCHANGED spc ELSE ServerFails

\* The echo is the message in 15 bytes more.
AnswerTo(msg_type, plaintext) ==
  IF msg_type = "DataPayload" THEN Plaintext("echo", plaintext.id, plaintext.size + 15)
                              ELSE Plaintext("PONG", plaintext.id, 4)

\* One turn of the transport loop.  A frame that cannot be read, and Close, end
\* it without an error; a handshake type is counted and skipped.
ServerReads ==
  LET f == Head(c2s)
      answer == AnswerTo(f.msg_type, f.ciphertext.plaintext)
  IN  /\ spc = "transport" /\ Readable(c2s)
      /\ c2s' = Tail(c2s)
      /\ \/ /\ ~read_from(f)
            /\ spc' = "ok"
            /\ UNCHANGED <<stx, srx, filter, smetrics, handled, replies, s2c, sealed>>
         \/ /\ read_from(f) /\ f.msg_type = "DataPayload"
            /\ ServerAnswers(f, DataAAD, answer)
         \/ /\ read_from(f) /\ f.msg_type = "Heartbeat"
            /\ ServerAnswers(f, HeartbeatAAD, answer)
         \/ /\ read_from(f) /\ f.msg_type \in {"HandshakeInit", "HandshakeResp", "Close"}
            /\ smetrics' = record_rx(smetrics, WireBytes(f))
            /\ spc' = IF f.msg_type = "Close" THEN "ok" ELSE spc
            /\ UNCHANGED <<stx, srx, filter, handled, replies, s2c, sealed>>
      /\ UNCHANGED <<config, clientVars, link, faults>>

\* Variant: only the handshake ends on a failed read.
ServerBreaks_handshake ==
  /\ spc = "await_init"
  /\ Broken(c2s, s2c, ClientDone)
  /\ spc' = "err"
  /\ UNCHANGED <<config, clientVars, stx, srx, filter, smetrics, handled, replies,
                 linkVars, faults, sealed>>

\* A read of the server fails: an error in the handshake, the end of the
\* session in the transport loop.
ServerBreaks ==
  /\ spc \in {"await_init", "transport"}
  /\ Broken(c2s, s2c, ClientDone)
  /\ spc' = IF spc = "transport" THEN "ok" ELSE "err"
  /\ UNCHANGED <<config, clientVars, stx, srx, filter, smetrics, handled, replies,
                 linkVars, faults, sealed>>

-----------------------------------------------------------------------------
(* What may happen to the link *)

\* A type byte, nonce, ephemeral key or ciphertext altered under way.  Damage to
\* the length prefix, which shifts the frame boundaries, is in FrameStream.
Damaged(f) ==
  { [f EXCEPT !.msg_type = t] : t \in (MessageTypes \cup {UnknownType}) \ {f.msg_type} }
  \cup { [f EXCEPT !.nonce = n] : n \in Nonces \ {f.nonce} }
  \cup { [f EXCEPT !.ephemeral = "another key"], [f EXCEPT !.ciphertext.intact = FALSE] }

\* The queues a fault of this kind can leave.
Disturbed(fault, queue) ==
  CASE fault = "damage" ->
         UNION { { ReplaceAt(queue, i, f) : f \in Damaged(queue[i]) } : i \in DOMAIN queue }
    [] fault = "duplicate" -> { Append(queue, queue[i]) : i \in DOMAIN queue }
    [] fault = "reorder" ->
         { InsertAt(RemoveAt(queue, i), i + 1, queue[i]) : i \in 1 .. Len(queue) - 1 }

LinkFails ==
  /\ link = "up"
  /\ \/ "reset" \in Faults /\ link' = "reset"
     \/ "partition" \in Faults /\ link' = "down"
  /\ UNCHANGED <<c2s, s2c, cpc>>

\* The network does not let the connection through.
ConnectFails ==
  /\ "reset" \in Faults
  /\ cpc = "start" /\ config.client.started /\ cpc' = "err"
  /\ UNCHANGED linkVars

FramesDisturbed ==
  /\ link = "up"
  /\ \E fault \in Faults \cap {"damage", "duplicate", "reorder"} :
       \/ c2s' \in Disturbed(fault, c2s) /\ UNCHANGED s2c
       \/ s2c' \in Disturbed(fault, s2c) /\ UNCHANGED c2s
  /\ UNCHANGED <<link, cpc>>

\* The response of somebody who read the HandshakeInit and answers in the
\* server's place: all of it is computed from public values and from the private
\* half of an ephemeral key of their own.
OtherResp ==
  LET h2 == ClientH2(OtherEphemeral)
      ack == seal(RespCipher(diffie_hellman(OtherEphemeral, ClientEphemeral), h2), h2,
                  Plaintext("HANDSHAKE_COMPLETE_ACK", 0, 22))
  IN  HandshakeFrame("HandshakeResp", OtherEphemeral, ack)

\* It gets to the client before anything of the server's that is still under way.
\* They cannot go on from there: DH(e_c, s_s) takes a private half that only the
\* two ends hold.
OtherAnswers ==
  /\ "answer" \in Faults
  /\ link = "up" /\ cpc = "await_resp"
  /\ s2c' = Cons(OtherResp, s2c)
  /\ UNCHANGED <<link, c2s, cpc>>

Fault ==
  /\ faults < MaxFaults
  /\ faults' = faults + 1
  /\ LinkFails \/ ConnectFails \/ FramesDisturbed \/ OtherAnswers
  /\ UNCHANGED <<config, ctx, crx, cmetrics, sent, shown, serverVars, sealed>>

-----------------------------------------------------------------------------

Client ==
  \/ ClientConnect \/ ClientNotConnected \/ ClientSendsInit \/ ClientReadsResp
  \/ ClientSendsMessage \/ ClientReadsOnlyReply \/ ClientReadsReply \/ ClientBreaks

User == UserSendsText \/ UserPings \/ UserQuits \/ UserEndsInput

Server == ServerAccepts \/ ServerReadsInit \/ ServerReads \/ ServerBreaks

Next == Client \/ User \/ ClientTimesOut \/ Server \/ Fault

Spec == Init /\ [][Next]_vars

\* tokio polls a task whose socket is ready and fires an elapsed timer; nothing
\* obliges the user at the prompt or the network.
FairSpec ==
  Spec /\ WF_vars(Client) /\ WF_vars(Server) /\ WF_vars(ClientTimesOut)

-----------------------------------------------------------------------------
(* Properties *)

\* Type invariant of Tunnel: both ends are at a known place and every counter
\* fits its type.
TypeOK ==
  /\ cpc \in {"start", "connected", "await_resp", "send", "idle", "await_reply", "await_pong",
              "ok", "err", "timeout"}
  /\ spc \in {"none", "await_init", "transport", "ok", "err", "refused"}
  /\ link \in {"none", "up", "reset", "down"}
  /\ \A c \in {ctx, crx, stx, srx} : c.nonce \in Nonces
  /\ filter \in ReplayFilters
  /\ \A m \in {cmetrics, smetrics} : \A field \in DOMAIN m : m[field] \in Nat

\* The client holds transport keys.
Established == ctx # NoCipher

\* The two ends share both transport keys, crosswise.
Agreed == ctx.key = srx.key /\ crx.key = stx.key

\* The keys of the client are those of a handshake that somebody else answered.
AnsweredByOther ==
  LET keys == TransportKeys(ClientDhStatic, diffie_hellman(ClientEphemeral, OtherEphemeral),
                            ClientH2(OtherEphemeral))
  IN  ctx.key = keys.client_write_key /\ crx.key = keys.server_write_key

\* Whatever happened to the frames of the handshake, and whoever answered it: a
\* client that finished it either shares both transport keys with the server task
\* on the other end, or holds the keys of somebody else's answer.  Then nothing it
\* sends is ever handled and nothing is ever shown to it.  The two directions
\* never share a key.
HandshakeAgreement ==
  Established =>
    /\ ctx.key # crx.key
    /\ \/ Agreed
       \/ AnsweredByOther /\ handled = <<>> /\ shown = <<>>

\* What src/README.md says of the handshake: only the server whose static key the
\* client pins can complete it.
OnlyServerCompletes == Established => Agreed

\* A server task gets past the handshake, and a client is shown an answer, only
\* when the client was built with the server's static key and prologue; a client
\* that was not finishes its handshake only with somebody else.
MismatchNeverEstablishes ==
  \/ spc = "transport" \/ srx # NoCipher \/ shown # <<>>
  \/ Established /\ ~AnsweredByOther
  => config.client.pinned = config.server.static /\ config.client.prologue = config.server.prologue

\* No key and nonce seal two ciphertexts, over both directions and over the
\* handshake and transport ciphers together.
NoncePairsUnique ==
  \A x, y \in sealed : x.key = y.key /\ x.nonce = y.nonce => x = y

\* The replay filter and the receiving cipher of the server stay in step: as
\* long as the session lives the filter has accepted exactly the numbers below
\* the cipher's nonce and refused none, so the first number it refuses, or the
\* cipher, ends the session.
FilterMatchesCipher ==
  spc = "transport" =>
    /\ filter.total_rejected = 0
    /\ filter.total_accepted = srx.nonce
    /\ IF filter.initialized THEN filter.last_seq = srx.nonce - 1 ELSE srx.nonce = 0

\* The server handles a prefix of the requests the client sent, in order and
\* each once and as the type it was sent as, and the client shows a prefix of
\* the answers, although frames are damaged, duplicated and reordered.
DeliveredInOrder ==
  /\ IsPrefix(handled, sent)
  /\ IsPrefix([ i \in DOMAIN shown |-> shown[i].plaintext ], replies)

\* What the client shows is the answer to the request it is waiting for, not to
\* an earlier one.
ReplyCorrelation ==
  \A i \in DOMAIN shown : shown[i].plaintext.id = shown[i].asked

BytesIn(queue) == FoldSeq(LAMBDA f, n : WireBytes(f) + n, 0, queue)

\* The interactive session and the server count the same traffic: what one end
\* has sent is what the other has received plus what is under way, up to and
\* including the Close frame.
MetricsConserved ==
  /\ config.client.mode = "repl" /\ link = "up" /\ Established
  /\ \/ spc = "transport" /\ cpc \in {"idle", "await_reply", "await_pong", "ok"}
     \/ spc = "ok" /\ cpc = "ok"
  => /\ cmetrics.bytes_sent = smetrics.bytes_received + BytesIn(c2s)
     /\ smetrics.bytes_sent = cmetrics.bytes_received + BytesIn(s2c)
     /\ cmetrics.frames_sent = smetrics.frames_received + Len(c2s)
     /\ smetrics.frames_sent = cmetrics.frames_received + Len(s2c)

\* A request the server handled is answered: without faults the client's session
\* never fails between the two.
HandledIsAnswered == cpc = "err" => Len(shown) = Len(handled)

\* With a timeout, send_secure_message returns whatever happens to the link or
\* the server.
TimeoutBoundsOneShot ==
  config.client.mode = "oneshot" /\ config.client.timeout ~> ClientDone

\* While the link stands the two ends never both wait for the other's frame:
\* one of them has something to read.
NoMutualWait ==
  /\ link = "up"
  /\ cpc \in {"await_resp", "await_reply", "await_pong"}
  /\ spc \in {"await_init", "transport"}
  => c2s # <<>> \/ s2c # <<>>

Phase(pc, before, done) ==
  IF pc \in before THEN "new" ELSE IF pc \in done THEN "closed" ELSE "open"

Session ==
  INSTANCE RequestReply WITH
    client <- Phase(cpc, {"start", "connected", "await_resp"}, {"ok", "err", "timeout"}),
    server <- Phase(spc, {"none", "await_init"}, {"ok", "err", "refused"}),
    Requests <- {"DataPayload", "Heartbeat"} \X [text : {"message", "PING"}, id : Nat, size : Nat],
    AnswerTo <- LAMBDA request : AnswerTo(request[1], request[2]),
    asked <- sent, served <- handled,
    shown <- [ i \in DOMAIN shown |-> shown[i].plaintext ]

\* Over TCP, which loses the link but neither repeats nor alters frames, the
\* connection is a request and reply session: also when an end closes, times
\* out or fails to write in the middle of an exchange.
ImplementsRequestReply == Session!Spec

EchoFits(request) ==
  is_valid_payload_size(AnswerTo(request[1], request[2]).size + TAG_LEN)

\* send_secure_message returns the answer when the keys and the prologue match,
\* the server has room, no timer runs, the echo of the message fits a frame and
\* the link does not fail.
HealthyExchangeSucceeds ==
  /\ config.client.mode = "oneshot" /\ config.client.started /\ ~config.client.timeout
  /\ config.server.serving /\ ~config.full
  /\ config.client.pinned = config.server.static /\ config.client.prologue = config.server.prologue
  ~> \/ cpc = "ok" /\ shown # <<>>
     \/ sent # <<>> /\ ~EchoFits(sent[1])
     \/ faults > 0

\* Once the client is gone the server task ends and gives its slot back, unless
\* the link died silently: then nothing wakes it.
ServerReleased ==
  ClientDone /\ link # "none" ~> ServerDone \/ link = "down"

=============================================================================
