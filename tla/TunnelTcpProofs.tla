-------------------------- MODULE TunnelTcpProofs --------------------------
(***************************************************************************)
(* Module Tunnel over a link that behaves as TCP does: it may refuse the   *)
(* connection, be reset or stop carrying anything, but what it delivers is *)
(* what the other end wrote, in order and once.  The two ends then take    *)
(* turns.                                                                  *)
(***************************************************************************)
EXTENDS TunnelProofs

Tcp == Faults \subseteq {"reset", "partition"}

-----------------------------------------------------------------------------
(* The inductive invariant *)

\* The type of the answer the client waits for.
Awaited == IF cpc = "await_reply" THEN "DataPayload" ELSE "Heartbeat"

OfType(queue, msg_type) == \A i \in DOMAIN queue : queue[i].msg_type = msg_type

\* Until the server has authenticated the client nothing is on the way to the client,
\* and it has no keys: nobody else answers it.
NobodyElse == srx.key = <<>> => s2c = <<>> /\ ctx = NoCipher

\* Never is more than one frame under way, in both directions together.
OneFrame == Len(c2s) + Len(s2c) <= 1

\* Until the client is connected there is no server task; until it has the answer to
\* its HandshakeInit nothing is counted, and the answer is on its way unless the server
\* has not read the message or has given up.
HandshakeTurns ==
  /\ cpc = "start" => link = "none"
  /\ link = "none" => spc = "none" /\ c2s = <<>> /\ s2c = <<>>
  /\ spc \in {"none", "await_init"} => smetrics = NoTraffic
  /\ cpc \in Handshaking => cmetrics = NoTraffic
  /\ cpc = "connected" => link # "none" /\ c2s = <<>> /\ srx = NoCipher
  /\ cpc = "await_resp" =>
       \/ srx = NoCipher /\ (spc \in {"none", "await_init"} => c2s # <<>>)
       \/ /\ c2s = <<>> /\ s2c # <<>> /\ smetrics = NoTraffic
          /\ link = "up" => spc = "transport"
       \/ s2c = <<>> /\ spc = "err"

\* At the prompt everything has been answered.
PromptTurn ==
  cpc \in {"send", "idle"} =>
    /\ c2s = <<>> /\ s2c = <<>> /\ Len(shown) = Len(sent)
    /\ link = "up" => spc = "transport"

\* Behind a request nothing is under way but itself or its answer.
AnswerTurn ==
  cpc \in {"await_reply", "await_pong"} =>
    /\ Len(sent) = Len(shown) + 1
    /\ OfType(c2s, Awaited) /\ OfType(s2c, Awaited)
    /\ c2s = <<>> /\ s2c = <<>> => spc \in {"ok", "err"}
    /\ s2c # <<>> /\ link = "up" => spc = "transport"

\* The interactive session ends with a Close frame or without one.
CloseTurn ==
  config.client.mode = "repl" =>
    /\ cpc # "send"
    /\ cpc = "ok" /\ link = "up" =>
         \A i \in DOMAIN c2s : c2s[i].msg_type = "Close" /\ c2s[i].payload_len = 0

\* Requests are numbered, answers carry the number and the size of their request, and
\* an answer is shown while it is the last request that is waited for.
Numbered ==
  /\ \A i \in DOMAIN sent : sent[i][2].text \in {"message", "PING"} /\ sent[i][2].id = i
  /\ \A i \in DOMAIN replies : replies[i] = AnswerTo(handled[i][1], handled[i][2])
  /\ \A i \in DOMAIN shown : shown[i].asked = i

\* The bytes of a queue that holds one frame at most.
Bytes(queue) == IF queue = <<>> THEN 0 ELSE WireBytes(Head(queue))

\* What one end has counted as sent the other has counted as received, but for what is
\* under way.
Balanced ==
  /\ cmetrics.bytes_sent = smetrics.bytes_received + Bytes(c2s)
  /\ smetrics.bytes_sent = cmetrics.bytes_received + Bytes(s2c)
  /\ cmetrics.frames_sent = smetrics.frames_received + Len(c2s)
  /\ smetrics.frames_sent = cmetrics.frames_received + Len(s2c)

BooksAgree ==
  /\ config.client.mode = "repl" /\ link = "up"
  /\ \/ spc = "transport" /\ cpc \in {"idle", "await_reply", "await_pong", "ok"}
     \/ spc = "ok" /\ cpc = "ok"
  => Balanced

Turns ==
  /\ OneFrame
  /\ HandshakeTurns
  /\ PromptTurn
  /\ AnswerTurn
  /\ CloseTurn
  /\ Numbered
  /\ BooksAgree

-----------------------------------------------------------------------------
(* Facts about queues and counters *)

\* What is on the link are frames.
LEMMA QueueTypes ==
  ASSUME IInv
  PROVE  c2s \in Seq(Frames) /\ s2c \in Seq(Frames)
  <1>1. FromClient \subseteq Frames /\ FromServer \subseteq Frames
    BY DEF FromClient, FromServer
  <1>. QED
    BY <1>1, SeqMonotonic DEF IInv, QueuesGenuine

\* A queue of no frame.
LEMMA NoFrame ==
  ASSUME NEW S, NEW q \in Seq(S)
  PROVE  Len(q) \in Nat /\ (q = <<>> <=> Len(q) = 0)
  BY EmptySeq, LenProperties

\* A queue of one frame.
LEMMA SingleFrame ==
  ASSUME NEW S, NEW q \in Seq(S), Len(q) = 1
  PROVE  Tail(q) = <<>> /\ Head(q) = q[1] /\ Head(q) \in S /\ DOMAIN q = {1}
  <1>1. q # <<>>
    BY NoFrame
  <1>2. Head(q) \in S /\ Tail(q) \in Seq(S) /\ Len(Tail(q)) = 0
    BY <1>1, HeadTailProperties
  <1>3. Tail(q) = <<>>
    BY <1>2, EmptySeq
  <1>4. DOMAIN q = {1}
    BY LenProperties
  <1>. QED
    BY <1>2, <1>3, <1>4

\* The frame read from a queue is its only one, and the other direction is silent.
LEMMA OnlyFrame ==
  ASSUME IInv, OneFrame
  PROVE  /\ c2s # <<>> => /\ Tail(c2s) = <<>> /\ s2c = <<>> /\ Len(c2s) = 1
                          /\ Head(c2s) = c2s[1] /\ Head(c2s) \in Frames /\ DOMAIN c2s = {1}
         /\ s2c # <<>> => /\ Tail(s2c) = <<>> /\ c2s = <<>> /\ Len(s2c) = 1
                          /\ Head(s2c) = s2c[1] /\ Head(s2c) \in Frames /\ DOMAIN s2c = {1}
  <1>1. /\ Len(c2s) \in Nat /\ (c2s = <<>> <=> Len(c2s) = 0)
        /\ Len(s2c) \in Nat /\ (s2c = <<>> <=> Len(s2c) = 0)
    BY QueueTypes, NoFrame
  <1>2. \A m, n \in Nat : m + n <= 1 => (m # 0 => m = 1 /\ n = 0) /\ (n # 0 => n = 1 /\ m = 0)
    OBVIOUS
  <1>3. /\ Len(c2s) # 0 => Len(c2s) = 1 /\ Len(s2c) = 0
        /\ Len(s2c) # 0 => Len(s2c) = 1 /\ Len(c2s) = 0
    BY <1>1, <1>2 DEF OneFrame
  <1>4. /\ c2s # <<>> => Len(c2s) = 1 /\ s2c = <<>>
        /\ s2c # <<>> => Len(s2c) = 1 /\ c2s = <<>>
    BY <1>1, <1>3, Zenon
  <1>5. ASSUME Len(c2s) = 1
        PROVE  Tail(c2s) = <<>> /\ Head(c2s) = c2s[1] /\ Head(c2s) \in Frames /\ DOMAIN c2s = {1}
    BY <1>5, QueueTypes, SingleFrame
  <1>6. ASSUME Len(s2c) = 1
        PROVE  Tail(s2c) = <<>> /\ Head(s2c) = s2c[1] /\ Head(s2c) \in Frames /\ DOMAIN s2c = {1}
    BY <1>6, QueueTypes, SingleFrame
  <1>. QED
    BY <1>4, <1>5, <1>6, Zenon

\* The frame written to an empty queue is its only one.
LEMMA OneWritten ==
  ASSUME NEW f
  PROVE  /\ Append(<<>>, f) # <<>> /\ Len(Append(<<>>, f)) = 1 /\ Head(Append(<<>>, f)) = f
         /\ DOMAIN Append(<<>>, f) = {1} /\ Append(<<>>, f)[1] = f
         /\ Append(<<>>, f) = <<f>>
  OBVIOUS

\* One frame at most is under way after a step that leaves these queues.
LEMMA FewFrames ==
  ASSUME \/ c2s' = <<>> /\ s2c' = <<>>
         \/ c2s' = <<>> /\ \E f : s2c' = <<f>>
         \/ s2c' = <<>> /\ \E f : c2s' = <<f>>
  PROVE  OneFrame'
  <1>1. CASE c2s' = <<>> /\ s2c' = <<>>
    BY <1>1 DEF OneFrame
  <1>2. CASE c2s' = <<>> /\ \E f : s2c' = <<f>>
    BY <1>2 DEF OneFrame
  <1>3. CASE s2c' = <<>> /\ \E f : c2s' = <<f>>
    BY <1>3 DEF OneFrame
  <1>. QED
    BY <1>1, <1>2, <1>3

\* What record_tx and record_rx count.
LEMMA TrafficAdds ==
  ASSUME NEW m \in Traffic, NEW n \in Nat
  PROVE  /\ record_tx(m, n).bytes_sent = m.bytes_sent + n
         /\ record_tx(m, n).frames_sent = m.frames_sent + 1
         /\ record_tx(m, n).bytes_received = m.bytes_received
         /\ record_tx(m, n).frames_received = m.frames_received
         /\ record_rx(m, n).bytes_received = m.bytes_received + n
         /\ record_rx(m, n).frames_received = m.frames_received + 1
         /\ record_rx(m, n).bytes_sent = m.bytes_sent
         /\ record_rx(m, n).frames_sent = m.frames_sent
  BY DEF Traffic, record_tx, record_rx

\* The counters of a session's metrics are natural numbers, one by one.
LEMMA CountsAreNat ==
  ASSUME NEW m \in Traffic
  PROVE  /\ m.bytes_sent \in Nat /\ m.bytes_received \in Nat
         /\ m.frames_sent \in Nat /\ m.frames_received \in Nat
  BY DEF Traffic

-----------------------------------------------------------------------------
(* The beginning, and steps after which an end is gone *)

\* Before the connection nobody has a turn.
LEMMA InitTurns == Init => Turns
  <1>. SUFFICES ASSUME Init PROVE Turns
    OBVIOUS
  <1>. USE DEF Init
  <1>1. OneFrame /\ HandshakeTurns /\ PromptTurn /\ AnswerTurn /\ CloseTurn /\ BooksAgree
    BY DEF OneFrame, HandshakeTurns, PromptTurn, AnswerTurn, CloseTurn, BooksAgree
  <1>2. Numbered
    BY DEF Numbered
  <1>. QED
    BY <1>1, <1>2 DEF Turns

\* While nothing is asked, handled, answered or shown the numbers stay.
LEMMA NumberedStays ==
  ASSUME Numbered, UNCHANGED <<sent, handled, replies, shown>>
  PROVE  Numbered'
  BY DEF Numbered

\* The client stops: nobody takes turns any more.
LEMMA ClientGone ==
  ASSUME Turns, cpc' \in {"err", "timeout"}, OneFrame', Numbered',
         UNCHANGED <<config, spc, smetrics, link>>,
         link = "none" => UNCHANGED <<c2s, s2c>>
  PROVE  Turns'
  <1>1. HandshakeTurns'
    BY DEF Turns, HandshakeTurns, Handshaking
  <1>2. PromptTurn' /\ AnswerTurn' /\ CloseTurn' /\ BooksAgree'
    BY DEF PromptTurn, AnswerTurn, CloseTurn, BooksAgree
  <1>. QED
    BY <1>1, <1>2 DEF Turns

-----------------------------------------------------------------------------
(* The turns of the client *)

\* Nobody but the server answers the client, whatever either of them does.
LEMMA NextNobodyElse ==
  ASSUME Tcp, IInv, NobodyElse, [Next]_vars
  PROVE  NobodyElse'
  <1>1. ASSUME UNCHANGED <<srx, s2c, ctx>> PROVE NobodyElse'
    BY <1>1 DEF NobodyElse
  <1>2. CASE ClientReadsResp \/ ClientReadsOnlyReply \/ ClientReadsReply
    <2>1. s2c # <<>> /\ srx' = srx
      BY <1>2 DEF ClientReadsResp, ClientReadsOnlyReply, ClientReadsReply, Readable, serverVars
    <2>. QED
      BY <2>1 DEF NobodyElse
  <1>3. CASE ClientSendsMessage \/ UserSendsText \/ UserPings
    <2>1. cpc \in {"send", "idle"} /\ UNCHANGED <<srx, s2c>>
      BY <1>3 DEF ClientSendsMessage, UserSendsText, UserPings, ClientSendsData, serverVars
    <2>2. ctx # NoCipher
      BY <2>1, KeysDiffer DEF IInv, ClientKeys, Handshaking, TransportKeySet, NoCipher, new, with_nonce
    <2>. QED
      BY <2>1, <2>2 DEF NobodyElse
  <1>4. CASE ServerReadsInit
    <2>1. \/ UNCHANGED <<srx, s2c, ctx>>
          \/ \E key, hash : srx'.key = <<key, hash, "client">>
      BY <1>4 DEF ServerReadsInit, TransportKeys, derive_session_keys, new, with_nonce, clientVars
    <2>. QED
      BY <1>1, <2>1 DEF NobodyElse
  <1>5. CASE ServerReads
    <2>1. srx.key # <<>>
      BY <1>5, KeysDiffer DEF ServerReads, IInv, ServerKeys, TransportKeySet
    <2>2. srx' = srx \/ srx' = decrypt(srx)
      BY <1>5 DEF ServerReads, ServerAnswers
    <2>3. decrypt(srx).key = srx.key
      BY DEF decrypt, IInv, Types, CipherStates
    <2>. QED
      BY <2>1, <2>2, <2>3 DEF NobodyElse
  <1>6. CASE \/ ClientConnect \/ ClientNotConnected \/ ClientSendsInit \/ ClientBreaks
             \/ UserQuits \/ UserEndsInput \/ ClientTimesOut \/ ServerAccepts \/ ServerBreaks
             \/ UNCHANGED vars
    BY <1>1, <1>6 DEF ClientConnect, ClientNotConnected, ClientSendsInit, ClientBreaks, UserQuits,
       UserEndsInput, ClientTimesOut, ServerAccepts, ServerBreaks, vars, clientVars, serverVars,
       linkVars
  <1>7. CASE Fault
    <2>1. UNCHANGED <<srx, ctx>> /\ (LinkFails \/ ConnectFails)
      BY <1>7 DEF Fault, FramesDisturbed, OtherAnswers, Tcp, serverVars
    <2>2. s2c' = s2c
      BY <2>1 DEF LinkFails, ConnectFails, linkVars
    <2>. QED
      BY <1>1, <2>1, <2>2
  <1>. QED
    BY <1>2, <1>3, <1>4, <1>5, <1>6, <1>7 DEF Next, Client, User, Server

\* TcpStream::connect: a link, and nothing on it.
LEMMA ConnectTurn ==
  ASSUME IInv, Turns, ClientConnect
  PROVE  Turns'
  <1>1. /\ UNCHANGED <<config, cmetrics, sent, shown, spc, srx, smetrics, handled, replies>>
        /\ UNCHANGED <<c2s, s2c>>
        /\ cpc = "start" /\ cpc' = "connected" /\ link' = "up"
    BY DEF ClientConnect, serverVars
  <1>2. /\ spc = "none" /\ c2s = <<>> /\ s2c = <<>> /\ srx = NoCipher
        /\ cmetrics = NoTraffic /\ smetrics = NoTraffic
    BY <1>1 DEF IInv, ServerKeys, Turns, HandshakeTurns, Handshaking
  <1>3. OneFrame' /\ Numbered'
    BY <1>1, NumberedStays DEF Turns, OneFrame
  <1>4. HandshakeTurns'
    BY <1>1, <1>2 DEF HandshakeTurns, NoCipher
  <1>5. PromptTurn' /\ AnswerTurn' /\ CloseTurn' /\ BooksAgree'
    BY <1>1 DEF PromptTurn, AnswerTurn, CloseTurn, BooksAgree
  <1>. QED
    BY <1>3, <1>4, <1>5 DEF Turns

\* The HandshakeInit: the first frame on an empty link, or none.
LEMMA SendsInitTurn ==
  ASSUME IInv, NobodyElse, Turns, ClientSendsInit
  PROVE  Turns'
  <1>1. /\ UNCHANGED <<config, cmetrics, sent, shown, spc, srx, smetrics, handled, replies>>
        /\ UNCHANGED <<link, s2c>>
        /\ cpc = "connected"
    BY DEF ClientSendsInit, serverVars
  <1>2. c2s = <<>> /\ s2c = <<>> /\ srx = NoCipher /\ cmetrics = NoTraffic
    BY <1>1 DEF Turns, HandshakeTurns, Handshaking, NobodyElse, NoCipher, new, with_nonce
  <1>3. \/ cpc' = "err" /\ c2s' = c2s
        \/ cpc' = "await_resp" /\ \E f : c2s' = <<f>>
    <2>1. \E f, ok : /\ ok \in BOOLEAN /\ c2s' = Written(c2s, f, ok)
                     /\ cpc' = IF ok THEN "await_resp" ELSE "err"
      BY DEF ClientSendsInit, WriteResults
    <2>. QED
      BY <1>2, <2>1, OneWritten DEF Written
  <1>4. OneFrame' /\ Numbered'
    BY <1>1, <1>2, <1>3, FewFrames, NumberedStays DEF Turns
  <1>5. CASE cpc' = "err" /\ c2s' = c2s
    BY <1>1, <1>4, <1>5, ClientGone
  <1>6. CASE cpc' = "await_resp" /\ \E f : c2s' = <<f>>
    <2>1. c2s' # <<>> /\ link # "none"
      BY <1>1, <1>6 DEF IInv, ClientSendsInit, Turns, HandshakeTurns, Handshaking
    <2>2. HandshakeTurns'
      BY <1>1, <1>2, <1>6, <2>1 DEF Turns, HandshakeTurns, NoCipher
    <2>3. PromptTurn' /\ AnswerTurn' /\ CloseTurn' /\ BooksAgree'
      BY <1>6 DEF PromptTurn, AnswerTurn, CloseTurn, BooksAgree
    <2>. QED
      BY <1>4, <2>2, <2>3 DEF Turns
  <1>. QED
    BY <1>3, <1>5, <1>6

\* The response ends the handshake of the client, with nothing else under way and
\* nothing counted.
LEMMA ReadsRespTurn ==
  ASSUME IInv, NobodyElse, Turns, ClientReadsResp
  PROVE  Turns'
  <1>1. /\ UNCHANGED <<config, cmetrics, sent, shown, spc, srx, smetrics, handled, replies, link, c2s>>
        /\ cpc = "await_resp" /\ s2c # <<>> /\ s2c' = Tail(s2c)
    BY DEF ClientReadsResp, Readable, serverVars
  <1>2. c2s = <<>> /\ s2c' = <<>> /\ link # "none"
    BY <1>1, OnlyFrame DEF Turns, HandshakeTurns
  <1>3. OneFrame' /\ Numbered'
    BY <1>1, <1>2, NumberedStays DEF OneFrame, Turns
  <1>4. CASE cpc' = "err"
    BY <1>1, <1>2, <1>3, <1>4, ClientGone
  <1>5. CASE cpc' = IF config.client.mode = "repl" THEN "idle" ELSE "send"
    <2>1. srx.key # <<>>
      BY <1>1 DEF NobodyElse
    <2>2. smetrics = NoTraffic /\ cmetrics = NoTraffic /\ (link = "up" => spc = "transport")
      BY <1>1, <2>1 DEF Turns, HandshakeTurns, Handshaking, NoCipher, new, with_nonce
    <2>3. sent = <<>> /\ shown = <<>>
      BY <1>1 DEF IInv, Types, ClientKeys, Handshaking, CountersAgree, NoCipher, new, with_nonce
    <2>4. HandshakeTurns'
      BY <1>1, <1>2, <1>5 DEF Turns, HandshakeTurns, Handshaking
    <2>5. PromptTurn' /\ AnswerTurn' /\ CloseTurn'
      BY <1>1, <1>2, <1>5, <2>2, <2>3 DEF PromptTurn, AnswerTurn, CloseTurn
    <2>6. BooksAgree'
      <3>1. /\ Bytes(<<>>) = 0 /\ Len(<<>>) = 0
            /\ NoTraffic.bytes_sent = 0 /\ NoTraffic.bytes_received = 0
            /\ NoTraffic.frames_sent = 0 /\ NoTraffic.frames_received = 0
        BY DEF Bytes, NoTraffic
      <3>2. /\ c2s' = <<>> /\ s2c' = <<>>
            /\ cmetrics' = cmetrics /\ smetrics' = smetrics
            /\ link' = link /\ spc' = spc
        BY <1>1, <1>2
      <3>3. ASSUME link = "up" PROVE Balanced'
        BY <2>2, <3>1, <3>2, <3>3 DEF Balanced, Bytes
      <3>. QED
        BY <3>2, <3>3 DEF BooksAgree
    <2>. QED
      BY <1>3, <2>4, <2>5, <2>6 DEF Turns
  <1>. QED
    BY <1>4, <1>5 DEF ClientReadsResp

\* A client at the prompt, or about to send its only message, is connected.
LEMMA AtPrompt ==
  ASSUME IInv, NobodyElse, Turns, cpc \in {"send", "idle"}
  PROVE  link # "none"
  <1>1. ctx # NoCipher
    BY KeysDiffer DEF IInv, ClientKeys, Handshaking, TransportKeySet, NoCipher, new, with_nonce
  <1>2. srx # NoCipher
    BY <1>1 DEF NobodyElse, NoCipher, new, with_nonce
  <1>. QED
    BY <1>2 DEF IInv, ServerKeys, Turns, HandshakeTurns

\* A request: nothing else is under way, and it is the one that will be waited for.
LEMMA SendsTurn ==
  ASSUME IInv, NobodyElse, Turns, NEW msg_type \in {"DataPayload", "Heartbeat"}, NEW plaintext \in Plaintexts,
         plaintext.text \in {"message", "PING"}, plaintext.id = Len(sent) + 1, NEW next,
         next = IF msg_type = "DataPayload" THEN "await_reply" ELSE "await_pong",
         cpc \in {"send", "idle"}, ClientSends(msg_type, AADOf(msg_type), plaintext, next),
         UNCHANGED <<config, crx, shown, serverVars, link, s2c, faults>>
  PROVE  Turns'
  <1>. DEFINE c == seal(ctx, AADOf(msg_type), plaintext)
              frame == SealedFrame(msg_type, c)
  <1>1. UNCHANGED <<config, shown, spc, srx, smetrics, handled, replies, link, s2c>>
    BY DEF serverVars
  <1>2. /\ c2s = <<>> /\ s2c = <<>> /\ Len(shown) = Len(sent) /\ link # "none"
        /\ link = "up" => spc = "transport"
    <2>1. link # "none"
      BY AtPrompt
    <2>. QED
      BY <2>1 DEF Turns, PromptTurn
  <1>3. CASE ~encrypts(ctx)
    <2>1. UNCHANGED <<c2s, sent>> /\ cpc' = "err"
      BY <1>3 DEF ClientSends
    <2>2. OneFrame' /\ Numbered'
      BY <1>1, <2>1, NumberedStays DEF OneFrame, Turns
    <2>. QED
      BY <1>1, <1>2, <2>1, <2>2, ClientGone
  <1>4. CASE encrypts(ctx)
    <2>1. PICK ok \in WriteResults(ServerDone) :
            c2s' = Written(c2s, frame, ok) /\ cpc' = IF ok THEN next ELSE "err"
      BY <1>4 DEF ClientSends
    <2>2. ok \in BOOLEAN /\ (link = "up" => ok)
      BY <1>2, <2>1 DEF WriteResults, ServerDone
    <2>3. /\ cmetrics' = Counted(record_tx(cmetrics, WireBytes(frame)))
          /\ sent' = Append(sent, <<msg_type, plaintext>>)
      BY <1>4 DEF ClientSends
    <2>4. /\ Len(sent') = Len(sent) + 1 /\ Len(sent) \in Nat
          /\ sent'[Len(sent) + 1] = <<msg_type, plaintext>>
          /\ \A i \in DOMAIN sent : sent'[i] = sent[i]
          /\ DOMAIN sent' = DOMAIN sent \cup {Len(sent) + 1}
      <3>1. <<msg_type, plaintext>> \in Requests
        BY DEF Requests
      <3>. QED
        BY <2>3, <3>1, AppendExtends DEF IInv, Types, Extends
    <2>5. c \in Ciphertexts
      <3>1. AADOf(msg_type) \in {DataAAD, HeartbeatAAD} /\ ctx \in CipherStates
        BY DEF AADOf, IInv, Types
      <3>. QED
        BY <3>1 DEF CipherStates, seal, Ciphertext, Ciphertexts, Keys, TransportKeySet
    <2>. HIDE DEF c
    <2>6. frame \in Frames /\ frame.msg_type = msg_type
      <3>1. frame \in Frames
        BY <2>5, FramesBuilt DEF MessageTypes, Ephemerals
      <3>. QED
        BY <3>1 DEF SealedFrame, Frame
    <2>. HIDE DEF frame
    <2>7. WireBytes(frame) \in Nat
      BY <2>6, WireBytesIsNat
    <2>8. Numbered'
      <3>1. \A i \in DOMAIN sent' : sent'[i][2].text \in {"message", "PING"} /\ sent'[i][2].id = i
        BY <2>4 DEF Turns, Numbered
      <3>. QED
        BY <1>1, <3>1 DEF Turns, Numbered
    <2>9. CASE ~ok
      <3>1. c2s' = c2s /\ cpc' = "err"
        BY <2>1, <2>9 DEF Written
      <3>2. OneFrame'
        BY <1>1, <3>1 DEF OneFrame, Turns
      <3>. QED
        BY <1>1, <1>2, <2>8, <3>1, <3>2, ClientGone
    <2>10. CASE ok
      <3>1. c2s' = <<frame>> /\ s2c' = <<>> /\ cpc' = next
        BY <1>1, <1>2, <2>1, <2>10, OneWritten DEF Written
      <3>2. OneFrame'
        BY <3>1 DEF OneFrame
      <3>3. HandshakeTurns'
        BY <1>1, <1>2, <3>1 DEF HandshakeTurns, Turns, Handshaking
      <3>4. AnswerTurn'
        <4>1. Awaited' = msg_type
          BY <3>1 DEF Awaited
        <4>2. Len(sent') = Len(shown') + 1
          BY <1>1, <1>2, <2>4
        <4>3. c2s' # <<>> /\ OfType(c2s', msg_type) /\ OfType(s2c', msg_type)
          BY <2>6, <3>1 DEF OfType
        <4>. QED
          BY <3>1, <4>1, <4>2, <4>3 DEF AnswerTurn, OfType
      <3>5. PromptTurn' /\ CloseTurn'
        BY <3>1 DEF PromptTurn, CloseTurn
      <3>6. BooksAgree'
        <4>. SUFFICES ASSUME config.client.mode = "repl", link = "up" PROVE Balanced'
          BY <1>1 DEF BooksAgree
        <4>1. cpc = "idle" /\ Balanced
          BY <1>2 DEF Turns, CloseTurn, BooksAgree
        <4>2. cmetrics' = record_tx(cmetrics, WireBytes(frame))
          BY <2>3 DEF Counted
        <4>3. cmetrics \in Traffic /\ smetrics \in Traffic
          BY DEF IInv, Types
        <4>4. /\ cmetrics'.bytes_sent = cmetrics.bytes_sent + WireBytes(frame)
              /\ cmetrics'.frames_sent = cmetrics.frames_sent + 1
              /\ cmetrics'.bytes_received = cmetrics.bytes_received
              /\ cmetrics'.frames_received = cmetrics.frames_received
          BY <2>7, <4>2, <4>3, TrafficAdds
        <4>5. /\ cmetrics.bytes_sent = smetrics.bytes_received
              /\ smetrics.bytes_sent = cmetrics.bytes_received
              /\ cmetrics.frames_sent = smetrics.frames_received
              /\ smetrics.frames_sent = cmetrics.frames_received
          BY <1>2, <4>1, <4>3, CountsAreNat DEF Balanced, Bytes
        <4>6. Head(c2s') = frame /\ c2s' # <<>> /\ Len(c2s') = 1 /\ Len(s2c') = 0
          BY <3>1
        <4>. QED
          BY <1>1, <2>7, <3>1, <4>3, <4>4, <4>5, <4>6, CountsAreNat DEF Balanced, Bytes
      <3>. QED
        BY <2>8, <3>2, <3>3, <3>4, <3>5, <3>6 DEF Turns
    <2>. QED
      BY <2>2, <2>9, <2>10
  <1>. QED
    BY <1>3, <1>4

\* The message of send_secure_message, a line of text and /ping hand the turn to the
\* server.
LEMMA RequestTurn ==
  ASSUME IInv, NobodyElse, Turns, ClientSendsMessage \/ UserSendsText \/ UserPings
  PROVE  Turns'
  <1>1. ASSUME NEW pc \in {"send", "idle"}, NEW size \in MessageSizes, ClientSendsData(pc, size)
        PROVE  Turns'
    <2>. DEFINE p == Plaintext("message", Len(sent) + 1, size)
    <2>1. p \in Plaintexts /\ p.text = "message" /\ p.id = Len(sent) + 1
      <3>1. Len(sent) + 1 \in Nat /\ size \in Nat
        BY TunnelAssumption DEF IInv, Types
      <3>. QED
        BY <3>1 DEF Plaintext, Plaintexts, Texts
    <2>2. AADOf("DataPayload") = DataAAD
      BY DEF AADOf
    <2>3. cpc = pc /\ ClientSends("DataPayload", DataAAD, p, "await_reply")
      BY <1>1 DEF ClientSendsData
    <2>4. UNCHANGED <<config, crx, shown, serverVars, link, s2c, faults>>
      BY <1>1 DEF ClientSendsData
    <2>. HIDE DEF p
    <2>. QED
      BY <2>1, <2>2, <2>3, <2>4, SendsTurn
  <1>2. ASSUME UserPings PROVE Turns'
    <2>. DEFINE p == Plaintext("PING", Len(sent) + 1, 4)
    <2>1. p \in Plaintexts /\ p.text = "PING" /\ p.id = Len(sent) + 1
      <3>1. Len(sent) + 1 \in Nat
        BY DEF IInv, Types
      <3>. QED
        BY <3>1 DEF Plaintext, Plaintexts, Texts
    <2>2. AADOf("Heartbeat") = HeartbeatAAD
      BY DEF AADOf
    <2>3. cpc = "idle" /\ ClientSends("Heartbeat", HeartbeatAAD, p, "await_pong")
      BY <1>2 DEF UserPings
    <2>4. UNCHANGED <<config, crx, shown, serverVars, link, s2c, faults>>
      BY <1>2 DEF UserPings
    <2>. HIDE DEF p
    <2>. QED
      BY <2>1, <2>2, <2>3, <2>4, SendsTurn
  <1>. QED
    BY <1>1, <1>2 DEF ClientSendsMessage, UserSendsText

\* The client stops without a frame: no connection, the end of the input, a failed read
\* or the timeout.
LEMMA ClientEndsTurn ==
  ASSUME IInv, Turns, ClientNotConnected \/ UserEndsInput \/ ClientBreaks \/ ClientTimesOut
  PROVE  Turns'
  <1>1. /\ UNCHANGED <<config, cmetrics, sent, shown, spc, smetrics, handled, replies, link>>
        /\ UNCHANGED <<c2s, s2c>>
    BY DEF ClientNotConnected, UserEndsInput, ClientBreaks, ClientTimesOut, serverVars, linkVars
  <1>2. OneFrame' /\ Numbered'
    BY <1>1, NumberedStays DEF OneFrame, Turns
  <1>3. CASE cpc' \in {"err", "timeout"}
    BY <1>1, <1>2, <1>3, ClientGone
  <1>4. CASE cpc = "idle" /\ cpc' = "ok"
    <2>1. cpc = "idle" /\ cpc' = "ok"
      BY <1>4
    <2>2. c2s = <<>> /\ (link = "up" => spc = "transport")
      BY <2>1 DEF Turns, PromptTurn
    <2>3. HandshakeTurns' /\ PromptTurn' /\ AnswerTurn'
      BY <1>1, <2>1, <2>2 DEF Turns, HandshakeTurns, PromptTurn, AnswerTurn, Handshaking
    <2>4. CloseTurn'
      BY <1>1, <2>1, <2>2 DEF CloseTurn
    <2>5. BooksAgree'
      BY <1>1, <2>1, <2>2 DEF Turns, BooksAgree, Balanced, Bytes
    <2>. QED
      BY <1>2, <2>3, <2>4, <2>5 DEF Turns
  <1>. QED
    BY <1>3, <1>4 DEF ClientNotConnected, UserEndsInput, ClientBreaks, ClientTimesOut

\* What cmetrics counts for a frame that is the only one under way.
LEMMA ClientCountsSent ==
  ASSUME IInv, Balanced, c2s = <<>>, NEW f \in Frames, c2s' = <<f>>,
         cmetrics' = record_tx(cmetrics, WireBytes(f)), UNCHANGED <<smetrics, s2c>>
  PROVE  Balanced'
  <1>1. cmetrics \in Traffic /\ smetrics \in Traffic /\ WireBytes(f) \in Nat
    BY WireBytesIsNat DEF IInv, Types
  <1>2. /\ cmetrics'.bytes_sent = cmetrics.bytes_sent + WireBytes(f)
        /\ cmetrics'.frames_sent = cmetrics.frames_sent + 1
        /\ cmetrics'.bytes_received = cmetrics.bytes_received
        /\ cmetrics'.frames_received = cmetrics.frames_received
    BY <1>1, TrafficAdds
  <1>3. /\ cmetrics.bytes_sent = smetrics.bytes_received
        /\ cmetrics.frames_sent = smetrics.frames_received
    BY <1>1, CountsAreNat DEF Balanced, Bytes
  <1>4. Head(c2s') = f /\ c2s' # <<>> /\ Len(c2s') = 1
    OBVIOUS
  <1>. QED
    BY <1>1, <1>2, <1>3, <1>4, CountsAreNat DEF Balanced, Bytes

\* /quit and exit: the Close frame is the only one under way, and counted.
LEMMA QuitsTurn ==
  ASSUME IInv, NobodyElse, Turns, UserQuits
  PROVE  Turns'
  <1>. DEFINE close == CloseFrame(ctx.nonce)
  <1>1. /\ UNCHANGED <<config, sent, shown, spc, smetrics, handled, replies, link, s2c>>
        /\ cpc = "idle" /\ cpc' = "ok"
        /\ cmetrics' = record_tx(cmetrics, WireBytes(close))
    BY DEF UserQuits, serverVars
  <1>2. c2s = <<>> /\ s2c = <<>> /\ (link = "up" => spc = "transport")
    BY <1>1 DEF Turns, PromptTurn
  <1>3. PICK ok \in WriteResults(ServerDone) : c2s' = Written(c2s, close, ok)
    BY DEF UserQuits
  <1>4. close \in Frames /\ close.msg_type = "Close" /\ close.payload_len = 0
    <2>1. close \in Frames
      BY FramesBuilt DEF IInv, Types, CipherStates
    <2>. QED
      BY <2>1 DEF CloseFrame, Frame
  <1>. HIDE DEF close
  <1>5. c2s' \in {<<>>, <<close>>} /\ (link = "up" => c2s' = <<close>>)
    BY <1>2, <1>3, OneWritten DEF Written, WriteResults, ServerDone
  <1>6. OneFrame' /\ Numbered'
    <2>1. OneFrame'
      BY <1>1, <1>2, <1>5, FewFrames
    <2>. QED
      BY <1>1, <2>1, NumberedStays DEF Turns
  <1>7. HandshakeTurns'
    <2>1. link # "none"
      BY <1>1, AtPrompt
    <2>. QED
      BY <1>1, <2>1 DEF Turns, HandshakeTurns, Handshaking
  <1>8. PromptTurn' /\ AnswerTurn'
    BY <1>1 DEF PromptTurn, AnswerTurn
  <1>9. CloseTurn'
    BY <1>1, <1>4, <1>5 DEF CloseTurn
  <1>10. BooksAgree'
    <2>. SUFFICES ASSUME config.client.mode = "repl", link = "up" PROVE Balanced'
      BY <1>1 DEF BooksAgree
    <2>1. Balanced
      BY <1>1, <1>2 DEF Turns, BooksAgree
    <2>. QED
      BY <1>1, <1>2, <1>4, <1>5, <2>1, ClientCountsSent
  <1>. QED
    BY <1>6, <1>7, <1>8, <1>9, <1>10 DEF Turns

\* The answer that is shown answers the last request.
LEMMA ShowsLast ==
  ASSUME IInv, Turns, cpc \in {"await_reply", "await_pong"}, NEW f, NEW aad, ClientShows(f, aad),
         UNCHANGED <<sent, handled, replies>>
  PROVE  Len(shown') = Len(sent) /\ Numbered'
  <1>. DEFINE a == [asked |-> Len(sent), plaintext |-> f.ciphertext.plaintext]
  <1>1. Len(sent) = Len(shown) + 1
    BY DEF Turns, AnswerTurn
  <1>2. shown' = Append(shown, a) /\ a.asked = Len(sent)
    BY DEF ClientShows
  <1>. HIDE DEF a
  <1>3. /\ Len(shown') = Len(shown) + 1 /\ shown'[Len(shown) + 1] = a
        /\ DOMAIN shown' = DOMAIN shown \cup {Len(shown) + 1}
        /\ \A i \in DOMAIN shown : shown'[i] = shown[i]
    BY <1>2 DEF IInv, Types
  <1>4. \A i \in DOMAIN shown' : shown'[i].asked = i
    BY <1>1, <1>2, <1>3 DEF Turns, Numbered
  <1>. QED
    BY <1>1, <1>3, <1>4 DEF Turns, Numbered

\* send_secure_message reads its answer and closes.
LEMMA ReadsOnlyReplyTurn ==
  ASSUME IInv, Turns, ClientReadsOnlyReply
  PROVE  Turns'
  <1>. DEFINE f == Head(s2c)
  <1>1. /\ UNCHANGED <<config, cmetrics, sent, spc, smetrics, handled, replies, link>>
        /\ cpc = "await_reply" /\ config.client.mode = "oneshot"
        /\ s2c # <<>> /\ s2c' = Tail(s2c)
    BY DEF ClientReadsOnlyReply, Readable, serverVars
  <1>2. c2s = <<>> /\ s2c' = <<>> /\ link # "none"
    BY <1>1, OnlyFrame DEF Turns, HandshakeTurns
  <1>3. CASE cpc' = "err" /\ UNCHANGED <<shown, c2s>>
    <2>1. OneFrame' /\ Numbered'
      BY <1>1, <1>2, <1>3, NumberedStays DEF OneFrame, Turns
    <2>. QED
      BY <1>1, <1>2, <1>3, <2>1, ClientGone
  <1>4. CASE /\ ClientShows(f, DataAAD) /\ cpc' = "ok"
             /\ \E ok \in BOOLEAN : c2s' = Written(c2s, CloseFrame(ctx.nonce), ok)
    <2>1. Numbered'
      BY <1>1, <1>4, ShowsLast
    <2>2. c2s' \in {<<>>, <<CloseFrame(ctx.nonce)>>}
      BY <1>2, <1>4, OneWritten DEF Written
    <2>3. OneFrame'
      BY <1>2, <2>2, FewFrames
    <2>4. HandshakeTurns'
      BY <1>1, <1>2, <1>4 DEF Turns, HandshakeTurns, Handshaking
    <2>5. PromptTurn' /\ AnswerTurn' /\ CloseTurn' /\ BooksAgree'
      BY <1>1, <1>4 DEF PromptTurn, AnswerTurn, CloseTurn, BooksAgree
    <2>. QED
      BY <2>1, <2>3, <2>4, <2>5 DEF Turns
  <1>. QED
    BY <1>3, <1>4 DEF ClientReadsOnlyReply, WriteResults

\* The interactive session reads an answer of the type it waits for, counts it and is
\* back at the prompt, or ends.
LEMMA ReadsReplyTurn ==
  ASSUME IInv, Turns, ClientReadsReply
  PROVE  Turns'
  <1>. DEFINE f == Head(s2c)
              aad == IF cpc = "await_reply" THEN DataAAD ELSE HeartbeatAAD
  <1>1. /\ UNCHANGED <<config, sent, spc, smetrics, handled, replies, link, c2s>>
        /\ cpc \in {"await_reply", "await_pong"} /\ config.client.mode = "repl"
        /\ s2c # <<>> /\ s2c' = Tail(s2c)
    BY DEF ClientReadsReply, Readable, serverVars
  <1>2. /\ c2s = <<>> /\ s2c' = <<>> /\ link # "none" /\ Len(s2c) = 1
        /\ f = s2c[1] /\ f \in Frames /\ DOMAIN s2c = {1}
    BY <1>1, OnlyFrame DEF Turns, HandshakeTurns
  <1>3. f.msg_type = Awaited /\ (link = "up" => spc = "transport")
    BY <1>1, <1>2 DEF Turns, AnswerTurn, OfType
  <1>4. OneFrame'
    BY <1>1, <1>2, FewFrames
  <1>5. CASE cpc' = "err" /\ UNCHANGED shown
    <2>1. Numbered'
      BY <1>1, <1>5, NumberedStays DEF Turns
    <2>. QED
      BY <1>1, <1>2, <1>4, <1>5, <2>1, ClientGone
  <1>6. CASE /\ ClientShows(f, aad) /\ cpc' = "idle"
             /\ cmetrics' = record_rx(cmetrics, WireBytes(f))
    <2>1. Len(shown') = Len(sent) /\ Numbered'
      BY <1>1, <1>6, ShowsLast
    <2>2. PromptTurn'
      BY <1>1, <1>2, <1>3, <2>1 DEF PromptTurn
    <2>3. HandshakeTurns'
      BY <1>1, <1>2, <1>6 DEF Turns, HandshakeTurns, Handshaking
    <2>4. AnswerTurn' /\ CloseTurn'
      BY <1>1, <1>6 DEF AnswerTurn, CloseTurn
    <2>5. BooksAgree'
      <3>. SUFFICES ASSUME link = "up" PROVE Balanced'
        BY <1>1 DEF BooksAgree
      <3>1. Balanced
        BY <1>1, <1>3 DEF Turns, BooksAgree
      <3>2. cmetrics \in Traffic /\ smetrics \in Traffic /\ WireBytes(f) \in Nat
        BY <1>2, WireBytesIsNat DEF IInv, Types
      <3>. HIDE DEF f
      <3>3. /\ cmetrics'.bytes_received = cmetrics.bytes_received + WireBytes(f)
            /\ cmetrics'.frames_received = cmetrics.frames_received + 1
            /\ cmetrics'.bytes_sent = cmetrics.bytes_sent
            /\ cmetrics'.frames_sent = cmetrics.frames_sent
        BY <1>6, <3>2, TrafficAdds
      <3>4. /\ Bytes(s2c) = WireBytes(f) /\ Len(s2c) = 1
            /\ Bytes(<<>>) = 0 /\ Len(<<>>) = 0
        BY <1>1, <1>2 DEF Bytes, f
      <3>5. /\ smetrics.bytes_sent = cmetrics'.bytes_received
            /\ smetrics.frames_sent = cmetrics'.frames_received
        BY <3>1, <3>3, <3>4 DEF Balanced
      <3>6. /\ cmetrics'.bytes_sent = smetrics.bytes_received + Bytes(c2s)
            /\ cmetrics'.frames_sent = smetrics.frames_received + Len(c2s)
        BY <3>1, <3>3 DEF Balanced
      <3>7. /\ smetrics.bytes_sent = cmetrics'.bytes_received + 0
            /\ smetrics.frames_sent = cmetrics'.frames_received + 0
        BY <3>2, <3>3, <3>5, CountsAreNat
      <3>. QED
        BY <1>1, <1>2, <3>4, <3>6, <3>7 DEF Balanced, Bytes
    <2>. QED
      BY <1>4, <2>1, <2>2, <2>3, <2>4, <2>5 DEF Turns
  <1>. QED
    BY <1>3, <1>5, <1>6 DEF ClientReadsReply, Awaited

-----------------------------------------------------------------------------
(* The turns of the server *)

\* Without keys the server has written nothing, and the client has none.
LEMMA NoKeysYet ==
  ASSUME IInv, NobodyElse, spc \in {"none", "await_init"}
  PROVE  s2c = <<>> /\ srx = NoCipher /\ cpc \in Handshaking \cup {"err", "timeout"}
  <1>1. srx = NoCipher /\ srx.key = <<>>
    BY DEF IInv, ServerKeys, NoCipher, new, with_nonce
  <1>2. s2c = <<>> /\ ctx = NoCipher
    BY <1>1 DEF NobodyElse
  <1>3. ctx.key = <<>>
    BY <1>2 DEF NoCipher, new, with_nonce
  <1>. QED
    BY <1>1, <1>2, <1>3, KeysDiffer DEF IInv, ClientKeys, TransportKeySet

\* The accepted connection waits for the handshake, a refused one is closed.
LEMMA AcceptsTurn ==
  ASSUME IInv, NobodyElse, Turns, ServerAccepts
  PROVE  Turns'
  <1>1. /\ UNCHANGED <<config, cpc, cmetrics, sent, shown, srx, smetrics, handled, replies>>
        /\ UNCHANGED <<link, c2s, s2c>>
        /\ spc = "none" /\ link # "none" /\ spc' \in {"refused", "await_init"}
    BY DEF ServerAccepts, clientVars, linkVars
  <1>2. s2c = <<>> /\ srx = NoCipher /\ cpc \in Handshaking \cup {"err", "timeout"}
    BY <1>1, NoKeysYet
  <1>3. HandshakeTurns'
    BY <1>1, <1>2 DEF Turns, HandshakeTurns, NoCipher
  <1>4. PromptTurn' /\ AnswerTurn' /\ CloseTurn' /\ BooksAgree'
    BY <1>1, <1>2 DEF PromptTurn, AnswerTurn, CloseTurn, BooksAgree, Handshaking
  <1>5. OneFrame' /\ Numbered'
    BY <1>1, NumberedStays DEF Turns, OneFrame
  <1>. QED
    BY <1>3, <1>4, <1>5 DEF Turns

\* The server answers the HandshakeInit it has read or gives up.
LEMMA ReadsInitTurn ==
  ASSUME IInv, NobodyElse, Turns, ServerReadsInit
  PROVE  Turns'
  <1>1. /\ UNCHANGED <<config, cpc, cmetrics, sent, shown, smetrics, handled, replies, link>>
        /\ spc = "await_init" /\ c2s # <<>> /\ c2s' = Tail(c2s)
    BY DEF ServerReadsInit, Readable, clientVars
  <1>2. s2c = <<>> /\ cpc \in Handshaking \cup {"err", "timeout"}
    BY <1>1, NoKeysYet
  <1>3. c2s' = <<>> /\ link # "none" /\ smetrics = NoTraffic
    BY <1>1, OnlyFrame DEF Turns, HandshakeTurns
  <1>4. \/ s2c' = <<>> /\ spc' = "err"
        \/ spc' = "transport" /\ \E frame : s2c' = <<frame>>
    <2>1. \/ s2c' = s2c /\ spc' = "err"
          \/ \E frame, ok : /\ ok \in BOOLEAN /\ s2c' = Written(s2c, frame, ok)
                            /\ spc' = IF ok THEN "transport" ELSE "err"
      BY DEF ServerReadsInit, WriteResults
    <2>. QED
      BY <1>2, <2>1, OneWritten DEF Written
  <1>5. OneFrame' /\ Numbered'
    BY <1>1, <1>3, <1>4, FewFrames, NumberedStays DEF Turns
  <1>6. \/ s2c' = <<>> /\ spc' = "err"
        \/ s2c' # <<>> /\ spc' = "transport"
    BY <1>4
  <1>7. HandshakeTurns'
    BY <1>1, <1>2, <1>3, <1>6 DEF Turns, HandshakeTurns
  <1>8. PromptTurn' /\ AnswerTurn' /\ CloseTurn' /\ BooksAgree'
    BY <1>1, <1>2 DEF PromptTurn, AnswerTurn, CloseTurn, BooksAgree, Handshaking
  <1>. QED
    BY <1>5, <1>7, <1>8 DEF Turns

\* What the transport loop reads is a request that is waited for, or comes from a client
\* that is done.
LEMMA LoopReads ==
  ASSUME IInv, Turns, spc = "transport", c2s # <<>>
  PROVE  /\ cpc \in {"await_reply", "await_pong", "ok", "err", "timeout"}
         /\ link # "none"
         /\ cpc \in {"await_reply", "await_pong"} => Head(c2s).msg_type = Awaited
         /\ config.client.mode = "repl" /\ cpc = "ok" /\ link = "up" =>
              Head(c2s).msg_type = "Close" /\ Head(c2s).payload_len = 0
  <1>1. link # "none" /\ cpc # "start"
    BY DEF Turns, HandshakeTurns
  <1>2. srx # NoCipher
    BY KeysDiffer DEF IInv, ServerKeys, NoCipher, new, with_nonce, TransportKeySet
  <1>3. cpc \notin {"connected", "await_resp", "send", "idle"}
    BY <1>2 DEF Turns, HandshakeTurns, PromptTurn
  <1>4. Head(c2s) = c2s[1] /\ 1 \in DOMAIN c2s
    BY OnlyFrame DEF Turns
  <1>. QED
    BY <1>1, <1>3, <1>4 DEF Turns, AnswerTurn, CloseTurn, OfType, IInv, Types, TypeOK

\* The session of the server ends, its last read counted or not.
LEMMA ServerGone ==
  ASSUME IInv, Turns, spc = "transport", c2s # <<>>, c2s' = <<>>, s2c' = <<>>, spc' \in {"ok", "err"},
         UNCHANGED <<config, cpc, cmetrics, sent, shown, link>>, Numbered', BooksAgree'
  PROVE  Turns'
  <1>1. OneFrame'
    BY FewFrames
  <1>2. HandshakeTurns' /\ PromptTurn'
    BY LoopReads DEF Turns, HandshakeTurns, PromptTurn
  <1>3. AnswerTurn'
    <2>1. OfType(<<>>, Awaited')
      BY DEF OfType
    <2>. QED
      BY <2>1 DEF Turns, AnswerTurn, OfType, Awaited
  <1>4. CloseTurn'
    BY DEF Turns, CloseTurn
  <1>. QED
    BY <1>1, <1>2, <1>3, <1>4 DEF Turns

\* The bookkeeping of a frame read: what was under way is counted.
LEMMA ServerCountsReceived ==
  ASSUME IInv, Turns, Balanced, c2s # <<>>,
         NEW received, received = record_rx(smetrics, WireBytes(Head(c2s)))
  PROVE  /\ received \in Traffic
         /\ cmetrics.bytes_sent = received.bytes_received
         /\ received.bytes_sent = cmetrics.bytes_received
         /\ cmetrics.frames_sent = received.frames_received
         /\ received.frames_sent = cmetrics.frames_received
  <1>. DEFINE f == Head(c2s)
  <1>1. f \in Frames /\ s2c = <<>> /\ Len(c2s) = 1
    BY OnlyFrame DEF Turns
  <1>2. cmetrics \in Traffic /\ smetrics \in Traffic /\ WireBytes(f) \in Nat
    BY <1>1, WireBytesIsNat DEF IInv, Types
  <1>3. Bytes(c2s) = WireBytes(f) /\ Bytes(s2c) = 0 /\ Len(s2c) = 0
    BY <1>1 DEF Bytes
  <1>. HIDE DEF f
  <1>4. /\ received.bytes_received = smetrics.bytes_received + WireBytes(f)
        /\ received.frames_received = smetrics.frames_received + 1
        /\ received.bytes_sent = smetrics.bytes_sent
        /\ received.frames_sent = smetrics.frames_sent
    BY <1>2, TrafficAdds DEF f
  <1>5. /\ smetrics.bytes_sent = cmetrics.bytes_received + 0
        /\ smetrics.frames_sent = cmetrics.frames_received + 0
        /\ cmetrics.bytes_sent = smetrics.bytes_received + WireBytes(f)
        /\ cmetrics.frames_sent = smetrics.frames_received + 1
    BY <1>1, <1>3 DEF Balanced
  <1>6. received \in Traffic
    BY <1>2, TrafficCounts DEF f
  <1>. QED
    BY <1>2, <1>4, <1>5, <1>6, CountsAreNat

\* A request handled, answered or not, keeps the numbers.
LEMMA AnswerNumbered ==
  ASSUME IInv, Numbered, NEW request \in Requests,
         handled' = Append(handled, request), UNCHANGED <<sent, shown>>,
         \/ UNCHANGED replies
         \/ /\ Len(replies) = Len(handled)
            /\ replies' = Append(replies, AnswerTo(request[1], request[2]))
  PROVE  Numbered'
  <1>1. /\ \A i \in DOMAIN handled : handled'[i] = handled[i]
        /\ handled'[Len(handled) + 1] = request
        /\ DOMAIN replies \subseteq DOMAIN handled
    BY DEF IInv, Types, RepliesAnswer
  <1>2. CASE UNCHANGED replies
    BY <1>1, <1>2 DEF Numbered
  <1>3. CASE /\ Len(replies) = Len(handled)
             /\ replies' = Append(replies, AnswerTo(request[1], request[2]))
    <2>1. /\ \A i \in DOMAIN replies : replies'[i] = replies[i]
          /\ replies'[Len(handled) + 1] = AnswerTo(request[1], request[2])
          /\ DOMAIN replies' = DOMAIN replies \cup {Len(handled) + 1}
      <3>1. AnswerTo(request[1], request[2]) \in Plaintexts
        BY DEF AnswerTo, Requests, Plaintext, Plaintexts, Texts
      <3>. QED
        BY <1>3, <3>1, AppendExtends DEF IInv, Types, Extends
    <2>2. \A i \in DOMAIN replies' : replies'[i] = AnswerTo(handled'[i][1], handled'[i][2])
      BY <1>1, <2>1 DEF Numbered
    <2>. QED
      BY <2>2 DEF Numbered
  <1>. QED
    BY <1>2, <1>3

\* A request: the answer takes its place on the link, or the session ends.
LEMMA AnswersTurn ==
  ASSUME IInv, Turns, spc = "transport", c2s # <<>>, c2s' = <<>>, NEW aad,
         Head(c2s).msg_type \in {"DataPayload", "Heartbeat"},
         ServerAnswers(Head(c2s), aad,
                       AnswerTo(Head(c2s).msg_type, Head(c2s).ciphertext.plaintext)),
         UNCHANGED <<config, clientVars, link>>
  PROVE  Turns'
  <1>. DEFINE f == Head(c2s)
              answer == AnswerTo(f.msg_type, f.ciphertext.plaintext)
              request == <<f.msg_type, f.ciphertext.plaintext>>
              c == seal(stx, aad, answer)
              frame == SealedFrame(f.msg_type, c)
              received == record_rx(smetrics, WireBytes(f))
  <1>1. UNCHANGED <<config, cpc, cmetrics, sent, shown, link>> /\ s2c = <<>> /\ f \in Frames
    BY OnlyFrame DEF Turns, clientVars
  <1>2. request \in Requests /\ request[1] = f.msg_type /\ request[2] = f.ciphertext.plaintext
    BY <1>1 DEF Requests, Frames, Ciphertexts
  <1>3. CASE spc' = "err" /\ UNCHANGED <<handled, replies, s2c>>
    BY <1>1, <1>3, NumberedStays, ServerGone DEF Turns, BooksAgree
  <1>4. CASE spc' = "err" /\ handled' = Append(handled, request) /\ UNCHANGED <<replies, s2c>>
    <2>1. Numbered'
      BY <1>1, <1>2, <1>4, AnswerNumbered DEF Turns
    <2>. QED
      BY <1>1, <1>4, <2>1, ServerGone DEF BooksAgree
  <1>5. CASE /\ handled' = Append(handled, request) /\ replies' = Append(replies, answer)
             /\ smetrics' = record_tx(received, WireBytes(frame))
             /\ \E ok \in BOOLEAN : /\ s2c' = Written(s2c, frame, ok)
                                    /\ IF ok THEN UNCHANGED spc ELSE spc' = "err"
    <2>1. Len(replies) = Len(handled)
      BY DEF IInv, RepliesAnswer
    <2>2. Numbered'
      BY <1>1, <1>2, <1>5, <2>1, AnswerNumbered DEF Turns
    <2>3. CASE s2c' = <<>> /\ spc' = "err"
      BY <1>1, <2>2, <2>3, ServerGone DEF BooksAgree
    <2>4. CASE s2c' = <<frame>> /\ spc' = "transport"
      <3>1. /\ cpc \in {"await_reply", "await_pong", "ok", "err", "timeout"} /\ link # "none"
            /\ cpc \in {"await_reply", "await_pong"} => f.msg_type = Awaited
            /\ config.client.mode = "repl" /\ cpc = "ok" /\ link = "up" => f.msg_type = "Close"
        BY LoopReads
      <3>2. OneFrame'
        BY <2>4, FewFrames
      <3>3. HandshakeTurns' /\ PromptTurn' /\ CloseTurn'
        BY <1>1, <2>4, <3>1 DEF Turns, HandshakeTurns, PromptTurn, CloseTurn
      <3>4. AnswerTurn'
        <4>1. frame.msg_type = f.msg_type
          BY DEF SealedFrame, Frame
        <4>. HIDE DEF frame
        <4>2. OfType(<<>>, f.msg_type) /\ OfType(<<frame>>, f.msg_type) /\ <<frame>> # <<>>
          BY <4>1 DEF OfType
        <4>3. cpc \in {"await_reply", "await_pong"} => Awaited' = f.msg_type
          BY <1>1, <3>1 DEF Awaited
        <4>. QED
          BY <1>1, <2>4, <4>2, <4>3 DEF Turns, AnswerTurn, OfType
      <3>5. BooksAgree'
        <4>. SUFFICES ASSUME config.client.mode = "repl", link = "up",
                             cpc \in {"await_reply", "await_pong"}
                      PROVE  Balanced'
          BY <1>1, <2>4, <3>1 DEF BooksAgree
        <4>1. Balanced
          BY DEF Turns, BooksAgree
        <4>2. /\ received \in Traffic
              /\ cmetrics.bytes_sent = received.bytes_received
              /\ received.bytes_sent = cmetrics.bytes_received
              /\ cmetrics.frames_sent = received.frames_received
              /\ received.frames_sent = cmetrics.frames_received
          BY <4>1, ServerCountsReceived
        <4>. HIDE DEF received
        <4>3. WireBytes(frame) \in Nat
          <5>1. answer.size \in Nat
            BY <1>1 DEF AnswerTo, Plaintext, Plaintexts, Frames, Ciphertexts
          <5>2. frame.payload_len = answer.size + TAG_LEN
            BY DEF SealedFrame, Frame, seal, Ciphertext
          <5>. HIDE DEF frame, answer
          <5>. QED
            BY <5>1, <5>2 DEF WireBytes, TAG_LEN, PrefixLen, HeaderLen
        <4>. HIDE DEF frame
        <4>4. /\ smetrics'.bytes_sent = received.bytes_sent + WireBytes(frame)
              /\ smetrics'.frames_sent = received.frames_sent + 1
              /\ smetrics'.bytes_received = received.bytes_received
              /\ smetrics'.frames_received = received.frames_received
          BY <1>5, <4>2, <4>3, TrafficAdds
        <4>5. /\ Head(<<frame>>) = frame /\ <<frame>> # <<>> /\ Len(<<frame>>) = 1
              /\ Len(<<>>) = 0
          OBVIOUS
        <4>6. /\ cmetrics.bytes_sent = smetrics'.bytes_received + 0
              /\ smetrics'.bytes_sent = cmetrics.bytes_received + WireBytes(frame)
              /\ cmetrics.frames_sent = smetrics'.frames_received + 0
              /\ smetrics'.frames_sent = cmetrics.frames_received + 1
          BY <4>2, <4>4, CountsAreNat
        <4>. QED
          BY <1>1, <2>4, <4>5, <4>6 DEF Balanced, Bytes
      <3>. QED
        BY <2>2, <3>2, <3>3, <3>4, <3>5 DEF Turns
    <2>. QED
      BY <1>1, <1>5, <2>3, <2>4, OneWritten DEF Written
  <1>. QED
    BY <1>3, <1>4, <1>5 DEF ServerAnswers, ServerFails, WriteResults

\* One turn of the transport loop.
LEMMA ServerReadsTurn ==
  ASSUME IInv, Turns, ServerReads
  PROVE  Turns'
  <1>. DEFINE f == Head(c2s)
  <1>1. /\ UNCHANGED <<config, clientVars, link>>
        /\ spc = "transport" /\ c2s # <<>> /\ c2s' = Tail(c2s)
    BY DEF ServerReads, Readable
  <1>2. /\ UNCHANGED <<config, cpc, cmetrics, sent, shown, link>>
        /\ c2s' = <<>> /\ s2c = <<>> /\ f \in Frames
    BY <1>1, OnlyFrame DEF Turns, clientVars
  <1>3. /\ cpc \in {"await_reply", "await_pong", "ok", "err", "timeout"} /\ link # "none"
        /\ cpc \in {"await_reply", "await_pong"} => f.msg_type = Awaited
        /\ config.client.mode = "repl" /\ cpc = "ok" /\ link = "up" =>
             f.msg_type = "Close" /\ f.payload_len = 0
    BY <1>1, LoopReads
  <1>4. CASE spc' = "ok" /\ ~read_from(f) /\ UNCHANGED <<smetrics, handled, replies, s2c>>
    <2>1. ~(config.client.mode = "repl" /\ cpc = "ok" /\ link = "up")
      BY <1>3, <1>4 DEF read_from, HeaderLen, MAX_FRAME_SIZE, MessageTypes
    <2>2. BooksAgree'
      BY <1>2, <1>4, <2>1 DEF BooksAgree
    <2>. QED
      BY <1>1, <1>2, <1>4, <2>2, NumberedStays, ServerGone DEF Turns
  <1>5. CASE /\ f.msg_type = "DataPayload"
             /\ ServerAnswers(f, DataAAD, AnswerTo(f.msg_type, f.ciphertext.plaintext))
    BY <1>1, <1>2, <1>5, AnswersTurn
  <1>6. CASE /\ f.msg_type = "Heartbeat"
             /\ ServerAnswers(f, HeartbeatAAD, AnswerTo(f.msg_type, f.ciphertext.plaintext))
    BY <1>1, <1>2, <1>6, AnswersTurn
  <1>7. CASE /\ f.msg_type \in {"HandshakeInit", "HandshakeResp", "Close"}
             /\ smetrics' = record_rx(smetrics, WireBytes(f))
             /\ spc' = IF f.msg_type = "Close" THEN "ok" ELSE spc
             /\ UNCHANGED <<handled, replies, s2c>>
    <2>1. cpc \in {"ok", "err", "timeout"}
      BY <1>3, <1>7 DEF Awaited
    <2>2. OneFrame' /\ Numbered'
      BY <1>2, <1>7, FewFrames, NumberedStays DEF Turns
    <2>3. HandshakeTurns' /\ PromptTurn' /\ AnswerTurn' /\ CloseTurn'
      BY <1>1, <1>2, <1>3, <1>7, <2>1 DEF HandshakeTurns, PromptTurn, AnswerTurn, CloseTurn, Handshaking
    <2>4. BooksAgree'
      <3>. SUFFICES ASSUME config.client.mode = "repl", link = "up", cpc = "ok" PROVE Balanced'
        BY <1>2, <2>1 DEF BooksAgree
      <3>1. Balanced
        BY <1>1 DEF Turns, BooksAgree
      <3>2. /\ smetrics' \in Traffic
            /\ cmetrics.bytes_sent = smetrics'.bytes_received
            /\ smetrics'.bytes_sent = cmetrics.bytes_received
            /\ cmetrics.frames_sent = smetrics'.frames_received
            /\ smetrics'.frames_sent = cmetrics.frames_received
        BY <1>1, <1>7, <3>1, ServerCountsReceived
      <3>3. cmetrics \in Traffic /\ Len(<<>>) = 0
        BY DEF IInv, Types
      <3>4. /\ cmetrics.bytes_sent = smetrics'.bytes_received + 0
            /\ smetrics'.bytes_sent = cmetrics.bytes_received + 0
            /\ cmetrics.frames_sent = smetrics'.frames_received + 0
            /\ smetrics'.frames_sent = cmetrics.frames_received + 0
        BY <3>2, <3>3, CountsAreNat
      <3>. QED
        BY <1>2, <1>7, <3>3, <3>4 DEF Balanced, Bytes
    <2>. QED
      BY <2>2, <2>3, <2>4 DEF Turns
  <1>. QED
    BY <1>4, <1>5, <1>6, <1>7 DEF ServerReads

\* A read of the server fails only on a dead link or behind a client that is gone.
LEMMA BreaksTurn ==
  ASSUME IInv, Turns, ServerBreaks
  PROVE  Turns'
  <1>1. /\ UNCHANGED <<config, cpc, cmetrics, sent, shown, srx, smetrics, handled, replies>>
        /\ UNCHANGED <<link, c2s, s2c>>
        /\ spc \in {"await_init", "transport"}
        /\ spc' = IF spc = "transport" THEN "ok" ELSE "err"
    BY DEF ServerBreaks, clientVars, linkVars
  <1>2. link = "up" => cpc \in {"ok", "err", "timeout"}
    BY DEF ServerBreaks, Broken, ClientDone
  <1>3. link # "none"
    BY <1>1 DEF Turns, HandshakeTurns, ServerBreaks, Broken
  <1>4. HandshakeTurns'
    BY <1>1, <1>2, <1>3 DEF Turns, HandshakeTurns, NoCipher
  <1>5. PromptTurn' /\ CloseTurn'
    BY <1>1, <1>2 DEF Turns, PromptTurn, CloseTurn
  <1>6. AnswerTurn'
    BY <1>1, <1>2 DEF Turns, AnswerTurn, OfType, Awaited
  <1>7. BooksAgree'
    BY <1>1 DEF Turns, BooksAgree, Balanced, Bytes
  <1>8. OneFrame' /\ Numbered'
    BY <1>1, NumberedStays DEF Turns, OneFrame
  <1>. QED
    BY <1>4, <1>5, <1>6, <1>7, <1>8 DEF Turns

-----------------------------------------------------------------------------
(* What TCP lets happen, and the invariant *)

\* A link that fails loses the turns, it does not add frames.
LEMMA FaultTurn ==
  ASSUME Tcp, IInv, Turns, Fault
  PROVE  Turns'
  <1>1. /\ UNCHANGED <<config, cmetrics, sent, shown, spc, srx, smetrics, handled, replies>>
        /\ LinkFails \/ ConnectFails
    BY DEF Fault, FramesDisturbed, OtherAnswers, Tcp, serverVars
  <1>2. CASE ConnectFails
    <2>1. UNCHANGED <<link, c2s, s2c>> /\ cpc' = "err"
      BY <1>2 DEF ConnectFails, linkVars
    <2>2. OneFrame' /\ Numbered'
      BY <1>1, <2>1, NumberedStays DEF Turns, OneFrame
    <2>. QED
      BY <1>1, <2>1, <2>2, ClientGone
  <1>3. CASE LinkFails
    <2>1. UNCHANGED <<c2s, s2c, cpc>> /\ link = "up" /\ link' \in {"reset", "down"}
      BY <1>3 DEF LinkFails
    <2>2. OneFrame' /\ Numbered'
      BY <1>1, <2>1, NumberedStays DEF Turns, OneFrame
    <2>3. HandshakeTurns' /\ PromptTurn' /\ CloseTurn' /\ BooksAgree'
      BY <1>1, <2>1 DEF Turns, HandshakeTurns, PromptTurn, CloseTurn, BooksAgree, NoCipher
    <2>4. AnswerTurn'
      BY <1>1, <2>1 DEF Turns, AnswerTurn, OfType, Awaited
    <2>. QED
      BY <2>2, <2>3, <2>4 DEF Turns
  <1>. QED
    BY <1>1, <1>2, <1>3

\* Every step preserves the second invariant, given the first.
LEMMA NextTurns ==
  ASSUME Tcp, IInv, NobodyElse, Turns, [Next]_vars
  PROVE  Turns'
  <1>1. CASE Client
    BY <1>1, ConnectTurn, SendsInitTurn, ReadsRespTurn, RequestTurn, ClientEndsTurn, ReadsOnlyReplyTurn,
       ReadsReplyTurn DEF Client
  <1>2. CASE User
    BY <1>2, RequestTurn, QuitsTurn, ClientEndsTurn DEF User
  <1>3. CASE ClientTimesOut
    BY <1>3, ClientEndsTurn
  <1>4. CASE Server
    BY <1>4, AcceptsTurn, ReadsInitTurn, ServerReadsTurn, BreaksTurn DEF Server
  <1>5. CASE Fault
    BY <1>5, FaultTurn
  <1>6. CASE UNCHANGED vars
    <2>1. /\ UNCHANGED <<config, cpc, cmetrics, sent, shown, spc, srx, smetrics, handled, replies>>
          /\ UNCHANGED <<link, c2s, s2c>>
      BY <1>6 DEF vars, clientVars, serverVars, linkVars
    <2>2. OneFrame' /\ Numbered'
      BY <2>1, NumberedStays DEF Turns, OneFrame
    <2>3. HandshakeTurns' /\ PromptTurn' /\ CloseTurn'
      BY <2>1 DEF Turns, HandshakeTurns, PromptTurn, CloseTurn, NoCipher
    <2>4. AnswerTurn' /\ BooksAgree'
      BY <2>1 DEF Turns, AnswerTurn, OfType, Awaited, BooksAgree, Balanced, Bytes
    <2>. QED
      BY <2>2, <2>3, <2>4 DEF Turns
  <1>. QED
    BY <1>1, <1>2, <1>3, <1>4, <1>5, <1>6 DEF Next

\* Over TCP the two ends take turns, whichever of them stops and whatever becomes of the
\* link.
THEOREM TakeTurns ==
  ASSUME Tcp
  PROVE  Spec => [](NobodyElse /\ Turns)
  <1>1. Init => NobodyElse /\ Turns
    BY InitTurns DEF Init, NobodyElse
  <1>2. IInv /\ NobodyElse /\ Turns /\ [Next]_vars => (NobodyElse /\ Turns)'
    BY NextNobodyElse, NextTurns
  <1>. QED
    BY <1>1, <1>2, InductiveInvariant, PTL DEF Spec

-----------------------------------------------------------------------------
(* What follows from it *)

\* While the link stands one of two ends that wait for each other has a frame to read.
THEOREM NobodyStuck ==
  ASSUME Tcp
  PROVE  Spec => []NoMutualWait
  <1>1. IInv /\ Turns => NoMutualWait
    <2>. SUFFICES ASSUME IInv, Turns, cpc \in {"await_resp", "await_reply", "await_pong"},
                         spc \in {"await_init", "transport"}, c2s = <<>>
                  PROVE  s2c # <<>>
      BY DEF NoMutualWait
    <2>1. CASE cpc = "await_resp"
      <3>1. spc = "transport" => srx # NoCipher
        BY KeysDiffer DEF IInv, ServerKeys, NoCipher, new, with_nonce, TransportKeySet
      <3>. QED
        BY <2>1, <3>1 DEF Turns, HandshakeTurns
    <2>2. CASE cpc \in {"await_reply", "await_pong"}
      BY <2>2 DEF Turns, AnswerTurn
    <2>. QED
      BY <2>1, <2>2
  <1>. QED
    BY <1>1, InductiveInvariant, TakeTurns, PTL

\* What the client shows is the answer to the request it is waiting for.
THEOREM AnswersMatch ==
  ASSUME Tcp
  PROVE  Spec => []ReplyCorrelation
  <1>1. IInv /\ Turns => ReplyCorrelation
    <2>. SUFFICES ASSUME IInv, Turns, NEW i \in DOMAIN shown
                  PROVE  shown[i].plaintext.id = shown[i].asked
      BY DEF ReplyCorrelation
    <2>1. i \in DOMAIN replies /\ i \in DOMAIN handled /\ i \in DOMAIN sent
      BY DEF IInv, Types, ShownIsReplied, RepliesAnswer, HandledIsSent
    <2>2. /\ shown[i].asked = i /\ shown[i].plaintext = replies[i]
          /\ replies[i] = AnswerTo(handled[i][1], handled[i][2])
          /\ handled[i][2].id = i
      BY <2>1 DEF IInv, ShownIsReplied, HandledIsSent, Turns, Numbered
    <2>. QED
      BY <2>2 DEF AnswerTo, Plaintext
  <1>. QED
    BY <1>1, InductiveInvariant, TakeTurns, PTL

-----------------------------------------------------------------------------
(* The bytes of a queue *)

PickOf(s) == CHOOSE x \in s : TRUE

\* The recursion that adds up the frames of a queue, index by index.
AddsUp(sum, queue) ==
  sum = [ s \in SUBSET DOMAIN queue |->
            IF s = {} THEN 0 ELSE WireBytes(queue[PickOf(s)]) + sum[s \ {PickOf(s)}] ]

\* BytesIn is what the recursion says of the whole queue.
LEMMA BytesInAddsUp ==
  ASSUME NEW queue
  PROVE  BytesIn(queue) = (CHOOSE sum : AddsUp(sum, queue))[DOMAIN queue]
  BY Zenon DEF AddsUp, PickOf, BytesIn, FoldSeq, FoldFunction, FoldFunctionOnSet, MapThenFoldSet

\* In a queue of one frame at most the bytes are those of the frame.
LEMMA BytesInShort ==
  ASSUME NEW queue \in Seq(Frames), DOMAIN queue \subseteq {1}
  PROVE  BytesIn(queue) = IF DOMAIN queue = {} THEN 0 ELSE WireBytes(queue[1])
  <1>. DEFINE S == DOMAIN queue
              b == IF 1 \in S THEN WireBytes(queue[1]) ELSE 0
              g == [ s \in SUBSET S |-> IF s = {} THEN 0 ELSE b ]
  <1>1. \A s \in SUBSET S :
          s # {} => s = {1} /\ PickOf(s) = 1 /\ s \ {PickOf(s)} = {} /\ 1 \in S
    <2>1. PickOf({1}) = 1
      BY DEF PickOf
    <2>2. {1} \ {1} = {}
      OBVIOUS
    <2>. SUFFICES ASSUME NEW s \in SUBSET S, s # {}
                  PROVE  s = {1} /\ PickOf(s) = 1 /\ s \ {PickOf(s)} = {} /\ 1 \in S
      OBVIOUS
    <2>3. S \subseteq {1}
      OBVIOUS
    <2>. HIDE DEF S
    <2>4. s = {1}
      BY <2>3, Zenon
    <2>5. 1 \in S
      BY <2>4
    <2>6. PickOf(s) = 1
      BY <2>1, <2>4, Zenon
    <2>. QED
      BY <2>2, <2>4, <2>5, <2>6, Zenon
  <1>2. b \in Nat
    <2>1. 1 \in S => queue[1] \in Frames
      OBVIOUS
    <2>. QED
      BY <2>1, WireBytesIsNat
  <1>3. AddsUp(g, queue)
    <2>1. g[{}] = 0
      OBVIOUS
    <2>2. ASSUME NEW s \in SUBSET S
          PROVE  g[s] = IF s = {} THEN 0 ELSE WireBytes(queue[PickOf(s)]) + g[s \ {PickOf(s)}]
      <3>1. CASE s = {}
        BY <3>1
      <3>2. CASE s # {}
        <4>1. s = {1} /\ PickOf(s) = 1 /\ s \ {PickOf(s)} = {} /\ 1 \in S
          BY <1>1, <3>2
        <4>2. g[s] = WireBytes(queue[1]) /\ WireBytes(queue[1]) \in Nat
          BY <1>2, <3>2, <4>1
        <4>. HIDE DEF g
        <4>3. WireBytes(queue[PickOf(s)]) = WireBytes(queue[1]) /\ g[s \ {PickOf(s)}] = 0
          BY <2>1, <4>1, Zenon
        <4>4. WireBytes(queue[1]) = WireBytes(queue[1]) + 0
          BY <4>2
        <4>. QED
          BY <3>2, <4>2, <4>3, <4>4, Zenon
      <3>. QED
        BY <3>1, <3>2
    <2>. QED
      BY <2>2 DEF AddsUp
  <1>. DEFINE sum == CHOOSE f : AddsUp(f, queue)
  <1>4. AddsUp(sum, queue)
    BY <1>3, Zenon
  <1>. HIDE DEF sum, g
  <1>5. sum[{}] = 0
    BY <1>4 DEF AddsUp
  <1>6. S # {} => sum[S] = WireBytes(queue[1])
    <2>. SUFFICES ASSUME S # {} PROVE sum[S] = WireBytes(queue[1])
      OBVIOUS
    <2>1. S = {1} /\ PickOf(S) = 1 /\ S \ {PickOf(S)} = {} /\ 1 \in S
      BY <1>1
    <2>2. sum[S] = WireBytes(queue[PickOf(S)]) + sum[S \ {PickOf(S)}]
      BY <1>4 DEF AddsUp
    <2>3. WireBytes(queue[PickOf(S)]) = WireBytes(queue[1]) /\ sum[S \ {PickOf(S)}] = 0
      BY <1>5, <2>1, Zenon
    <2>4. WireBytes(queue[1]) = WireBytes(queue[1]) + 0
      BY <1>2, <2>1
    <2>. QED
      BY <2>2, <2>3, <2>4, Zenon
  <1>. QED
    BY <1>5, <1>6, BytesInAddsUp DEF sum

\* In the interactive session the two ends count the same traffic.
THEOREM TrafficConserved ==
  ASSUME Tcp
  PROVE  Spec => []MetricsConserved
  <1>1. IInv /\ Turns => MetricsConserved
    <2>. SUFFICES ASSUME IInv, Turns,
                         config.client.mode = "repl", link = "up",
                         \/ spc = "transport" /\ cpc \in {"idle", "await_reply", "await_pong", "ok"}
                         \/ spc = "ok" /\ cpc = "ok"
                  PROVE  /\ cmetrics.bytes_sent = smetrics.bytes_received + BytesIn(c2s)
                         /\ smetrics.bytes_sent = cmetrics.bytes_received + BytesIn(s2c)
                         /\ cmetrics.frames_sent = smetrics.frames_received + Len(c2s)
                         /\ smetrics.frames_sent = cmetrics.frames_received + Len(s2c)
      BY DEF MetricsConserved
    <2>1. Balanced
      BY DEF Turns, BooksAgree
    <2>2. /\ c2s # <<>> => Head(c2s) = c2s[1] /\ DOMAIN c2s = {1}
          /\ s2c # <<>> => Head(s2c) = s2c[1] /\ DOMAIN s2c = {1}
      BY OnlyFrame DEF Turns
    <2>3. DOMAIN <<>> = {}
      OBVIOUS
    <2>4. BytesIn(c2s) = Bytes(c2s) /\ BytesIn(s2c) = Bytes(s2c)
      BY <2>2, <2>3, BytesInShort, QueueTypes DEF Bytes
    <2>. QED
      BY <2>1, <2>4 DEF Balanced
  <1>. QED
    BY <1>1, InductiveInvariant, TakeTurns, PTL

-----------------------------------------------------------------------------
(* The session the two programs use *)

ClientPhase == Phase(cpc, {"start", "connected", "await_resp"}, {"ok", "err", "timeout"})
ServerPhase == Phase(spc, {"none", "await_init"}, {"ok", "err", "refused"})
ShownTexts == [ i \in DOMAIN shown |-> shown[i].plaintext ]

\* The session begins as promised.
LEMMA SessionBegins == Init => Session!Init
  BY DEF Init, Session!Init, Phase

\* An end that stays where it is or ends, while nothing is asked, served or shown.
LEMMA SessionCloses ==
  ASSUME ClientPhase' \in {ClientPhase, "closed"}, ServerPhase' \in {ServerPhase, "closed"},
         UNCHANGED <<sent, handled, shown>>
  PROVE  Session!Next
  <1>1. ShownTexts' = ShownTexts
    BY DEF ShownTexts
  <1>. QED
    BY <1>1, Zenon DEF Session!Next, Session!Close, Session!Stays, ClientPhase, ServerPhase, ShownTexts

\* A request appended to the history of requests is asked.
LEMMA SessionAsks ==
  ASSUME IInv, ClientPhase = "open", ClientPhase' \in {"open", "closed"}, Len(sent) = Len(shown),
         NEW request \in {"DataPayload", "Heartbeat"} \X [text : {"message", "PING"}, id : Nat, size : Nat],
         sent' = Append(sent, request),
         UNCHANGED <<spc, handled, shown>>
  PROVE  Session!Next
  <1>1. ShownTexts' = ShownTexts /\ ServerPhase' = ServerPhase
    BY DEF ShownTexts, ServerPhase
  <1>2. Len(ShownTexts) = Len(shown)
    BY DEF ShownTexts, IInv, Types
  <1>3. Session!Ask(request)
    BY <1>1, <1>2, Zenon DEF Session!Ask, Session!Stays, ClientPhase, ServerPhase, ShownTexts
  <1>4. Len(sent) + 1 \in DOMAIN sent' /\ sent'[Len(sent) + 1] = request
    BY DEF IInv, Types
  <1>. QED
    BY <1>3, <1>4, Zenon DEF Session!Next

\* A request appended to the history of handled ones is the next one that was asked.
LEMMA SessionServes ==
  ASSUME IInv, IInv', ServerPhase = "open", ServerPhase' \in {"open", "closed"},
         NEW request \in Requests, handled' = Append(handled, request),
         UNCHANGED <<cpc, sent, shown>>
  PROVE  Session!Next
  <1>1. ShownTexts' = ShownTexts /\ ClientPhase' = ClientPhase
    BY DEF ShownTexts, ClientPhase
  <1>2. /\ Len(handled) \in Nat /\ Len(handled') = Len(handled) + 1
        /\ Len(handled) + 1 \in DOMAIN handled' /\ handled'[Len(handled) + 1] = request
    BY DEF IInv, Types
  <1>3. request = sent[Len(handled) + 1] /\ Len(handled) + 1 <= Len(sent) /\ Len(sent) \in Nat
    BY <1>2 DEF IInv, HandledIsSent, Types
  <1>4. Len(handled) < Len(sent)
    BY <1>2, <1>3
  <1>5. Session!Serve
    BY <1>1, <1>3, <1>4, Zenon DEF Session!Serve, Session!Stays, ClientPhase, ServerPhase, ShownTexts
  <1>. QED
    BY <1>5 DEF Session!Next

\* A plaintext appended to what is shown is the answer to the next request handled.
LEMMA SessionShows ==
  ASSUME IInv, Turns, IInv', Turns', ClientPhase = "open", ClientPhase' \in {"open", "closed"},
         NEW answer \in Answers, shown' = Append(shown, answer),
         UNCHANGED <<spc, sent, handled, replies>>
  PROVE  Session!Next
  <1>1. ServerPhase' = ServerPhase
    BY DEF ServerPhase
  <1>2. /\ Len(shown) \in Nat /\ Len(shown') = Len(shown) + 1
        /\ Len(shown) + 1 \in DOMAIN shown' /\ shown'[Len(shown) + 1] = answer
        /\ Len(replies) \in Nat /\ Len(handled) \in Nat
    BY DEF IInv, Types
  <1>3. /\ Len(shown) + 1 <= Len(replies) /\ answer.plaintext = replies[Len(shown) + 1]
        /\ Len(replies) <= Len(handled)
    BY <1>2 DEF IInv, ShownIsReplied, RepliesAnswer
  <1>4. Len(shown) < Len(handled) /\ Len(shown) + 1 \in DOMAIN replies
    BY <1>2, <1>3 DEF IInv, Types
  <1>5. answer.plaintext = AnswerTo(handled[Len(shown) + 1][1], handled[Len(shown) + 1][2])
    BY <1>3, <1>4 DEF Turns, Numbered
  <1>6. Len(ShownTexts) = Len(shown)
    BY DEF ShownTexts, IInv, Types
  <1>7. ShownTexts' = Append(ShownTexts, answer.plaintext)
    BY DEF ShownTexts, IInv, Types
  <1>8. Session!Show
    BY <1>1, <1>4, <1>5, <1>6, <1>7, Zenon DEF Session!Show, Session!Stays, ClientPhase, ServerPhase, ShownTexts
  <1>. QED
    BY <1>8 DEF Session!Next

\* The phases a step leaves alone or ends.
PhasesStay ==
  ClientPhase' \in {ClientPhase, "closed"} /\ ServerPhase' \in {ServerPhase, "closed"}

\* A client that connects, waits in vain, stops or is stopped asks and shows nothing.
LEMMA ClientQuiet ==
  ASSUME \/ ClientConnect \/ ClientNotConnected \/ ClientSendsInit \/ UserQuits
         \/ UserEndsInput \/ ClientBreaks \/ ClientTimesOut
  PROVE  Session!Next
  <1>1. /\ UNCHANGED <<sent, handled, shown, spc>>
        /\ \/ cpc' \in {"ok", "err", "timeout"}
           \/ cpc \in {"start", "connected"} /\ cpc' \in {"connected", "await_resp"}
    BY DEF ClientConnect, ClientNotConnected, ClientSendsInit, UserQuits, UserEndsInput, ClientBreaks,
           ClientTimesOut, serverVars
  <1>2. ClientPhase' \in {ClientPhase, "closed"} /\ ServerPhase' = ServerPhase
    BY <1>1 DEF ClientPhase, ServerPhase, Phase
  <1>. QED
    BY <1>1, <1>2, SessionCloses

\* The server that accepts or refuses the connection, or finds the link broken, has
\* handled nothing by that.
LEMMA ServerQuiet ==
  ASSUME ServerAccepts \/ ServerBreaks
  PROVE  Session!Next
  <1>1. /\ UNCHANGED <<sent, handled, shown, cpc>>
        /\ \/ spc' \in {"ok", "err", "refused"}
           \/ spc = "none" /\ spc' = "await_init"
    BY DEF ServerAccepts, ServerBreaks, clientVars
  <1>2. ServerPhase' \in {ServerPhase, "closed"} /\ ClientPhase' = ClientPhase
    BY <1>1 DEF ClientPhase, ServerPhase, Phase
  <1>. QED
    BY <1>1, <1>2, SessionCloses

\* What happens to the link reaches the two programs through their reads and writes only,
\* except for a connection that is never made.
LEMMA FaultQuiet ==
  ASSUME Fault
  PROVE  Session!Next
  <1>1. UNCHANGED <<sent, handled, shown, spc>> /\ (cpc' = cpc \/ cpc' = "err")
    BY DEF Fault, LinkFails, ConnectFails, FramesDisturbed, OtherAnswers, serverVars
  <1>2. ClientPhase' \in {ClientPhase, "closed"} /\ ServerPhase' = ServerPhase
    BY <1>1 DEF ClientPhase, ServerPhase, Phase
  <1>. QED
    BY <1>1, <1>2, SessionCloses

\* The server opens the session with its response, or gives up.
LEMMA ReadsInitOpens ==
  ASSUME ServerReadsInit
  PROVE  Session!Next
  <1>1. UNCHANGED <<sent, handled, shown, cpc>> /\ spc = "await_init" /\ spc' \in {"transport", "err"}
    BY DEF ServerReadsInit, clientVars
  <1>2. ClientPhase' = ClientPhase /\ ShownTexts' = ShownTexts
    BY <1>1 DEF ClientPhase, ShownTexts
  <1>3. CASE spc' = "transport"
    <2>1. ServerPhase = "new" /\ ServerPhase' = "open"
      BY <1>1, <1>3 DEF ServerPhase, Phase
    <2>2. Session!ServerOpens
      BY <1>1, <1>2, <2>1, Zenon DEF Session!ServerOpens, ClientPhase, ServerPhase, ShownTexts
    <2>. QED
      BY <2>2 DEF Session!Next
  <1>4. CASE spc' = "err"
    <2>1. ServerPhase' = "closed"
      BY <1>4 DEF ServerPhase, Phase
    <2>. QED
      BY <1>1, <1>2, <2>1, SessionCloses
  <1>. QED
    BY <1>1, <1>3, <1>4

\* The client opens the session once it has the response of a server that has opened
\* it, or gives up.
LEMMA ReadsRespOpens ==
  ASSUME IInv, NobodyElse, ClientReadsResp
  PROVE  Session!Next
  <1>1. /\ UNCHANGED <<sent, handled, shown, spc>> /\ cpc = "await_resp" /\ s2c # <<>>
        /\ cpc' \in {"idle", "send", "err"}
    BY DEF ClientReadsResp, Readable, serverVars
  <1>2. ServerPhase' = ServerPhase /\ ShownTexts' = ShownTexts
    BY <1>1 DEF ServerPhase, ShownTexts
  <1>3. CASE cpc' \in {"idle", "send"}
    <2>1. ClientPhase = "new" /\ ClientPhase' = "open"
      BY <1>1, <1>3 DEF ClientPhase, Phase
    <2>2. ServerPhase # "new"
      <3>1. srx.key # <<>>
        BY <1>1 DEF NobodyElse
      <3>2. spc \notin {"none", "await_init"}
        BY <3>1 DEF IInv, ServerKeys, NoCipher, new, with_nonce
      <3>. QED
        BY <3>2 DEF ServerPhase, Phase
    <2>3. Session!ClientOpens
      BY <1>1, <1>2, <2>1, <2>2, Zenon DEF Session!ClientOpens, ClientPhase, ServerPhase, ShownTexts
    <2>. QED
      BY <2>3 DEF Session!Next
  <1>4. CASE cpc' = "err"
    <2>1. ClientPhase' = "closed"
      BY <1>4 DEF ClientPhase, Phase
    <2>. QED
      BY <1>1, <1>2, <2>1, SessionCloses
  <1>. QED
    BY <1>1, <1>3, <1>4

\* A request is asked at the prompt, also when the write fails and ends the session; one
\* the cipher refuses to encrypt is not.
LEMMA SendsAsks ==
  ASSUME IInv, Turns, NEW msg_type \in {"DataPayload", "Heartbeat"}, NEW aad,
         NEW text \in {"message", "PING"}, NEW size \in Nat,
         NEW next \in {"await_reply", "await_pong"}, cpc \in {"send", "idle"},
         ClientSends(msg_type, aad, Plaintext(text, Len(sent) + 1, size), next),
         UNCHANGED <<spc, handled, shown>>
  PROVE  Session!Next
  <1>1. ClientPhase = "open" /\ Len(sent) = Len(shown)
    BY DEF ClientPhase, Phase, Turns, PromptTurn
  <1>2. CASE ~encrypts(ctx)
    <2>1. sent' = sent /\ cpc' = "err"
      BY <1>2 DEF ClientSends
    <2>2. ClientPhase' = "closed" /\ ServerPhase' = ServerPhase
      BY <2>1 DEF ClientPhase, ServerPhase, Phase
    <2>. QED
      BY <2>1, <2>2, SessionCloses
  <1>3. CASE encrypts(ctx)
    <2>. DEFINE request == <<msg_type, Plaintext(text, Len(sent) + 1, size)>>
    <2>1. sent' = Append(sent, request) /\ cpc' \in {"await_reply", "await_pong", "err"}
      BY <1>3 DEF ClientSends
    <2>2. request \in {"DataPayload", "Heartbeat"} \X [text : {"message", "PING"}, id : Nat, size : Nat]
      <3>1. Len(sent) + 1 \in Nat
        BY DEF IInv, Types
      <3>. QED
        BY <3>1 DEF Plaintext
    <2>3. ClientPhase' \in {"open", "closed"}
      BY <2>1 DEF ClientPhase, Phase
    <2>. HIDE DEF request
    <2>. QED
      BY <1>1, <2>1, <2>2, <2>3, SessionAsks
  <1>. QED
    BY <1>2, <1>3

\* The message of send_secure_message, a line of text and /ping.
LEMMA RequestAsks ==
  ASSUME IInv, Turns, ClientSendsMessage \/ UserSendsText \/ UserPings
  PROVE  Session!Next
  <1>1. ASSUME NEW pc \in {"send", "idle"}, NEW size \in MessageSizes, ClientSendsData(pc, size)
        PROVE  Session!Next
    <2>1. /\ cpc = pc /\ size \in Nat /\ UNCHANGED <<spc, handled, shown>>
          /\ ClientSends("DataPayload", DataAAD, Plaintext("message", Len(sent) + 1, size), "await_reply")
      BY <1>1, TunnelAssumption DEF ClientSendsData, serverVars
    <2>. QED
      BY <2>1, SendsAsks
  <1>2. ASSUME UserPings
        PROVE  Session!Next
    <2>1. /\ cpc = "idle" /\ UNCHANGED <<spc, handled, shown>>
          /\ ClientSends("Heartbeat", HeartbeatAAD, Plaintext("PING", Len(sent) + 1, 4), "await_pong")
      BY <1>2 DEF UserPings, serverVars
    <2>. QED
      BY <2>1, SendsAsks
  <1>. QED
    BY <1>1, <1>2 DEF ClientSendsMessage, UserSendsText

\* An answer the client accepts is shown; any other frame leaves the session as it is or
\* ends it.
LEMMA ReadsReplyShows ==
  ASSUME IInv, Turns, IInv', Turns', ClientReadsOnlyReply \/ ClientReadsReply
  PROVE  Session!Next
  <1>1. /\ UNCHANGED <<sent, handled, replies, spc>>
        /\ cpc \in {"await_reply", "await_pong"} /\ cpc' \in {"idle", "ok", "err"} /\ s2c # <<>>
        /\ \/ shown' = shown
           \/ \E aad : ClientShows(Head(s2c), aad)
    BY DEF ClientReadsOnlyReply, ClientReadsReply, Readable, serverVars
  <1>2. ClientPhase = "open" /\ ClientPhase' \in {"open", "closed"} /\ ServerPhase' = ServerPhase
    BY <1>1 DEF ClientPhase, ServerPhase, Phase
  <1>3. CASE shown' = shown
    BY <1>1, <1>2, <1>3, SessionCloses
  <1>4. CASE \E aad : ClientShows(Head(s2c), aad)
    <2>. DEFINE answer == [asked |-> Len(sent), plaintext |-> Head(s2c).ciphertext.plaintext]
    <2>1. shown' = Append(shown, answer)
      BY <1>4 DEF ClientShows
    <2>2. answer \in Answers
      <3>1. Head(s2c) \in Frames
        BY <1>1, QueueTypes
      <3>2. Head(s2c).ciphertext.plaintext \in Plaintexts
        BY <3>1 DEF Frames, Ciphertexts
      <3>3. Len(sent) \in Nat
        BY DEF IInv, Types
      <3>. QED
        BY <3>2, <3>3 DEF Answers
    <2>. HIDE DEF answer
    <2>. QED
      BY <1>1, <1>2, <2>1, <2>2, SessionShows
  <1>. QED
    BY <1>1, <1>3, <1>4

\* A verified request is served, also when the answer cannot be encrypted or written.
LEMMA ReadsServes ==
  ASSUME IInv, IInv', ServerReads
  PROVE  Session!Next
  <1>. DEFINE request == <<Head(c2s).msg_type, Head(c2s).ciphertext.plaintext>>
  <1>1. UNCHANGED <<cpc, sent, shown>> /\ spc = "transport" /\ c2s # <<>>
    BY DEF ServerReads, Readable, clientVars
  <1>2. /\ spc' \in {"transport", "ok", "err"}
        /\ \/ handled' = handled
           \/ handled' = Append(handled, request) /\ Head(c2s).msg_type \in {"DataPayload", "Heartbeat"}
    BY <1>1 DEF ServerReads, ServerAnswers, ServerFails
  <1>3. ServerPhase = "open" /\ ServerPhase' \in {"open", "closed"} /\ ClientPhase' = ClientPhase
    BY <1>1, <1>2 DEF ServerPhase, ClientPhase, Phase
  <1>4. CASE handled' = handled
    BY <1>1, <1>3, <1>4, SessionCloses
  <1>5. CASE handled' = Append(handled, request) /\ Head(c2s).msg_type \in {"DataPayload", "Heartbeat"}
    <2>1. request \in Requests
      <3>1. Head(c2s) \in Frames
        BY <1>1, QueueTypes
      <3>2. Head(c2s).ciphertext.plaintext \in Plaintexts
        BY <3>1 DEF Frames, Ciphertexts
      <3>. QED
        BY <1>5, <3>2 DEF Requests
    <2>. HIDE DEF request
    <2>. QED
      BY <1>1, <1>3, <1>5, <2>1, SessionServes
  <1>. QED
    BY <1>2, <1>4, <1>5

\* Over TCP, which loses the link but neither repeats nor alters frames, the connection
\* is a request and reply session: also when an end closes, times out or fails to write
\* in the middle of an exchange.
THEOREM SessionImplemented ==
  ASSUME Tcp
  PROVE  Spec => ImplementsRequestReply
  <1>1. ASSUME IInv, NobodyElse, Turns, IInv', Turns', Next
        PROVE  Session!Next
    BY <1>1, ClientQuiet, ServerQuiet, FaultQuiet, ReadsInitOpens, ReadsRespOpens,
       RequestAsks, ReadsReplyShows, ReadsServes, Zenon
    DEF Next, Client, User, Server
  <1>2. ASSUME UNCHANGED vars
        PROVE  UNCHANGED Session!vars
    <2>1. UNCHANGED <<cpc, spc, sent, handled, shown>>
      BY <1>2 DEF vars, clientVars, serverVars
    <2>2. ClientPhase' = ClientPhase /\ ServerPhase' = ServerPhase /\ ShownTexts' = ShownTexts
      BY <2>1 DEF ClientPhase, ServerPhase, ShownTexts
    <2>. QED
      BY <2>1, <2>2, Zenon DEF Session!vars, ClientPhase, ServerPhase, ShownTexts
  <1>3. IInv /\ NobodyElse /\ Turns /\ IInv' /\ Turns' /\ [Next]_vars => [Session!Next]_(Session!vars)
    BY <1>1, <1>2
  <1>. QED
    BY <1>3, SessionBegins, InductiveInvariant, TakeTurns, PTL
    DEF Spec, ImplementsRequestReply, Session!Spec

=============================================================================
