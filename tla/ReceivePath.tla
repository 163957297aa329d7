---------------------------- MODULE ReceivePath ----------------------------
(***************************************************************************)
(* How the server verifies a transport frame: ReplayFilter, then           *)
(* CipherState::decrypt, the first error ending the session (the           *)
(* DataPayload arm of handle_client_with_prologue, src/src/server.rs).     *)
(* Module Tunnel runs it behind TunnelClient, which waits for an answer    *)
(* before it sends again; here the sender does not wait and frames arrive  *)
(* late, repeatedly or never, the situation the filter was written for.    *)
(***************************************************************************)
EXTENDS ReplayWindow, NoiseCrypto, Sequences

ASSUME PathAssumption == MaxNonce <= MaxSeq

VARIABLES
  tx,         \* the sender's cipher
  frames,     \* every ciphertext sent; the network may deliver any of them
  rx, filter, \* the server's cipher and filter
  session,    \* "open" until the handler returns an error
  delivered   \* history: the frames that passed both checks

vars == <<tx, frames, rx, filter, session, delivered>>

AAD == "tunnel-data"

Init ==
  /\ tx = new("client write key") /\ rx = new("client write key")
  /\ frames = <<>>
  /\ filter = with_window_size(BitmapBits)
  /\ session = "open"
  /\ delivered = <<>>

\* The sender is done at the last nonce.
Send ==
  /\ encrypts(tx)
  /\ frames' = Append(frames, seal(tx, AAD, Len(frames) + 1))
  /\ tx' = encrypt(tx)
  /\ UNCHANGED <<rx, filter, session, delivered>>

\* Variant: the handler logs the error and reads on.
SessionFails_logged == UNCHANGED session

SessionFails == session' = "closed"

Deliver(i) ==
  LET frame == frames[i]
  IN  /\ session = "open"
      /\ filter' = validate_and_record(filter, frame.nonce)
      /\ \/ /\ accepts(filter, frame.nonce) /\ decrypts(rx, frame, AAD, frame.nonce)
            /\ rx' = decrypt(rx)
            /\ delivered' = Append(delivered, i)
            /\ UNCHANGED session
         \/ /\ ~(accepts(filter, frame.nonce) /\ decrypts(rx, frame, AAD, frame.nonce))
            /\ SessionFails
            /\ UNCHANGED <<rx, delivered>>
      /\ UNCHANGED <<tx, frames>>

Next == Send \/ \E i \in DOMAIN frames : Deliver(i)

Spec == Init /\ [][Next]_vars

-----------------------------------------------------------------------------
(* Properties *)

\* What the server handles is the sender's stream from its start, without
\* gaps, repetitions or exchanges, whatever the network does.
DeliveredInOrder == \A n \in DOMAIN delivered : delivered[n] = n

\* The filter never stands in the way of the cipher: while the session is open
\* it admits the one frame the cipher can still decrypt.
NextFrameAdmitted == session = "open" => accepts(filter, rx.nonce)

\* A frame that was not delivered before and is inside the window does not end
\* the session when it overtakes another one or is overtaken.
OutOfOrderTolerated ==
  [][\A i \in DOMAIN frames :
       Deliver(i) /\ accepts(filter, frames[i].nonce) => session' = "open"]_vars

=============================================================================
