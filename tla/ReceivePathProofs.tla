------------------------- MODULE ReceivePathProofs -------------------------
(***************************************************************************)
(* What the server handles, in module ReceivePath, for every window width, *)
(* every largest nonce and every sequence of deliveries.                   *)
(***************************************************************************)
EXTENDS ReceivePath, ReplayWindowLemmas, SequenceTheorems, TLAPS

USE NonceAssumption, PathAssumption

-----------------------------------------------------------------------------
(* The inductive invariant *)

Key == "client write key"
Frames == [key : {Key}, nonce : Nonces, aad : {AAD}, plaintext : Nat, intact : {TRUE}]

PathTypes ==
  /\ tx \in [key : {Key}, nonce : Nonces] /\ rx \in [key : {Key}, nonce : Nonces]
  /\ frames \in Seq(Frames)
  /\ filter \in ReplayFilters
  /\ session \in {"open", "closed"}
  /\ delivered \in Seq(Nat)

\* The frames carry the nonces in order, and the sender's counter is the next.
FramesNumbered ==
  /\ Len(frames) = tx.nonce
  /\ \A i \in DOMAIN frames : frames[i].nonce = i - 1

\* The receiver's counter is the number of frames it let through.
CounterIsLength ==
  /\ Len(delivered) = rx.nonce
  /\ rx.nonce <= tx.nonce

\* While the session is open, the newest number the filter has seen is the one
\* before the receiver's counter.
FilterInStep ==
  session = "open" =>
    IF filter.initialized THEN filter.last_seq = rx.nonce - 1 ELSE rx.nonce = 0

IInv ==
  /\ PathTypes
  /\ FramesNumbered
  /\ CounterIsLength
  /\ FilterInStep
  /\ DeliveredInOrder

-----------------------------------------------------------------------------

\* Two ciphers at nonce 0 and a new filter satisfy the invariant.
LEMMA InitIInv == Init => IInv
  <1>. SUFFICES ASSUME Init PROVE IInv
    OBVIOUS
  <1>0. /\ tx = [key |-> "client write key", nonce |-> 0] /\ rx = tx
        /\ frames = <<>> /\ delivered = <<>> /\ session = "open"
    BY Zenon DEF Init, new, with_nonce
  <1>1. with_window_size(BitmapBits) \in ReplayFilters
    BY WindowAssumption, ClampedSize DEF with_window_size, EmptyFilter, ReplayFilters, Seqs
  <1>2. PathTypes
    <2>1. [key |-> "client write key", nonce |-> 0] \in [key : {Key}, nonce : Nonces]
      BY DEF Key, Nonces
    <2>2. <<>> \in Seq(Frames) /\ <<>> \in Seq(Nat)
      OBVIOUS
    <2>. QED
      BY <1>0, <1>1, <2>1, <2>2 DEF Init, PathTypes
  <1>3. FramesNumbered /\ CounterIsLength /\ DeliveredInOrder
    <2>1. tx.nonce = 0 /\ rx.nonce = 0
      BY <1>0
    <2>2. Len(<<>>) = 0 /\ DOMAIN <<>> = {}
      OBVIOUS
    <2>3. Len(frames) = 0 /\ Len(delivered) = 0 /\ DOMAIN frames = {} /\ DOMAIN delivered = {}
      BY <1>0, <2>2, Zenon
    <2>. QED
      BY <2>1, <2>3 DEF FramesNumbered, CounterIsLength, DeliveredInOrder
  <1>4. FilterInStep
    <2>1. ~filter.initialized
      BY DEF Init, with_window_size, EmptyFilter
    <2>. QED
      BY <1>0, <2>1 DEF FilterInStep
  <1>. QED
    BY <1>2, <1>3, <1>4 DEF IInv

\* A frame that is sent carries the next number.
LEMMA SendIInv == IInv /\ Send => IInv'
  <1>. SUFFICES ASSUME IInv, Send PROVE IInv'
    OBVIOUS
  <1>. DEFINE f == seal(tx, AAD, Len(frames) + 1)
  <1>1. /\ tx.key = Key /\ tx.nonce \in Nonces /\ tx.nonce < MaxNonce
        /\ rx.nonce \in Nonces
    BY DEF IInv, PathTypes, Send, encrypts, is_exhausted, Nonces
  <1>2. tx' = [key |-> Key, nonce |-> tx.nonce + 1]
    BY <1>1 DEF Send, encrypt, IInv, PathTypes
  <1>3. /\ frames \in Seq(Frames)
        /\ f \in Frames /\ f.nonce = tx.nonce
    BY <1>1 DEF IInv, PathTypes, Frames, seal, Ciphertext
  <1>4. frames' = Append(frames, f)
    BY DEF Send
  <1>. HIDE DEF f
  <1>5. /\ frames' \in Seq(Frames)
        /\ Len(frames') = Len(frames) + 1
        /\ DOMAIN frames' = 1 .. Len(frames) + 1
        /\ \A i \in 1 .. Len(frames) : frames'[i] = frames[i]
        /\ frames'[Len(frames) + 1] = f
        /\ DOMAIN frames = 1 .. Len(frames)
        /\ Len(frames) \in Nat
    BY <1>3, <1>4
  <1>6. UNCHANGED <<rx, filter, session, delivered>>
    BY DEF Send
  <1>7. PathTypes'
    BY <1>1, <1>2, <1>5, <1>6 DEF IInv, PathTypes, Nonces
  <1>8. FramesNumbered'
    BY <1>1, <1>2, <1>3, <1>5 DEF IInv, FramesNumbered, Nonces
  <1>9. CounterIsLength'
    BY <1>1, <1>2, <1>6 DEF IInv, CounterIsLength, Nonces
  <1>10. FilterInStep' /\ DeliveredInOrder'
    BY <1>6 DEF IInv, FilterInStep, DeliveredInOrder
  <1>. QED
    BY <1>7, <1>8, <1>9, <1>10 DEF IInv

\* A frame that is delivered is the one the counter stands at, and the filter
\* moves with the counter; any other closes the session.
LEMMA DeliverIInv ==
  ASSUME IInv, NEW i \in DOMAIN frames, Deliver(i)
  PROVE  IInv'
  <1>. DEFINE frame == frames[i]
              passes == accepts(filter, frame.nonce) /\ decrypts(rx, frame, AAD, frame.nonce)
  <1>1. /\ frame \in Frames /\ frame.nonce \in Nonces /\ frame.nonce = i - 1
        /\ i \in 1 .. Len(frames)
    <2>1. frames \in Seq(Frames)
      BY DEF IInv, PathTypes
    <2>2. frame \in Frames /\ i \in 1 .. Len(frames)
      BY <2>1
    <2>. QED
      BY <2>2 DEF IInv, FramesNumbered, Frames
  <1>2. frame.nonce \in Seqs /\ filter \in ReplayFilters
    <2>1. frame.nonce \in Seqs
      BY <1>1, WindowAssumption DEF Nonces, Seqs
    <2>. QED
      BY <2>1 DEF IInv, PathTypes
  <1>3. validate_and_record(filter, frame.nonce) \in ReplayFilters
    BY <1>2, ValidateType
  <1>4. UNCHANGED <<tx, frames>> /\ session = "open"
    BY DEF Deliver
  <1>5. filter' = validate_and_record(filter, frame.nonce)
    BY DEF Deliver
  <1>6. /\ rx.key = Key /\ rx.nonce \in Nonces /\ tx.nonce \in Nonces
        /\ delivered \in Seq(Nat) /\ Len(delivered) = rx.nonce /\ rx.nonce <= tx.nonce
    BY DEF IInv, PathTypes, CounterIsLength
  <1>7. CASE passes
    <2>1. rx' = decrypt(rx) /\ delivered' = Append(delivered, i) /\ session' = "open"
      BY <1>4, <1>7 DEF Deliver
    <2>2. frame.nonce = rx.nonce
      BY <1>7 DEF decrypts
    <2>3. rx.nonce < tx.nonce /\ i = rx.nonce + 1
      BY <1>1, <1>6, <2>2 DEF IInv, FramesNumbered, Nonces
    <2>4. rx' = [key |-> Key, nonce |-> rx.nonce + 1]
      <3>1. (rx.nonce + 1) % (MaxNonce + 1) = rx.nonce + 1
        <4>1. rx.nonce \in Nat /\ rx.nonce + 1 <= MaxNonce
          BY <1>6, <2>3 DEF Nonces
        <4>. HIDE DEF frame
        <4>. QED
          BY <4>1
      <3>2. rx = [key |-> Key, nonce |-> rx.nonce]
        BY DEF IInv, PathTypes
      <3>3. rx' = [rx EXCEPT !.nonce = (rx.nonce + 1) % (MaxNonce + 1)]
        BY <2>1 DEF decrypt
      <3>. QED
        BY <3>1, <3>2, <3>3
    <2>5. /\ delivered' \in Seq(Nat) /\ Len(delivered') = rx.nonce + 1
          /\ DOMAIN delivered' = 1 .. rx.nonce + 1
          /\ DOMAIN delivered = 1 .. rx.nonce
          /\ \A n \in 1 .. rx.nonce : delivered'[n] = delivered[n]
          /\ delivered'[rx.nonce + 1] = i
      BY <1>1, <1>6, <2>1, <2>3 DEF Nonces
    <2>6. PathTypes'
      BY <1>3, <1>4, <1>5, <1>6, <2>1, <2>3, <2>4, <2>5 DEF IInv, PathTypes, Nonces
    <2>7. FramesNumbered' /\ CounterIsLength'
      BY <1>4, <1>6, <2>3, <2>4, <2>5 DEF IInv, FramesNumbered, CounterIsLength, Nonces
    <2>8. DeliveredInOrder'
      BY <1>6, <2>3, <2>5 DEF IInv, DeliveredInOrder, Nonces
    <2>9. FilterInStep'
      <3>1. filter.initialized => frame.nonce > filter.last_seq
        BY <1>4, <1>6, <2>2 DEF IInv, FilterInStep, Nonces
      <3>2. filter'.initialized /\ filter'.last_seq = frame.nonce
        BY <1>2, <1>5, <3>1, NewestRecorded
      <3>3. rx'.nonce - 1 = frame.nonce
        BY <1>6, <2>2, <2>4 DEF Nonces
      <3>. QED
        BY <3>2, <3>3 DEF FilterInStep
    <2>. QED
      BY <2>6, <2>7, <2>8, <2>9 DEF IInv
  <1>8. CASE ~passes
    <2>1. UNCHANGED <<rx, delivered>> /\ session' = "closed"
      BY <1>8 DEF Deliver, SessionFails
    <2>2. PathTypes'
      BY <1>3, <1>4, <1>5, <2>1 DEF IInv, PathTypes
    <2>3. FramesNumbered' /\ CounterIsLength' /\ DeliveredInOrder'
      BY <1>4, <2>1 DEF IInv, FramesNumbered, CounterIsLength, DeliveredInOrder
    <2>4. FilterInStep'
      BY <2>1 DEF FilterInStep
    <2>. QED
      BY <2>2, <2>3, <2>4 DEF IInv
  <1>. QED
    BY <1>7, <1>8

-----------------------------------------------------------------------------

\* The inductive invariant holds in every reachable state.
THEOREM InductiveInvariant == Spec => []IInv
  <1>1. IInv /\ [Next]_vars => IInv'
    <2>. SUFFICES ASSUME IInv, [Next]_vars PROVE IInv'
      OBVIOUS
    <2>1. CASE Send
      BY <2>1, SendIInv
    <2>2. ASSUME NEW i \in DOMAIN frames, Deliver(i) PROVE IInv'
      BY <2>2, DeliverIInv
    <2>3. CASE UNCHANGED vars
      BY <2>3 DEF vars, IInv, PathTypes, FramesNumbered, CounterIsLength, FilterInStep,
                  DeliveredInOrder
    <2>. QED
      BY <2>1, <2>2, <2>3 DEF Next
  <1>. QED
    BY <1>1, InitIInv, PTL DEF Spec

\* The server handles the sender's stream from its start, without gaps,
\* repetitions or exchanges.
THEOREM StreamDelivered == Spec => []DeliveredInOrder
  <1>1. IInv => DeliveredInOrder
    BY DEF IInv
  <1>. QED
    BY <1>1, InductiveInvariant, PTL

\* The filter admits the one frame the cipher can still decrypt.
THEOREM FilterAdmitsNext == Spec => []NextFrameAdmitted
  <1>1. IInv => NextFrameAdmitted
    BY DEF IInv, PathTypes, FilterInStep, NextFrameAdmitted, accepts, Nonces
  <1>. QED
    BY <1>1, InductiveInvariant, PTL

=============================================================================
