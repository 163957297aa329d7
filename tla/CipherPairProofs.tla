-------------------------- MODULE CipherPairProofs --------------------------
(***************************************************************************)
(* The properties of module CipherPair for every largest nonce, every      *)
(* number of keys and messages, and every start nonce.                     *)
(***************************************************************************)
EXTENDS CipherPair, FiniteSetTheorems, TLAPS

USE NonceAssumption, PairAssumption

-----------------------------------------------------------------------------
(* The inductive invariant *)

\* Every released ciphertext was sealed under the sender's key or an earlier
\* one, below the last nonce and, without a reset, below the sender's counter.
BelowCounter ==
  \A i \in DOMAIN released :
    /\ released[i].key <= tx.key
    /\ released[i].nonce < MaxNonce
    /\ released[i].key = tx.key /\ tx.key \notin reset_keys => released[i].nonce < tx.nonce

\* Without a reset the nonces under one key grow with the order of release.
Increasing ==
  \A i, j \in DOMAIN released :
    /\ i < j
    /\ released[i].key = released[j].key
    /\ released[i].key \notin reset_keys
    => released[i].nonce < released[j].nonce

\* Without a reset the receiver never gets ahead of the sender.
ReceiverBehind ==
  rx.key \notin reset_keys =>
    /\ rx.key = tx.key => rx.nonce <= tx.nonce
    /\ rx.key > tx.key => rx.nonce = 0

IInv ==
  /\ TypeOK
  /\ BelowCounter
  /\ Increasing
  /\ ReceiverBehind
  /\ ~overflowed

-----------------------------------------------------------------------------

Messages == [key : Keys, nonce : Nonces, aad : AADs, plaintext : Nat, intact : {TRUE}]

\* A released ciphertext carries a key and a nonce of the pair.
LEMMA ReleasedTyped ==
  ASSUME TypeOK, NEW i \in DOMAIN released
  PROVE  released[i].key \in Keys /\ released[i].nonce \in Nonces
  <1>1. released \in Seq(Messages)
    BY DEF TypeOK, Messages
  <1>2. released[i] \in Messages
    BY <1>1
  <1>. QED
    BY <1>2, Zenon DEF Messages

\* Two ends built from one key and one nonce satisfy the invariant.
LEMMA InitIInv == Init => IInv
  <1>. SUFFICES ASSUME Init PROVE IInv
    OBVIOUS
  <1>. USE DEF Init, with_nonce
  <1>1. start \in Nonces /\ 1 \in Keys
    BY DEF Keys
  <1>2. TypeOK
    <2>1. tx \in CipherStates /\ rx \in CipherStates
      BY <1>1 DEF CipherStates
    <2>2. released \in Seq(Messages) /\ opened \in Seq(DOMAIN released)
      OBVIOUS
    <2>. QED
      BY <1>1, <2>1, <2>2 DEF TypeOK, Messages
  <1>3. BelowCounter /\ Increasing /\ ReceiverBehind
    BY <1>1 DEF BelowCounter, Increasing, ReceiverBehind, Nonces
  <1>. QED
    BY <1>2, <1>3 DEF IInv

\* encrypt keeps the invariant: what it releases carries the counter it then
\* moves past, and at the last nonce it releases nothing.
LEMMA EncryptIInv ==
  ASSUME IInv, NEW aad \in AADs, Encrypt(aad)
  PROVE  IInv'
  <1>. DEFINE m == seal(tx, aad, Len(released) + 1)
  <1>1. CASE ~encrypts(tx)
    <2>1. UNCHANGED vars
      BY <1>1 DEF Encrypt, encrypt, vars
    <2>. QED
      BY <2>1 DEF vars, IInv, TypeOK, BelowCounter, Increasing, ReceiverBehind
  <1>2. CASE encrypts(tx)
    <2>1. /\ tx.key \in Keys /\ tx.nonce \in Nonces /\ tx.nonce < MaxNonce
          /\ rx.key \in Keys /\ rx.nonce \in Nonces
      BY <1>2 DEF IInv, TypeOK, CipherStates, encrypts, is_exhausted, Nonces
    <2>2. tx' = [key |-> tx.key, nonce |-> tx.nonce + 1]
      BY <1>2, <2>1 DEF Encrypt, encrypt, IInv, TypeOK, CipherStates
    <2>3. /\ released \in Seq(Messages)
          /\ m \in Messages /\ m.key = tx.key /\ m.nonce = tx.nonce
      BY <2>1 DEF IInv, TypeOK, Messages, seal, Ciphertext
    <2>4. released' = Append(released, m)
      BY <1>2 DEF Encrypt
    <2>. HIDE DEF m
    <2>5. /\ released' \in Seq(Messages)
          /\ DOMAIN released' = 1 .. Len(released) + 1
          /\ \A i \in 1 .. Len(released) : released'[i] = released[i]
          /\ released'[Len(released) + 1] = m
          /\ DOMAIN released = 1 .. Len(released)
          /\ Len(released) \in Nat
      BY <2>3, <2>4
    <2>6. UNCHANGED <<start, rx, opened, reset_keys, overflowed>>
      BY DEF Encrypt
    <2>7. TypeOK'
      <3>1. tx' \in CipherStates
        BY <2>1, <2>2 DEF CipherStates, Nonces
      <3>2. opened' \in Seq(DOMAIN released')
        <4>1. opened \in Seq(DOMAIN released) /\ DOMAIN released \subseteq DOMAIN released'
          BY <2>5 DEF IInv, TypeOK
        <4>. QED
          BY <2>6, <4>1
      <3>. QED
        BY <2>5, <2>6, <3>1, <3>2 DEF IInv, TypeOK, Messages
    <2>8. BelowCounter'
      <3>. SUFFICES ASSUME NEW i \in DOMAIN released'
                    PROVE  /\ released'[i].key <= tx'.key
                           /\ released'[i].nonce < MaxNonce
                           /\ released'[i].key = tx'.key /\ tx'.key \notin reset_keys'
                                => released'[i].nonce < tx'.nonce
        BY DEF BelowCounter
      <3>0. tx'.key = tx.key /\ tx'.nonce = tx.nonce + 1
        BY <2>2
      <3>1. CASE i \in DOMAIN released
        <4>1. released'[i] = released[i]
          BY <2>5, <3>1
        <4>2. released[i].nonce \in Nonces
          BY <3>1, ReleasedTyped DEF IInv
        <4>. QED
          BY <2>1, <2>6, <3>0, <3>1, <4>1, <4>2 DEF IInv, BelowCounter, Nonces
      <3>2. CASE i = Len(released) + 1
        BY <2>1, <2>3, <2>5, <3>0, <3>2 DEF Keys, Nonces
      <3>. QED
        BY <2>5, <3>1, <3>2
    <2>9. Increasing'
      <3>. SUFFICES ASSUME NEW i \in DOMAIN released', NEW j \in DOMAIN released', i < j,
                           released'[i].key = released'[j].key,
                           released'[i].key \notin reset_keys'
                    PROVE  released'[i].nonce < released'[j].nonce
        BY DEF Increasing
      <3>1. i \in DOMAIN released /\ released'[i] = released[i]
        BY <2>5
      <3>2. CASE j \in DOMAIN released
        BY <2>5, <2>6, <3>1, <3>2 DEF IInv, Increasing
      <3>3. CASE j = Len(released) + 1
        BY <2>3, <2>5, <2>6, <3>1, <3>3 DEF IInv, BelowCounter
      <3>. QED
        BY <2>5, <3>2, <3>3
    <2>10. ReceiverBehind'
      BY <2>1, <2>2, <2>6 DEF IInv, ReceiverBehind, Keys, Nonces
    <2>. QED
      BY <2>6, <2>7, <2>8, <2>9, <2>10 DEF IInv
  <1>. QED
    BY <1>1, <1>2

\* decrypt keeps the invariant: it only moves to a nonce some ciphertext carried,
\* and none carries the last one.
LEMMA DecryptIInv ==
  ASSUME IInv, NEW i \in DOMAIN released, NEW aad \in AADs, NEW n \in Nonces,
         Decrypt(i, aad, n)
  PROVE  IInv'
  <1>1. released[i].key = rx.key /\ released[i].nonce = rx.nonce
    BY DEF Decrypt, decrypts, Opens
  <1>2. rx.key \in Keys /\ rx.nonce \in Nonces /\ tx.key \in Keys /\ tx.nonce \in Nonces
    BY DEF IInv, TypeOK, CipherStates
  <1>3. rx.nonce < MaxNonce
    BY <1>1 DEF IInv, BelowCounter
  <1>4. rx' = [key |-> rx.key, nonce |-> rx.nonce + 1]
    <2>1. (rx.nonce + 1) % (MaxNonce + 1) = rx.nonce + 1
      BY <1>2, <1>3 DEF Nonces
    <2>2. rx = [key |-> rx.key, nonce |-> rx.nonce]
      BY DEF IInv, TypeOK, CipherStates
    <2>3. rx' = [rx EXCEPT !.nonce = (rx.nonce + 1) % (MaxNonce + 1)]
      BY DEF Decrypt, decrypt
    <2>. QED
      BY <2>1, <2>2, <2>3
  <1>5. /\ UNCHANGED <<start, tx, released, reset_keys>>
        /\ opened' = Append(opened, i)
        /\ ~overflowed'
    <2>1. ~is_exhausted(rx)
      BY <1>2, <1>3 DEF is_exhausted, Nonces
    <2>2. overflowed' = (overflowed \/ is_exhausted(rx))
      BY DEF Decrypt
    <2>3. ~overflowed'
      BY <2>1, <2>2 DEF IInv
    <2>. QED
      BY <2>3 DEF Decrypt
  <1>6. TypeOK'
    <2>1. rx' \in CipherStates
      BY <1>2, <1>3, <1>4 DEF CipherStates, Nonces
    <2>2. opened' \in Seq(DOMAIN released')
      BY <1>5 DEF IInv, TypeOK
    <2>3. overflowed' \in BOOLEAN
      BY DEF Decrypt
    <2>. QED
      BY <1>5, <2>1, <2>2, <2>3 DEF IInv, TypeOK
  <1>7. BelowCounter' /\ Increasing'
    BY <1>5 DEF IInv, BelowCounter, Increasing
  <1>8. ReceiverBehind'
    BY <1>1, <1>2, <1>4, <1>5 DEF IInv, ReceiverBehind, BelowCounter, Keys, Nonces
  <1>. QED
    BY <1>5, <1>6, <1>7, <1>8 DEF IInv

\* A new key on either end starts at nonce 0 with nothing released under it.
LEMMA RekeyIInv ==
  ASSUME IInv, RekeySender \/ RekeyReceiver
  PROVE  IInv'
  <1>1. rx.key \in Keys /\ rx.nonce \in Nonces /\ tx.key \in Keys /\ tx.nonce \in Nonces
    BY DEF IInv, TypeOK, CipherStates
  <1>2. CASE RekeySender
    <2>1. /\ tx' = [key |-> tx.key + 1, nonce |-> 0]
          /\ UNCHANGED <<start, rx, released, opened, reset_keys, overflowed>>
      BY <1>2 DEF RekeySender, rekey, IInv, TypeOK, CipherStates
    <2>2. TypeOK'
      BY <1>1, <1>2, <2>1 DEF IInv, TypeOK, CipherStates, RekeySender, Keys, Nonces
    <2>3. BelowCounter'
      <3>1. tx.key \in Nat /\ tx'.key = tx.key + 1 /\ released' = released
        BY <1>1, <2>1 DEF Keys
      <3>2. \A i \in DOMAIN released :
              /\ released[i].key \in Nat /\ released[i].key <= tx.key
              /\ released[i].nonce < MaxNonce
        BY ReleasedTyped DEF IInv, BelowCounter, Keys
      <3>3. \A i \in DOMAIN released :
              released[i].key <= tx.key + 1 /\ released[i].key # tx.key + 1
        BY <3>1, <3>2
      <3>. QED
        BY <3>1, <3>2, <3>3, Zenon DEF BelowCounter
    <2>4. Increasing' /\ ReceiverBehind'
      BY <1>1, <2>1 DEF IInv, Increasing, ReceiverBehind, Keys, Nonces
    <2>. QED
      BY <2>1, <2>2, <2>3, <2>4 DEF IInv
  <1>3. CASE RekeyReceiver
    <2>1. /\ rx' = [key |-> rx.key + 1, nonce |-> 0]
          /\ UNCHANGED <<start, tx, released, opened, reset_keys, overflowed>>
      BY <1>3 DEF RekeyReceiver, rekey, IInv, TypeOK, CipherStates
    <2>2. TypeOK'
      BY <1>1, <1>3, <2>1 DEF IInv, TypeOK, CipherStates, RekeyReceiver, Keys, Nonces
    <2>3. BelowCounter' /\ Increasing' /\ ReceiverBehind'
      BY <1>1, <2>1 DEF IInv, BelowCounter, Increasing, ReceiverBehind, Nonces
    <2>. QED
      BY <2>1, <2>2, <2>3 DEF IInv
  <1>. QED
    BY <1>2, <1>3

\* A reset takes its key out of what the invariant speaks about.
LEMMA ResetIInv ==
  ASSUME IInv, ResetSender \/ ResetReceiver
  PROVE  IInv'
  <1>1. rx.key \in Keys /\ tx.key \in Keys
    BY DEF IInv, TypeOK, CipherStates
  <1>2. CASE ResetSender
    <2>1. /\ tx' = [key |-> tx.key, nonce |-> 0]
          /\ reset_keys' = reset_keys \cup {tx.key}
          /\ UNCHANGED <<start, rx, released, opened, overflowed>>
      BY <1>2 DEF ResetSender, reset_nonce, IInv, TypeOK, CipherStates
    <2>2. TypeOK'
      BY <1>1, <2>1 DEF IInv, TypeOK, CipherStates, Nonces
    <2>3. BelowCounter' /\ Increasing' /\ ReceiverBehind'
      BY <2>1 DEF IInv, BelowCounter, Increasing, ReceiverBehind
    <2>. QED
      BY <2>1, <2>2, <2>3 DEF IInv
  <1>3. CASE ResetReceiver
    <2>1. /\ rx' = [key |-> rx.key, nonce |-> 0]
          /\ reset_keys' = reset_keys \cup {rx.key}
          /\ UNCHANGED <<start, tx, released, opened, overflowed>>
      BY <1>3 DEF ResetReceiver, reset_nonce, IInv, TypeOK, CipherStates
    <2>2. TypeOK'
      BY <1>1, <2>1 DEF IInv, TypeOK, CipherStates, Nonces
    <2>3. BelowCounter' /\ Increasing' /\ ReceiverBehind'
      BY <2>1 DEF IInv, BelowCounter, Increasing, ReceiverBehind
    <2>. QED
      BY <2>1, <2>2, <2>3 DEF IInv
  <1>. QED
    BY <1>2, <1>3

\* The inductive invariant holds in every reachable state.
THEOREM InductiveInvariant == Spec => []IInv
  <1>1. IInv /\ [Next]_vars => IInv'
    <2>. SUFFICES ASSUME IInv, [Next]_vars PROVE IInv'
      OBVIOUS
    <2>1. ASSUME NEW aad \in AADs, Encrypt(aad) PROVE IInv'
      BY <2>1, EncryptIInv
    <2>2. ASSUME NEW i \in DOMAIN released, NEW aad \in AADs, NEW n \in Nonces,
                 Decrypt(i, aad, n)
          PROVE  IInv'
      BY <2>2, DecryptIInv
    <2>3. CASE RekeySender \/ RekeyReceiver
      BY <2>3, RekeyIInv
    <2>4. CASE ResetSender \/ ResetReceiver
      BY <2>4, ResetIInv
    <2>5. CASE UNCHANGED vars
      BY <2>5 DEF vars, IInv, TypeOK, BelowCounter, Increasing, ReceiverBehind
    <2>. QED
      BY <2>1, <2>2, <2>3, <2>4, <2>5 DEF Next, DecryptFails
  <1>. QED
    BY <1>1, InitIInv, PTL DEF Spec

\* Both counters stay within u64 and no decryption is recorded of a ciphertext
\* that was not released.
THEOREM TypeCorrect == Spec => []TypeOK
  <1>1. IInv => TypeOK
    BY DEF IInv
  <1>. QED
    BY <1>1, InductiveInvariant, PTL

\* encrypt never seals two released messages under one key and nonce, unless
\* reset_nonce was called under that key.
THEOREM NoNonceReuse == Spec => []NonceReuseNeedsReset
  <1>1. IInv => NonceReuseNeedsReset
    <2>. SUFFICES ASSUME IInv, NEW i \in DOMAIN released, NEW j \in DOMAIN released,
                         released[i].key = released[j].key,
                         released[i].nonce = released[j].nonce,
                         released[i].key \notin reset_keys
                  PROVE  i = j
      BY DEF NonceReuseNeedsReset
    <2>1. i \in Nat /\ j \in Nat
      BY DEF IInv, TypeOK
    <2>2. released[i].nonce \in Nat
      BY ReleasedTyped DEF IInv, Nonces
    <2>3. ~(i < j) /\ ~(j < i)
      BY <2>2 DEF IInv, Increasing
    <2>. QED
      BY <2>1, <2>3
  <1>. QED
    BY <1>1, InductiveInvariant, PTL

\* The unchecked increment of decrypt never overflows.
THEOREM DecryptIncrementSafe == Spec => []DecryptNeverOverflows
  <1>1. IInv => DecryptNeverOverflows
    BY DEF IInv, DecryptNeverOverflows
  <1>. QED
    BY <1>1, InductiveInvariant, PTL

-----------------------------------------------------------------------------
(* The histories of what is released and opened: their inductive invariant *)

\* The messages decrypt returned Ok for under key k.
OpenedUnder(k) ==
  { opened[n] : n \in { m \in DOMAIN opened : released[opened[m]].key = k } }

\* The receiver takes the keys in order.
OpenedUpToKey == \A n \in DOMAIN opened : released[opened[n]].key <= rx.key

\* Without a reset, what the receiver opened under its key is what was released
\* below its counter.
OpenedBelowCounter ==
  rx.key \notin reset_keys =>
    OpenedUnder(rx.key) = { r \in ReleasedUnder(rx.key) : released[r].nonce < rx.nonce }

\* Without a reset, the sender's counter is the number of messages released under
\* its key, counted from the start nonce.
Base == IF tx.key = 1 THEN start ELSE 0

ReleasedCounted ==
  tx.key \notin reset_keys => Cardinality(ReleasedUnder(tx.key)) = tx.nonce - Base

HInv ==
  /\ OpenedUpToKey
  /\ OpenedBelowCounter
  /\ OpenedInOrder
  /\ ReleasedCounted

-----------------------------------------------------------------------------
(* Facts about the histories *)

\* The types the proofs below use, in one place.
LEMMA Typed ==
  ASSUME TypeOK
  PROVE  /\ tx.key \in Keys /\ tx.nonce \in Nonces /\ rx.key \in Keys /\ rx.nonce \in Nonces
         /\ start \in Nonces
         /\ Len(released) \in Nat /\ DOMAIN released = 1 .. Len(released)
         /\ Len(opened) \in Nat /\ DOMAIN opened = 1 .. Len(opened)
         /\ \A n \in DOMAIN opened : opened[n] \in DOMAIN released
  <1>1. released \in Seq(Messages) /\ opened \in Seq(DOMAIN released)
    BY DEF TypeOK, Messages
  <1>2. start \in Nonces /\ tx \in CipherStates /\ rx \in CipherStates
    BY DEF TypeOK
  <1>. QED
    BY <1>1, <1>2 DEF CipherStates

\* Below the last nonce the increment of decrypt does not wrap.
LEMMA NoWrap ==
  ASSUME NEW n \in Nat, n < MaxNonce
  PROVE  (n + 1) % (MaxNonce + 1) = n + 1
  OBVIOUS

\* There are finitely many messages under a key.
LEMMA ReleasedFinite ==
  ASSUME TypeOK, NEW k
  PROVE  IsFiniteSet(ReleasedUnder(k)) /\ Cardinality(ReleasedUnder(k)) \in Nat
  <1>1. IsFiniteSet(1 .. Len(released))
    BY Typed, FS_Interval
  <1>2. ReleasedUnder(k) \subseteq 1 .. Len(released)
    BY Typed DEF ReleasedUnder
  <1>. QED
    BY <1>1, <1>2, FS_Subset, FS_CardinalityType

\* Of two messages under one key, the earlier carries the smaller nonce.
LEMMA OrderIsNonceOrder ==
  ASSUME IInv, NEW k, k \notin reset_keys,
         NEW r \in ReleasedUnder(k), NEW s \in ReleasedUnder(k)
  PROVE  r < s <=> released[r].nonce < released[s].nonce
  <1>1. r \in DOMAIN released /\ s \in DOMAIN released
    BY DEF ReleasedUnder
  <1>2. released[r].key = k /\ released[s].key = k
    BY DEF ReleasedUnder
  <1>3. r \in Nat /\ s \in Nat
    BY <1>1, Typed DEF IInv
  <1>4. released[r].nonce \in Nat /\ released[s].nonce \in Nat
    BY <1>1, ReleasedTyped DEF IInv, Nonces
  <1>5. /\ r < s => released[r].nonce < released[s].nonce
        /\ s < r => released[s].nonce < released[r].nonce
    BY <1>1, <1>2 DEF IInv, Increasing
  <1>. QED
    BY <1>3, <1>4, <1>5

\* A step that appends a message leaves the earlier ones alone.
LEMMA AppendKeeps ==
  ASSUME IInv, NEW m, released' = Append(released, m)
  PROVE  /\ DOMAIN released' = DOMAIN released \cup {Len(released) + 1}
         /\ \A i \in DOMAIN released : released'[i] = released[i]
         /\ released'[Len(released) + 1] = m
         /\ Len(released) + 1 \notin DOMAIN released
         /\ \A k : ReleasedUnder(k)' = IF m.key = k
                                         THEN ReleasedUnder(k) \cup {Len(released) + 1}
                                         ELSE ReleasedUnder(k)
  <1>1. released \in Seq(Messages)
    BY DEF IInv, TypeOK, Messages
  <1>2. /\ Len(released) \in Nat /\ DOMAIN released = 1 .. Len(released)
        /\ DOMAIN released' = 1 .. Len(released) + 1
        /\ \A i \in 1 .. Len(released) : released'[i] = released[i]
        /\ released'[Len(released) + 1] = m
    BY <1>1
  <1>3. DOMAIN released' = DOMAIN released \cup {Len(released) + 1}
    BY <1>2
  <1>4. Len(released) + 1 \notin DOMAIN released
    BY <1>2
  <1>5. ASSUME NEW k
        PROVE  ReleasedUnder(k)' = IF m.key = k
                                     THEN ReleasedUnder(k) \cup {Len(released) + 1}
                                     ELSE ReleasedUnder(k)
    BY <1>2, <1>3, <1>4 DEF ReleasedUnder
  <1>. QED
    BY <1>2, <1>3, <1>4, <1>5

-----------------------------------------------------------------------------

\* Nothing is released or opened at first.
LEMMA InitHInv == Init => HInv
  <1>. SUFFICES ASSUME Init PROVE HInv
    OBVIOUS
  <1>1. TypeOK
    BY InitIInv DEF IInv
  <1>2. DOMAIN released = {} /\ DOMAIN opened = {}
    <2>1. DOMAIN <<>> = {}
      OBVIOUS
    <2>. QED
      BY <2>1 DEF Init
  <1>3. \A k : ReleasedUnder(k) = {} /\ OpenedUnder(k) = {}
    BY <1>2, Zenon DEF ReleasedUnder, OpenedUnder
  <1>4. OpenedUpToKey /\ OpenedBelowCounter /\ OpenedInOrder
    BY <1>2, <1>3, Zenon DEF OpenedUpToKey, OpenedBelowCounter, OpenedInOrder
  <1>5. ReleasedCounted
    <2>1. Cardinality({}) = 0
      BY FS_EmptySet
    <2>2. tx.key = 1 /\ tx.nonce = start /\ start \in Nat
      BY <1>1, Typed DEF Init, with_nonce, Nonces
    <2>. QED
      BY <1>3, <2>1, <2>2 DEF ReleasedCounted, Base
  <1>. QED
    BY <1>4, <1>5 DEF HInv

\* A released message is new, above what the receiver opened, and counted.
LEMMA EncryptHInv ==
  ASSUME IInv, HInv, NEW aad \in AADs, Encrypt(aad)
  PROVE  HInv'
  <1>. DEFINE m == seal(tx, aad, Len(released) + 1)
              r == Len(released) + 1
  <1>0. UNCHANGED <<start, rx, opened, reset_keys>>
    BY DEF Encrypt
  <1>1. CASE ~encrypts(tx)
    <2>1. UNCHANGED vars
      BY <1>1 DEF Encrypt, encrypt, vars
    <2>. QED
      BY <2>1 DEF vars, HInv, OpenedUpToKey, OpenedBelowCounter, OpenedInOrder,
                  ReleasedCounted, OpenedUnder, ReleasedUnder, Base
  <1>2. CASE encrypts(tx)
    <2>1. /\ released' = Append(released, m)
          /\ m.key = tx.key /\ m.nonce = tx.nonce
      BY <1>2 DEF Encrypt, seal, Ciphertext
    <2>2. tx' = [key |-> tx.key, nonce |-> tx.nonce + 1]
      BY <1>2 DEF Encrypt, encrypt, IInv, TypeOK, CipherStates
    <2>. HIDE DEF m
    <2>3. /\ DOMAIN released' = DOMAIN released \cup {r}
          /\ \A i \in DOMAIN released : released'[i] = released[i]
          /\ released'[r] = m /\ r \notin DOMAIN released
          /\ \A k : ReleasedUnder(k)' = IF tx.key = k THEN ReleasedUnder(k) \cup {r}
                                                      ELSE ReleasedUnder(k)
      BY <2>1, AppendKeeps
    <2>4. \A n \in DOMAIN opened : /\ opened[n] \in DOMAIN released
                                   /\ released'[opened[n]] = released[opened[n]]
      BY <2>3, Typed DEF IInv
    <2>5. \A k : OpenedUnder(k)' = OpenedUnder(k)
      BY <1>0, <2>4 DEF OpenedUnder
    <2>6. OpenedUpToKey'
      BY <1>0, <2>4 DEF HInv, OpenedUpToKey
    <2>7. OpenedBelowCounter'
      <3>. SUFFICES ASSUME NEW k, k = rx.key, k \notin reset_keys
                    PROVE  OpenedUnder(k)
                             = { s \in ReleasedUnder(k)' : released'[s].nonce < rx.nonce }
        BY <1>0, <2>5 DEF OpenedBelowCounter
      <3>1. OpenedUnder(k) = { s \in ReleasedUnder(k) : released[s].nonce < rx.nonce }
        BY DEF HInv, OpenedBelowCounter
      <3>2. tx.key = k => ~(released'[r].nonce < rx.nonce)
        BY <2>1, <2>3, Typed DEF IInv, ReceiverBehind, Nonces
      <3>3. \A s \in ReleasedUnder(k) : released'[s] = released[s]
        BY <2>3 DEF ReleasedUnder
      <3>4. ReleasedUnder(k)' = IF tx.key = k THEN ReleasedUnder(k) \cup {r} ELSE ReleasedUnder(k)
        BY <2>3
      <3>. QED
        BY <3>1, <3>2, <3>3, <3>4
    <2>8. OpenedInOrder'
      <3>. SUFFICES ASSUME NEW j \in DOMAIN opened',
                           NEW k, k = released'[opened'[j]].key, k \notin reset_keys'
                    PROVE  { opened'[i] : i \in { n \in 1 .. j - 1 : released'[opened'[n]].key = k } }
                             = { s \in ReleasedUnder(k)' : s < opened'[j] }
        BY Zenon DEF OpenedInOrder
      <3>0. j \in DOMAIN opened /\ k = released[opened[j]].key /\ k \notin reset_keys
        BY <1>0, <2>4
      <3>1. { opened[i] : i \in { n \in 1 .. j - 1 : released[opened[n]].key = k } }
              = { s \in ReleasedUnder(k) : s < opened[j] }
        BY <3>0 DEF HInv, OpenedInOrder
      <3>2. 1 .. j - 1 \subseteq DOMAIN opened
        BY <3>0, Typed DEF IInv
      <3>3. { n \in 1 .. j - 1 : released'[opened[n]].key = k }
              = { n \in 1 .. j - 1 : released[opened[n]].key = k }
        BY <2>4, <3>2
      <3>4. ~(r < opened[j])
        BY <2>4, <3>0, Typed DEF IInv
      <3>5. { s \in ReleasedUnder(k)' : s < opened[j] }
              = { s \in ReleasedUnder(k) : s < opened[j] }
        BY <2>3, <3>4
      <3>. QED
        BY <1>0, <3>1, <3>3, <3>5
    <2>9. ReleasedCounted'
      <3>1. tx'.key = tx.key /\ tx'.nonce = tx.nonce + 1 /\ Base' = Base
        BY <1>0, <2>2 DEF Base
      <3>2. ASSUME NEW k, k = tx.key, k \notin reset_keys
            PROVE  Cardinality(ReleasedUnder(k)') = tx.nonce + 1 - Base
        <4>1. Cardinality(ReleasedUnder(k)) = tx.nonce - Base
          BY <3>2 DEF HInv, ReleasedCounted
        <4>2. IsFiniteSet(ReleasedUnder(k))
          BY ReleasedFinite DEF IInv
        <4>3. r \notin ReleasedUnder(k)
          BY <2>3 DEF ReleasedUnder
        <4>4. Cardinality(ReleasedUnder(k) \cup {r}) = Cardinality(ReleasedUnder(k)) + 1
          BY <4>2, <4>3, FS_AddElement
        <4>5. ReleasedUnder(k)' = ReleasedUnder(k) \cup {r}
          BY <2>3, <3>2
        <4>6. tx.nonce - Base + 1 = tx.nonce + 1 - Base
          BY Typed DEF IInv, Base, Nonces
        <4>. QED
          BY <4>1, <4>4, <4>5, <4>6
      <3>. SUFFICES ASSUME NEW k, k = tx'.key, k \notin reset_keys'
                    PROVE  Cardinality(ReleasedUnder(k)') = tx'.nonce - Base'
        BY DEF ReleasedCounted, ReleasedUnder
      <3>3. k = tx.key /\ k \notin reset_keys
        BY <1>0, <3>1
      <3>4. Cardinality(ReleasedUnder(k)') = tx.nonce + 1 - Base
        BY <3>2, <3>3, Zenon
      <3>5. tx'.nonce - Base' = tx.nonce + 1 - Base
        BY <1>0, <2>2, Typed, SMT DEF IInv, Base, Nonces
      <3>. QED
        BY <3>4, <3>5
    <2>. QED
      BY <2>6, <2>7, <2>8, <2>9 DEF HInv
  <1>. QED
    BY <1>1, <1>2

\* decrypt takes the one message that carries the counter: the next in the order
\* of release, and everything before it was opened.
LEMMA DecryptHInv ==
  ASSUME IInv, HInv, NEW i \in DOMAIN released, NEW aad \in AADs, NEW n \in Nonces,
         Decrypt(i, aad, n)
  PROVE  HInv'
  <1>. SUFFICES ASSUME NEW k, k = rx.key PROVE HInv'
    OBVIOUS
  <1>. DEFINE last == Len(opened) + 1
  <1>1. released[i].key = k /\ released[i].nonce = rx.nonce
    BY DEF Decrypt, decrypts, Opens
  <1>2. UNCHANGED <<start, tx, released, reset_keys>> /\ opened' = Append(opened, i)
    BY DEF Decrypt
  <1>3. /\ k \in Keys /\ rx.nonce \in Nat /\ rx.nonce < MaxNonce
    BY <1>1, Typed DEF IInv, BelowCounter, Nonces
  <1>4. rx'.key = k /\ rx'.nonce = rx.nonce + 1
    <2>1. (rx.nonce + 1) % (MaxNonce + 1) = rx.nonce + 1
      BY <1>3, NoWrap
    <2>2. rx' = [rx EXCEPT !.nonce = (rx.nonce + 1) % (MaxNonce + 1)]
      BY DEF Decrypt, decrypt
    <2>. QED
      BY <2>1, <2>2 DEF IInv, TypeOK, CipherStates
  <1>5. /\ DOMAIN opened = 1 .. Len(opened) /\ Len(opened) \in Nat
        /\ DOMAIN opened' = 1 .. last
        /\ \A j \in 1 .. Len(opened) : opened'[j] = opened[j]
        /\ opened'[last] = i
    <2>1. opened \in Seq(DOMAIN released)
      BY DEF IInv, TypeOK
    <2>. QED
      BY <1>2, <2>1
  <1>6. \A x : ReleasedUnder(x)' = ReleasedUnder(x)
    BY <1>2 DEF ReleasedUnder
  <1>7. OpenedUnder(k)' = OpenedUnder(k) \cup {i}
    <2>1. { m \in DOMAIN opened' : released'[opened'[m]].key = k }
            = { m \in DOMAIN opened : released[opened[m]].key = k } \cup {last}
      BY <1>1, <1>2, <1>5
    <2>. QED
      BY <1>5, <2>1 DEF OpenedUnder
  <1>8. i \in ReleasedUnder(k)
    BY <1>1 DEF ReleasedUnder
  <1>9. OpenedUpToKey'
    BY <1>1, <1>2, <1>3, <1>4, <1>5 DEF HInv, OpenedUpToKey, Keys
  <1>10. ASSUME k \notin reset_keys
         PROVE  /\ OpenedUnder(k) = { r \in ReleasedUnder(k) : released[r].nonce < rx.nonce }
                /\ OpenedUnder(k) = { r \in ReleasedUnder(k) : r < i }
    <2>1. OpenedUnder(k) = { r \in ReleasedUnder(k) : released[r].nonce < rx.nonce }
      BY <1>10 DEF HInv, OpenedBelowCounter
    <2>2. \A r \in ReleasedUnder(k) : r < i <=> released[r].nonce < rx.nonce
      BY <1>1, <1>8, <1>10, OrderIsNonceOrder
    <2>. QED
      BY <2>1, <2>2
  <1>11. OpenedBelowCounter'
    <2>. SUFFICES ASSUME k \notin reset_keys
                  PROVE  OpenedUnder(k) \cup {i}
                           = { r \in ReleasedUnder(k) : released[r].nonce < rx.nonce + 1 }
      BY <1>2, <1>4, <1>6, <1>7 DEF OpenedBelowCounter
    <2>1. \A r \in ReleasedUnder(k) : released[r].nonce = rx.nonce => r = i
      <3>. SUFFICES ASSUME NEW r \in ReleasedUnder(k), released[r].nonce = rx.nonce
                    PROVE  r = i
        OBVIOUS
      <3>1. ~(r < i) /\ ~(i < r)
        BY <1>1, <1>3, <1>8, OrderIsNonceOrder
      <3>2. r \in Nat /\ i \in Nat
        BY Typed DEF IInv, ReleasedUnder
      <3>. QED
        BY <3>1, <3>2
    <2>2. \A r \in ReleasedUnder(k) : released[r].nonce \in Nat
      BY ReleasedTyped DEF IInv, ReleasedUnder, Nonces
    <2>3. \A r \in ReleasedUnder(k) :
            released[r].nonce < rx.nonce + 1 <=> released[r].nonce < rx.nonce \/ r = i
      BY <1>1, <1>3, <2>1, <2>2
    <2>. QED
      BY <1>8, <1>10, <2>3
  <1>12. OpenedInOrder'
    <2>. SUFFICES ASSUME NEW j \in DOMAIN opened',
                         NEW x, x = released'[opened'[j]].key, x \notin reset_keys'
                  PROVE  { opened'[l] : l \in { m \in 1 .. j - 1 : released'[opened'[m]].key = x } }
                           = { r \in ReleasedUnder(x)' : r < opened'[j] }
      BY Zenon DEF OpenedInOrder
    <2>0. /\ j \in 1 .. last /\ x = released[opened'[j]].key /\ x \notin reset_keys
          /\ released' = released
      BY <1>2, <1>5
    <2>1. \A m \in 1 .. j - 1 : opened'[m] = opened[m]
      BY <1>5, <2>0
    <2>2. { opened'[l] : l \in { m \in 1 .. j - 1 : released'[opened'[m]].key = x } }
            = { opened[l] : l \in { m \in 1 .. j - 1 : released[opened[m]].key = x } }
      BY <2>0, <2>1
    <2>3. CASE j \in DOMAIN opened
      <3>1. opened'[j] = opened[j]
        BY <1>5, <2>3
      <3>2. { opened[l] : l \in { m \in 1 .. j - 1 : released[opened[m]].key = x } }
              = { r \in ReleasedUnder(x) : r < opened[j] }
        BY <2>0, <2>3, <3>1 DEF HInv, OpenedInOrder
      <3>. QED
        BY <1>6, <2>2, <3>1, <3>2
    <2>4. CASE j = last
      <3>1. opened'[j] = i /\ x = k
        BY <1>1, <1>5, <2>0, <2>4
      <3>2. 1 .. j - 1 = DOMAIN opened
        BY <1>5, <2>4
      <3>3. { opened[l] : l \in { m \in 1 .. j - 1 : released[opened[m]].key = x } } = OpenedUnder(k)
        BY <3>1, <3>2 DEF OpenedUnder
      <3>. QED
        BY <1>6, <1>10, <2>0, <2>2, <3>1, <3>3
    <2>. QED
      BY <1>5, <2>0, <2>3, <2>4
  <1>13. ReleasedCounted'
    BY <1>2, <1>6 DEF HInv, ReleasedCounted, Base
  <1>. QED
    BY <1>9, <1>11, <1>12, <1>13 DEF HInv

\* Under a new key nothing was released by the sender or opened by the receiver.
LEMMA RekeyHInv ==
  ASSUME IInv, HInv, RekeySender \/ RekeyReceiver
  PROVE  HInv'
  <1>0. /\ UNCHANGED <<start, released, opened, reset_keys>>
        /\ \A k : ReleasedUnder(k)' = ReleasedUnder(k) /\ OpenedUnder(k)' = OpenedUnder(k)
    BY DEF RekeySender, RekeyReceiver, ReleasedUnder, OpenedUnder
  <1>1. OpenedInOrder'
    BY <1>0 DEF HInv, OpenedInOrder, ReleasedUnder
  <1>2. CASE RekeySender
    <2>1. rx' = rx /\ tx' = [key |-> tx.key + 1, nonce |-> 0]
      BY <1>2 DEF RekeySender, rekey, IInv, TypeOK, CipherStates
    <2>2. OpenedUpToKey' /\ OpenedBelowCounter'
      BY <1>0, <2>1 DEF HInv, OpenedUpToKey, OpenedBelowCounter
    <2>3. ReleasedUnder(tx.key + 1) = {}
      <3>1. \A r \in DOMAIN released : released[r].key \in Nat /\ released[r].key <= tx.key
        BY ReleasedTyped DEF IInv, BelowCounter, Keys
      <3>2. tx.key \in Nat
        BY Typed DEF IInv, Keys
      <3>. QED
        BY <3>1, <3>2 DEF ReleasedUnder
    <2>4. ReleasedCounted'
      <3>1. Cardinality({}) = 0
        BY FS_EmptySet
      <3>2. tx.key \in Nat /\ tx.key >= 1
        BY Typed DEF IInv, Keys
      <3>3. tx'.key # 1 /\ tx'.nonce = 0 /\ tx'.key = tx.key + 1
        BY <2>1, <3>2
      <3>. QED
        BY <1>0, <2>3, <3>1, <3>3 DEF ReleasedCounted, Base
    <2>. QED
      BY <1>1, <2>2, <2>4 DEF HInv
  <1>3. CASE RekeyReceiver
    <2>1. tx' = tx /\ rx' = [key |-> rx.key + 1, nonce |-> 0]
      BY <1>3 DEF RekeyReceiver, rekey, IInv, TypeOK, CipherStates
    <2>2. rx.key \in Nat
      BY Typed DEF IInv, Keys
    <2>3. \A m \in DOMAIN opened :
            released[opened[m]].key \in Nat /\ released[opened[m]].key <= rx.key
      BY Typed, ReleasedTyped DEF IInv, HInv, OpenedUpToKey, Keys
    <2>4. OpenedUpToKey'
      BY <1>0, <2>1, <2>2, <2>3 DEF OpenedUpToKey
    <2>5. OpenedUnder(rx.key + 1) = {}
      BY <2>2, <2>3 DEF OpenedUnder
    <2>6. { r \in ReleasedUnder(rx.key + 1) : released[r].nonce < 0 } = {}
      BY ReleasedTyped DEF IInv, ReleasedUnder, Nonces
    <2>7. OpenedBelowCounter'
      BY <1>0, <2>1, <2>5, <2>6 DEF OpenedBelowCounter
    <2>8. ReleasedCounted'
      BY <1>0, <2>1 DEF HInv, ReleasedCounted, Base
    <2>. QED
      BY <1>1, <2>4, <2>7, <2>8 DEF HInv
  <1>. QED
    BY <1>2, <1>3

\* A reset takes its key out of what the invariant speaks about.
LEMMA ResetHInv ==
  ASSUME IInv, HInv, ResetSender \/ ResetReceiver
  PROVE  HInv'
  <1>0. /\ UNCHANGED <<start, released, opened>>
        /\ \A k : ReleasedUnder(k)' = ReleasedUnder(k) /\ OpenedUnder(k)' = OpenedUnder(k)
    BY DEF ResetSender, ResetReceiver, ReleasedUnder, OpenedUnder
  <1>1. reset_keys \subseteq reset_keys'
    BY DEF ResetSender, ResetReceiver
  <1>2. OpenedInOrder'
    <2>. SUFFICES ASSUME NEW j \in DOMAIN opened',
                         NEW k, k = released'[opened'[j]].key, k \notin reset_keys'
                  PROVE  { opened'[i] : i \in { n \in 1 .. j - 1 : released'[opened'[n]].key = k } }
                           = { s \in ReleasedUnder(k)' : s < opened'[j] }
      BY Zenon DEF OpenedInOrder
    <2>1. j \in DOMAIN opened /\ k = released[opened[j]].key /\ k \notin reset_keys
      BY <1>0, <1>1
    <2>2. { opened[i] : i \in { n \in 1 .. j - 1 : released[opened[n]].key = k } }
            = { s \in ReleasedUnder(k) : s < opened[j] }
      BY <2>1 DEF HInv, OpenedInOrder
    <2>. QED
      BY <1>0, <2>2 DEF ReleasedUnder
  <1>3. CASE ResetSender
    <2>1. rx' = rx /\ tx'.key = tx.key /\ tx.key \in reset_keys'
      BY <1>3 DEF ResetSender, reset_nonce, IInv, TypeOK, CipherStates
    <2>2. OpenedUpToKey' /\ OpenedBelowCounter'
      BY <1>0, <1>1, <2>1 DEF HInv, OpenedUpToKey, OpenedBelowCounter
    <2>3. ReleasedCounted'
      BY <2>1 DEF ReleasedCounted
    <2>. QED
      BY <1>2, <2>2, <2>3 DEF HInv
  <1>4. CASE ResetReceiver
    <2>1. tx' = tx /\ rx'.key = rx.key /\ rx.key \in reset_keys'
      BY <1>4 DEF ResetReceiver, reset_nonce, IInv, TypeOK, CipherStates
    <2>2. OpenedUpToKey' /\ OpenedBelowCounter'
      BY <1>0, <2>1 DEF HInv, OpenedUpToKey, OpenedBelowCounter
    <2>3. ReleasedCounted'
      BY <1>0, <1>1, <2>1 DEF HInv, ReleasedCounted, Base
    <2>. QED
      BY <1>2, <2>2, <2>3 DEF HInv
  <1>. QED
    BY <1>3, <1>4

\* The invariant about the histories holds in every reachable state.
THEOREM HistoryInvariant == Spec => [](IInv /\ HInv)
  <1>1. IInv /\ HInv /\ [Next]_vars => HInv'
    <2>. SUFFICES ASSUME IInv, HInv, [Next]_vars PROVE HInv'
      OBVIOUS
    <2>1. ASSUME NEW aad \in AADs, Encrypt(aad) PROVE HInv'
      BY <2>1, EncryptHInv
    <2>2. ASSUME NEW i \in DOMAIN released, NEW aad \in AADs, NEW n \in Nonces,
                 Decrypt(i, aad, n)
          PROVE  HInv'
      BY <2>2, DecryptHInv
    <2>3. CASE RekeySender \/ RekeyReceiver
      BY <2>3, RekeyHInv
    <2>4. CASE ResetSender \/ ResetReceiver
      BY <2>4, ResetHInv
    <2>5. CASE UNCHANGED vars
      BY <2>5 DEF vars, HInv, OpenedUpToKey, OpenedBelowCounter, OpenedInOrder,
                  ReleasedCounted, OpenedUnder, ReleasedUnder, Base
    <2>. QED
      BY <2>1, <2>2, <2>3, <2>4, <2>5 DEF Next, DecryptFails
  <1>. QED
    BY <1>1, InitHInv, InductiveInvariant, PTL DEF Spec

\* Without a reset, decrypt returns Ok for an initial part of what encrypt
\* released under a key, each message once and in order.
THEOREM ReceiverInOrder == Spec => []OpenedInOrder
  <1>1. HInv => OpenedInOrder
    BY DEF HInv
  <1>. QED
    BY <1>1, HistoryInvariant, PTL

\* Without a reset, remaining_nonces is what encrypt will still release.
THEOREM NonceBudget == Spec => []BudgetExact
  <1>1. IInv /\ HInv => BudgetExact
    <2>. SUFFICES ASSUME IInv, HInv, tx.key \notin reset_keys
                  PROVE  Cardinality(ReleasedUnder(tx.key)) + (MaxNonce - tx.nonce)
                           = MaxNonce - Base
      BY DEF BudgetExact, remaining_nonces, Base
    <2>1. Cardinality(ReleasedUnder(tx.key)) = tx.nonce - Base
      BY DEF HInv, ReleasedCounted
    <2>2. tx.nonce \in Nat /\ Base \in Nat
      BY Typed DEF IInv, Base, Nonces
    <2>3. (tx.nonce - Base) + (MaxNonce - tx.nonce) = MaxNonce - Base
      BY <2>2
    <2>. QED
      BY <2>1, <2>3
  <1>. QED
    BY <1>1, HistoryInvariant, PTL

=============================================================================
