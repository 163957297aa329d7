----------------------------- MODULE CipherPair -----------------------------
(***************************************************************************)
(* One direction of a session: a CipherState that encrypts and the one     *)
(* that decrypts (src/src/crypto/mod.rs), both built by with_nonce from    *)
(* the same key and nonce.  The receiver may be handed any ciphertext ever *)
(* released, any number of times and in any order, with any expected nonce *)
(* and associated data.  Each end rekeys and resets on its own.            *)
(***************************************************************************)
EXTENDS NoiseCrypto, Sequences, FiniteSets

CONSTANTS
  AADs,          \* associated data in use
  StartNonces,   \* start nonces given to with_nonce
  MaxKeys,       \* bound: keys numbered 1..MaxKeys, each rekey takes the next
  MaxMessages    \* bound: ciphertexts released

ASSUME PairAssumption ==
  /\ StartNonces \subseteq Nonces
  /\ MaxKeys \in Nat \ {0}
  /\ MaxMessages \in Nat

VARIABLES
  start,      \* the start nonce of the first key
  tx, rx,     \* the two CipherStates
  released,   \* history: every ciphertext encrypt returned, in order
  opened,     \* history: for each decrypt that returned Ok, its index in released
  reset_keys, \* history: keys under which either end called reset_nonce
  overflowed  \* history: decrypt incremented the last nonce

vars == <<start, tx, rx, released, opened, reset_keys, overflowed>>

Keys == 1 .. MaxKeys
CipherStates == [key : Keys, nonce : Nonces]

Init ==
  /\ start \in StartNonces
  /\ tx = with_nonce(1, start)
  /\ rx = with_nonce(1, start)
  /\ released = <<>>
  /\ opened = <<>>
  /\ reset_keys = {}
  /\ overflowed = FALSE

\* The plaintext is the number of the message.
Encrypt(aad) ==
  /\ Len(released) < MaxMessages
  /\ tx' = encrypt(tx)
  /\ released' = IF encrypts(tx)
                   THEN Append(released, seal(tx, aad, Len(released) + 1))
                   ELSE released
  /\ UNCHANGED <<start, rx, opened, reset_keys, overflowed>>

Decrypt(i, aad, expected_nonce) ==
  /\ decrypts(rx, released[i], aad, expected_nonce)
  /\ rx' = decrypt(rx)
  /\ opened' = Append(opened, i)
  /\ overflowed' = (overflowed \/ is_exhausted(rx))
  /\ UNCHANGED <<start, tx, released, reset_keys>>

\* An error leaves the state as it was.
DecryptFails(i, aad, expected_nonce) ==
  /\ ~decrypts(rx, released[i], aad, expected_nonce)
  /\ UNCHANGED vars

RekeySender ==
  /\ tx.key < MaxKeys
  /\ tx' = rekey(tx, tx.key + 1)
  /\ UNCHANGED <<start, rx, released, opened, reset_keys, overflowed>>

RekeyReceiver ==
  /\ rx.key < MaxKeys
  /\ rx' = rekey(rx, rx.key + 1)
  /\ UNCHANGED <<start, tx, released, opened, reset_keys, overflowed>>

ResetSender ==
  /\ tx' = reset_nonce(tx)
  /\ reset_keys' = reset_keys \cup {tx.key}
  /\ UNCHANGED <<start, rx, released, opened, overflowed>>

ResetReceiver ==
  /\ Len(opened) < MaxMessages
  /\ rx' = reset_nonce(rx)
  /\ reset_keys' = reset_keys \cup {rx.key}
  /\ UNCHANGED <<start, tx, released, opened, overflowed>>

Next ==
  \/ \E aad \in AADs : Encrypt(aad)
  \/ \E i \in DOMAIN released, aad \in AADs, n \in Nonces :
       Decrypt(i, aad, n) \/ DecryptFails(i, aad, n)
  \/ RekeySender \/ RekeyReceiver
  \/ ResetSender \/ ResetReceiver

Spec == Init /\ [][Next]_vars

-----------------------------------------------------------------------------
(* Properties *)

\* Type invariant of CipherPair: both counters stay within u64.
TypeOK ==
  /\ start \in Nonces
  /\ tx \in CipherStates /\ rx \in CipherStates
  /\ released \in Seq([key : Keys, nonce : Nonces, aad : AADs,
                       plaintext : Nat, intact : {TRUE}])
  /\ opened \in Seq(DOMAIN released)
  /\ reset_keys \subseteq Keys
  /\ overflowed \in BOOLEAN

ReleasedUnder(k) == { i \in DOMAIN released : released[i].key = k }

\* Two released ciphertexts never share key and nonce unless the counter was
\* reset under that key by reset_nonce; a rekey ends the exposure.
NonceReuseNeedsReset ==
  \A i, j \in DOMAIN released :
    /\ released[i].key = released[j].key
    /\ released[i].nonce = released[j].nonce
    /\ released[i].key \notin reset_keys
    => i = j

\* Under a key that was not reset, decrypt returns Ok for exactly an initial
\* part of what encrypt released, each message once and in order, although the
\* ciphertexts arrive in any order, repeatedly, or not at all.
OpenedInOrder ==
  \A j \in DOMAIN opened :
    LET k == released[opened[j]].key
    IN  k \notin reset_keys =>
          { opened[i] : i \in { n \in 1 .. j - 1 : released[opened[n]].key = k } }
            = { r \in ReleasedUnder(k) : r < opened[j] }

\* remaining_nonces is exactly the number of messages encrypt will still
\* release under the key: the budget is the distance from the first nonce to
\* u64::MAX, and u64::MAX itself is never released.
BudgetExact ==
  tx.key \notin reset_keys =>
    Cardinality(ReleasedUnder(tx.key)) + remaining_nonces(tx)
      = MaxNonce - (IF tx.key = 1 THEN start ELSE 0)

\* The unchecked `self.nonce += 1` of decrypt never overflows: since encrypt
\* drops the ciphertext of the last nonce, there is none to decrypt with it.
DecryptNeverOverflows == ~overflowed

=============================================================================
