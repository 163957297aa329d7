---------------------------- MODULE NoiseCrypto ----------------------------
(***************************************************************************)
(* The operations of src/src/crypto/mod.rs on symbolic values.             *)
(*                                                                         *)
(* A key pair is named by one value that stands for its private and its    *)
(* public half; shared secrets, hashes, derived keys and ciphertexts are   *)
(* the terms they were computed from, so two are equal exactly when they   *)
(* were computed from the same inputs.                                     *)
(***************************************************************************)
EXTENDS Integers

CONSTANT MaxNonce  \* the largest nonce (u64::MAX)

ASSUME NonceAssumption == MaxNonce \in Nat \ {0}

Nonces == 0 .. MaxNonce

-----------------------------------------------------------------------------
(* Key agreement *)

\* X25519: both ends compute the same secret from the two halves they hold.
diffie_hellman(secret, public) == {secret, public}

NoKey == "none"

\* `server_ephemeral` is NoKey before the server has answered.
hash_handshake_state(prologue, client_ephemeral, server_static, server_ephemeral) ==
  <<prologue, client_ephemeral, server_static, server_ephemeral>>

\* Variant: both expansions use one label.
derive_session_keys_one_label(shared_secret, handshake_hash) ==
  [ client_write_key |-> <<shared_secret, handshake_hash, "client">>,
    server_write_key |-> <<shared_secret, handshake_hash, "client">> ]

\* HKDF with the hash as salt, expanded once per direction.  A shared secret is
\* the sequence of the Diffie-Hellman outputs concatenated into it.
derive_session_keys(shared_secret, handshake_hash) ==
  [ client_write_key |-> <<shared_secret, handshake_hash, "client">>,
    server_write_key |-> <<shared_secret, handshake_hash, "server">> ]

-----------------------------------------------------------------------------
(* AEAD (ChaCha20-Poly1305) *)

Ciphertext(key, nonce, aad, plaintext) ==
  [key |-> key, nonce |-> nonce, aad |-> aad, plaintext |-> plaintext, intact |-> TRUE]

\* The Poly1305 tag verifies: nothing was altered and the key, the nonce and
\* the associated data are the ones the message was sealed with.
Opens(ciphertext, key, nonce, aad) ==
  /\ ciphertext.intact
  /\ ciphertext.key = key
  /\ ciphertext.nonce = nonce
  /\ ciphertext.aad = aad

-----------------------------------------------------------------------------
(* struct CipherState *)

with_nonce(key, nonce) == [key |-> key, nonce |-> nonce]
new(key) == with_nonce(key, 0)

\* Variant: counts the nonce that encrypt refuses as well.
remaining_nonces_inclusive(c) == MaxNonce - c.nonce + 1

remaining_nonces(c) == MaxNonce - c.nonce
is_exhausted(c) == c.nonce = MaxNonce

\* Variant: the key is kept and only the counter starts over.
rekey_same_key(c, new_key) == [c EXCEPT !.nonce = 0]

rekey(c, new_key) == [c EXCEPT !.key = new_key, !.nonce = 0]
reset_nonce(c) == [c EXCEPT !.nonce = 0]

\* Variant: the last nonce is usable as well.
encrypts_at_max(c) == TRUE

\* encrypt returns Ok.  `checked_add` comes after sealing: at the last nonce the
\* ciphertext exists but is dropped, and every later call fails the same way.
encrypts(c) == ~is_exhausted(c)

seal(c, aad, plaintext) == Ciphertext(c.key, c.nonce, aad, plaintext)

\* The state encrypt leaves.
encrypt(c) == IF encrypts(c) THEN [c EXCEPT !.nonce = @ + 1] ELSE c

\* Variant: the order of the nonces is not checked.
decrypts_any_nonce(c, ciphertext, aad, expected_nonce) ==
  Opens(ciphertext, c.key, expected_nonce, aad)

\* Variant: an older message is let through as well.
decrypts_old_nonce(c, ciphertext, aad, expected_nonce) ==
  expected_nonce <= c.nonce /\ Opens(ciphertext, c.key, expected_nonce, aad)

\* decrypt returns Ok.
decrypts(c, ciphertext, aad, expected_nonce) ==
  expected_nonce = c.nonce /\ Opens(ciphertext, c.key, expected_nonce, aad)

\* `self.nonce += 1` is unchecked: at the last nonce a release build wraps to 0
\* (a debug build panics).
decrypt(c) == [c EXCEPT !.nonce = (@ + 1) % (MaxNonce + 1)]

=============================================================================
