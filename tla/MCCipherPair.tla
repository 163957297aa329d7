---------------------------- MODULE MCCipherPair ----------------------------
(* CipherPair with three nonces and two keys. *)
EXTENDS CipherPair

=============================================================================
