---------------------------- MODULE CommandLine ----------------------------
(***************************************************************************)
(* What the commands `server` and `client` of main (src/src/main.rs) build *)
(* from their arguments.  An argument that may be left out is <<>> or      *)
(* <<value>>; a key in hex stands for the key pair it belongs to.          *)
(***************************************************************************)
EXTENDS Naturals

PROTOCOL_NAME == "Noise_NK_25519_ChaChaPoly_SHA256_v1"

\* Text that is not 64 hex digits.
Malformed == "not a key"

\* The key pair made when none is given, a new one at every start.
Generated == "generated key"

unwrap_or(option, default) == IF option = <<>> THEN default ELSE option[1]

\* KeyPair::from_private_hex and parse_public_key_hex; main returns their error.
ParsesHex(key) == key # Malformed

\* Commands::Server: `serving` once run is reached.
ServerSetup(args) ==
  [ serving |-> ParsesHex(unwrap_or(args.private_key, Generated)),
    static |-> unwrap_or(args.private_key, Generated),
    prologue |-> unwrap_or(args.prologue, PROTOCOL_NAME),
    limited |-> args.max_connections # <<>> ]

\* Commands::Client: `started` once a session is; the timeout is given to the
\* client whichever session it is.
ClientSetup(args) ==
  [ started |-> ParsesHex(args.server_pubkey),
    pinned |-> args.server_pubkey,
    prologue |-> unwrap_or(args.prologue, PROTOCOL_NAME),
    timeout |-> args.timeout # <<>>,
    mode |-> IF args.interactive THEN "repl" ELSE "oneshot" ]

=============================================================================
