------------------------------ MODULE MCTunnel ------------------------------
(* Tunnel with the arguments each run gives to the two commands.            *)
EXTENDS Tunnel

ClientCommand(interactive, timeouts, prologues, keys) ==
  [ interactive : interactive, timeout : timeouts, prologue : prologues, server_pubkey : keys ]

ServerCommand(keys, prologues, limits) ==
  [ private_key : keys, prologue : prologues, max_connections : limits ]

Pinned == "server key"
Seconds == <<5>>

\* Every kind of argument either command takes.
AnyClient ==
  ClientCommand(BOOLEAN, {<<>>, Seconds}, {<<>>, <<"other">>}, {Pinned, Generated, Malformed})
AnyServer ==
  ServerCommand({<<>>, <<Pinned>>, <<Malformed>>}, {<<>>, <<"other">>}, {<<>>, <<1>>})

\* Clients with and without the right key and prologue.
MixedClient == ClientCommand(BOOLEAN, {<<>>}, {<<>>, <<"other">>}, {Pinned, Generated})

OneshotClient == ClientCommand({FALSE}, {<<>>}, {<<>>}, {Pinned})

PlainServer == ServerCommand({<<Pinned>>}, {<<>>}, {<<>>})

=============================================================================
